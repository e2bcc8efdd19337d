---------------------------- MODULE ClusterProofs ----------------------------
(***************************************************************************)
(* What the nodes of a cluster agree on, proved: the runtime objects they   *)
(* synchronise (ConfigSync), which of them runs an object                   *)
(* (ObjectAuthority), and the files they have and run (FileSync).           *)
(***************************************************************************)
EXTENDS ConfigSync, ObjectAuthority, FileSync, FiniteSetTheorems, FunctionTheorems,
        SequenceTheorems, TLAPS

Objects == [version : Nat \ {0}, config : Nat, attrs : Nat]
UpdateMessages == [type : {"update"}, version : Nat \ {0}, config : Nat, attrs : Nat]
DeleteMessages == [type : {"delete"}, version : Nat]
Messages == UpdateMessages \cup DeleteMessages

SyncTypes ==
    /\ clock \in Nat
    /\ object \in [Servers -> Objects \cup {NoObject}]
    /\ deletion \in [Servers -> Nat] /\ buried \in [Servers -> Nat]
    /\ hand \in [Servers -> Seq(UpdateMessages)]
    /\ wire \in [Servers -> Seq(Messages)]
    /\ sync \in [Servers -> {"idle", "start", "sending"}]
    /\ snapshot \in [Servers -> Seq(UpdateMessages)]
    /\ log \in [Servers -> Seq(DeleteMessages)]
    /\ missed \subseteq Servers /\ raced \subseteq Servers

Contents(s) == {s[i] : i \in 1..Len(s)}

\* Nothing is from the future, and a deletion that is pruned is remembered.
TimesOK ==
    /\ \A n \in Servers : /\ object[n].version <= clock
                          /\ deletion[n] <= buried[n] /\ buried[n] <= clock
    /\ \A r \in requests : r.op = "create" => r.arg <= clock

MessagesOK ==
    \A n \in Servers : \A msg \in Contents(hand[n]) \cup Contents(wire[n]) \cup Contents(log[n]) :
        msg.version <= clock

\* A request that has found the object has it until a deletion outdates the request.
FoundExists ==
    /\ requests \subseteq [node : Servers, op : {"create", "modify", "delete"}, arg : Nat]
    /\ \A r \in requests : r.op # "create" /\ r.arg = 1 => Exists(r.node)

\* Updates that n has sent and the other node has not applied yet.
Sent(n) == {msg \in Contents(snapshot[n]) \cup Contents(wire[n]) \cup Contents(hand[Other(n)]) :
                msg.type = "update"}

\* The version is known to n: it has this one or a later one, or has deleted it.
Covered(n, version) == (Exists(n) /\ object[n].version >= version) \/ buried[n] >= version

\* What a node has announced it knows itself, so that nothing older comes back.
AnnouncedIsKnown ==
    raced = {} => \A n \in Servers : \A msg \in Sent(n) : Covered(n, msg.version)

\* What a node has, the other one has too, or is going to be told about.
Announced(n) ==
    \/ Covered(Other(n), object[n].version)
    \/ \E msg \in Sent(n) : msg.version >= object[n].version
    \/ ~linked \/ sync[n] = "start" \/ n \in missed

ExistsIsAnnounced == raced = {} => \A n \in Servers : Exists(n) => Announced(n)

SnapshotOK ==
    \A n \in Servers : /\ sync[n] # "sending" => snapshot[n] = <<>>
                       /\ \A msg \in Contents(snapshot[n]) : msg.version <= clock
                       /\ ~linked => sync[n] = "idle"

SyncBasics == /\ SyncTypes /\ TimesOK /\ MessagesOK /\ FoundExists /\ SnapshotOK
              /\ DeletedStaysDeleted

\* At most one update waits for the lock.
HandOK == \A n \in Servers : Contents(hand[n]) \subseteq {Head(hand[n])}

SyncInv == SyncBasics /\ HandOK /\ AnnouncedIsKnown /\ ExistsIsAnnounced
----------------------------------------------------------------------------
\* The zone has two nodes.
LEMMA TwoNodes ==
    ASSUME NEW n \in Servers
    PROVE  /\ Other(n) \in Servers /\ Other(n) # n /\ Other(Other(n)) = n
           /\ \A m \in Servers : m = n \/ m = Other(n)
<1>1. PICK a \in Servers, b \in Servers : a # b /\ Servers = {a, b}
  BY ConfigAssumption
<1>2. \A x \in Servers : Other(x) \in Servers /\ Other(x) # x
  BY <1>1 DEF Other
<1> QED
  BY <1>1, <1>2

\* What is in a queue that grows at its end, shrinks at its front or is joined.
LEMMA QueueContents ==
    ASSUME NEW S, NEW s \in Seq(S)
    PROVE  /\ Contents(<<>>) = {} /\ \A x : Contents(<<x>>) = {x}
           /\ \A x \in S : Append(s, x) \in Seq(S) /\ Contents(Append(s, x)) = Contents(s) \cup {x}
           /\ \A t \in Seq(S) : s \o t \in Seq(S) /\ Contents(s \o t) = Contents(s) \cup Contents(t)
           /\ s # <<>> => /\ Head(s) \in S /\ Tail(s) \in Seq(S)
                          /\ Contents(s) = {Head(s)} \cup Contents(Tail(s))
           /\ Contents(s) \subseteq S
<1>1. Contents(<<>>) = {} /\ \A x : Contents(<<x>>) = {x}
  BY DEF Contents
<1>2. ASSUME NEW t \in Seq(S)
      PROVE  s \o t \in Seq(S) /\ Contents(s \o t) = Contents(s) \cup Contents(t)
  <2>1. /\ s \o t \in Seq(S) /\ Len(s \o t) = Len(s) + Len(t)
        /\ Len(s) \in Nat /\ Len(t) \in Nat
        /\ \A i \in 1..Len(s) + Len(t) :
              (s \o t)[i] = IF i <= Len(s) THEN s[i] ELSE t[i - Len(s)]
    BY ConcatProperties, LenProperties
  <2>2. \A i \in 1..Len(s) : i \in 1..Len(s \o t) /\ (s \o t)[i] = s[i]
    BY <2>1
  <2>3. \A i \in 1..Len(t) : i + Len(s) \in 1..Len(s \o t) /\ (s \o t)[i + Len(s)] = t[i]
    BY <2>1
  <2>4. Contents(s) \cup Contents(t) \subseteq Contents(s \o t)
    BY <2>2, <2>3 DEF Contents
  <2>5. ASSUME NEW i \in 1..Len(s \o t) PROVE (s \o t)[i] \in Contents(s) \cup Contents(t)
    <3>1. CASE i <= Len(s)
      BY <2>1, <3>1 DEF Contents
    <3>2. CASE ~(i <= Len(s))
      <4>1. i - Len(s) \in 1..Len(t) /\ (s \o t)[i] = t[i - Len(s)]
        BY <2>1, <3>2
      <4> QED
        BY <4>1 DEF Contents
    <3> QED
      BY <3>1, <3>2
  <2>6. Contents(s \o t) \subseteq Contents(s) \cup Contents(t)
    BY <2>5 DEF Contents
  <2> QED
    BY <2>1, <2>4, <2>6
<1>3. ASSUME NEW x \in S
      PROVE  Append(s, x) \in Seq(S) /\ Contents(Append(s, x)) = Contents(s) \cup {x}
  <2>1. Append(s, x) = s \o <<x>> /\ <<x>> \in Seq(S)
    BY AppendIsConcat
  <2> QED
    BY <2>1, <1>1, <1>2
<1>4. ASSUME s # <<>>
      PROVE  /\ Head(s) \in S /\ Tail(s) \in Seq(S)
             /\ Contents(s) = {Head(s)} \cup Contents(Tail(s))
  <2>1. /\ Head(s) \in S /\ Tail(s) \in Seq(S) /\ Len(Tail(s)) = Len(s) - 1
        /\ \A i \in 1..Len(Tail(s)) : Tail(s)[i] = s[i + 1]
        /\ Len(s) \in Nat \ {0} /\ Head(s) = s[1]
    BY <1>4, HeadTailProperties, EmptySeq
  <2>2. {Head(s)} \cup Contents(Tail(s)) \subseteq Contents(s)
    BY <2>1 DEF Contents
  <2>3. ASSUME NEW i \in 1..Len(s) PROVE s[i] \in {Head(s)} \cup Contents(Tail(s))
    <3>1. CASE i # 1
      <4>1. i - 1 \in 1..Len(Tail(s)) /\ s[i] = Tail(s)[i - 1]
        BY <2>1, <3>1
      <4> QED
        BY <4>1 DEF Contents
    <3> QED
      BY <2>1, <3>1
  <2> QED
    BY <2>1, <2>2, <2>3 DEF Contents
<1>5. Contents(s) \subseteq S
  BY ElementOfSeq DEF Contents
<1> QED
  BY <1>1, <1>2, <1>3, <1>4, <1>5
----------------------------------------------------------------------------
\* What is relayed is sent, logged, or missed by the other node.
LEMMA RelayTypes ==
    ASSUME SyncTypes, NEW n \in Servers, NEW msg \in Messages, RelayConfig(n, msg)
    PROVE  /\ wire' \in [Servers -> Seq(Messages)] /\ log' \in [Servers -> Seq(DeleteMessages)]
           /\ missed' \subseteq Servers /\ missed \subseteq missed'
           /\ \A m \in Servers : /\ Contents(wire[m]) \subseteq Contents(wire'[m])
                                 /\ Contents(wire'[m]) \subseteq Contents(wire[m]) \cup {msg}
                                 /\ m # n => wire'[m] = wire[m]
                                 /\ Contents(log'[m]) \subseteq Contents(log[m]) \cup {msg}
           /\ linked => n \in missed' \/ msg \in Contents(wire'[n])
<1>1. wire' \in [Servers -> Seq(Messages)]
  BY QueueContents DEF SyncTypes, RelayConfig
<1>2. log' \in [Servers -> Seq(DeleteMessages)]
  <2>1. msg.type = "delete" => msg \in DeleteMessages
    BY DEF Messages, UpdateMessages
  <2> QED
    BY <2>1, QueueContents DEF SyncTypes, RelayConfig
<1>3. /\ Contents(Append(wire[n], msg)) = Contents(wire[n]) \cup {msg}
      /\ msg.type = "delete" => Contents(Append(log[n], msg)) = Contents(log[n]) \cup {msg}
  <2>1. msg.type = "delete" => msg \in DeleteMessages
    BY DEF Messages, UpdateMessages
  <2> QED
    BY <2>1, QueueContents DEF SyncTypes
<1>4. ASSUME NEW m \in Servers
      PROVE  /\ Contents(wire[m]) \subseteq Contents(wire'[m])
             /\ Contents(wire'[m]) \subseteq Contents(wire[m]) \cup {msg}
             /\ m # n => wire'[m] = wire[m]
             /\ Contents(log'[m]) \subseteq Contents(log[m]) \cup {msg}
  BY <1>3 DEF SyncTypes, RelayConfig
<1>5. linked => n \in missed' \/ msg \in Contents(wire'[n])
  BY <1>3 DEF SyncTypes, RelayConfig
<1> QED
  BY <1>1, <1>2, <1>4, <1>5 DEF SyncTypes, RelayConfig

\* The rest of a log is a log.
LEMMA LogTypes ==
    ASSUME NEW s \in Seq(DeleteMessages), NEW msg
    PROVE  /\ Unconfirmed(s, msg) \in Seq(DeleteMessages)
           /\ Contents(Unconfirmed(s, msg)) \subseteq Contents(s)
<1> DEFINE confirmed == {i \in 1..Len(s) : s[i] = msg}
<1>1. CASE confirmed # {}
  <2> DEFINE i == CHOOSE i \in confirmed : TRUE
  <2>1. i \in 1..Len(s) /\ Len(s) \in Nat
    BY <1>1
  <2>2. PICK k : k = 1 + i
    OBVIOUS
  <2> HIDE DEF i
  <2>3. k \in Int /\ Len(s) \in Int /\ \A j \in k..Len(s) : s[j] \in DeleteMessages
    BY <2>1, <2>2, ElementOfSeq
  <2>4. /\ SubSeq(s, k, Len(s)) \in Seq(DeleteMessages)
        /\ Len(SubSeq(s, k, Len(s))) = IF k <= Len(s) THEN Len(s) - k + 1 ELSE 0
        /\ \A j \in 1..Len(s) - k + 1 : SubSeq(s, k, Len(s))[j] = s[k + j - 1]
    BY <2>3, SubSeqProperties
  <2>5. ASSUME NEW j \in 1..Len(SubSeq(s, k, Len(s)))
        PROVE  k + j - 1 \in 1..Len(s) /\ SubSeq(s, k, Len(s))[j] = s[k + j - 1]
    BY <2>1, <2>2, <2>4
  <2>6. Contents(SubSeq(s, k, Len(s))) \subseteq Contents(s)
    BY <2>5 DEF Contents
  <2> QED
    BY <1>1, <2>2, <2>4, <2>6 DEF Unconfirmed, i
<1> QED
  BY <1>1 DEF Unconfirmed

\* What an update makes of the object is an object.
LEMMA UpdatedTypes ==
    ASSUME SyncTypes, NEW n \in Servers, NEW msg \in UpdateMessages
    PROVE  /\ Updated(n, msg) \in Objects
           /\ Updated(n, msg).version >= msg.version
           /\ \/ Updated(n, msg).version = msg.version
              \/ Exists(n) /\ Updated(n, msg) = object[n]
           /\ Exists(n) => Updated(n, msg).version >= object[n].version
<1>1. /\ Exists(n) => object[n] \in Objects
      /\ \A o \in Objects : o.version \in Nat \ {0} /\ o.config \in Nat
  BY DEF SyncTypes, Exists, Objects
<1>2. msg.version \in Nat \ {0} /\ msg.config \in Nat /\ msg.attrs \in Nat
  BY DEF UpdateMessages
<1>3. CASE ~Exists(n)
  BY <1>2, <1>3 DEF Updated, Objects
<1>4. CASE Exists(n) /\ msg.version <= object[n].version
  BY <1>1, <1>2, <1>4 DEF Updated
<1>5. CASE Exists(n) /\ ~(msg.version <= object[n].version)
  <2>1. Updated(n, msg) = [object[n] EXCEPT !.version = msg.version, !.attrs = msg.attrs]
    BY <1>5 DEF Updated
  <2>2. /\ Updated(n, msg) \in Objects /\ Updated(n, msg).version = msg.version
    BY <1>1, <1>2, <1>5, <2>1 DEF Objects
  <2> QED
    BY <1>1, <1>2, <1>5, <2>2
<1> QED
  BY <1>3, <1>4, <1>5

\* An object with another version and other attributes is an object.
LEMMA ChangedObject ==
    ASSUME NEW o \in Objects, NEW version \in Nat \ {0}, NEW attrs \in Nat
    PROVE  /\ [o EXCEPT !.version = version, !.attrs = attrs] \in Objects
           /\ [o EXCEPT !.version = version, !.attrs = attrs].version = version
  BY DEF Objects

\* The message that is read, and what is left on the wire.
LEMMA ReadMessage ==
    ASSUME SyncTypes, NEW n \in Servers, NEW type, Incoming(n, type)
    PROVE  /\ Next1(n) \in Contents(wire[Other(n)]) /\ Next1(n).version \in Nat
           /\ Next1(n).type = "update" => Next1(n) \in UpdateMessages
           /\ wire' \in [Servers -> Seq(Messages)]
           /\ Contents(wire[Other(n)]) = {Next1(n)} \cup Contents(wire'[Other(n)])
           /\ wire'[n] = wire[n]
<1>1. Other(n) \in Servers /\ Other(n) # n /\ wire[Other(n)] \in Seq(Messages)
  BY TwoNodes DEF SyncTypes
<1>2. /\ Next1(n) \in Messages /\ Tail(wire[Other(n)]) \in Seq(Messages)
      /\ Contents(wire[Other(n)]) = {Next1(n)} \cup Contents(Tail(wire[Other(n)]))
  BY <1>1, QueueContents DEF Next1, Incoming
<1>3. wire' = [wire EXCEPT ![Other(n)] = Tail(@)]
  BY DEF Incoming
<1>4. wire' \in [Servers -> Seq(Messages)] /\ wire'[Other(n)] = Tail(wire[Other(n)])
  BY <1>1, <1>2, <1>3 DEF SyncTypes
<1>5. Next1(n).version \in Nat /\ (Next1(n).type = "update" => Next1(n) \in UpdateMessages)
  BY <1>2 DEF Messages, UpdateMessages, DeleteMessages
<1> QED
  BY <1>1, <1>2, <1>3, <1>4, <1>5 DEF SyncTypes

\* Once the object is gone no request has found it.
LEMMA OutdatedRequests ==
    ASSUME FoundExists, NEW n \in Servers, NEW rs \in SUBSET requests, NEW r \in Outdated(n, rs)
    PROVE  /\ r \in [node : Servers, op : {"create", "modify", "delete"}, arg : Nat]
           /\ r.op # "create" /\ r.arg = 1 => r.node # n /\ Exists(r.node)
           /\ r.op = "create" => r \in requests
<1>1. PICK q \in rs : r = IF q.node = n /\ q.op # "create" THEN [q EXCEPT !.arg = 0] ELSE q
  BY DEF Outdated
<1>2. q \in requests /\ q \in [node : Servers, op : {"create", "modify", "delete"}, arg : Nat]
  BY DEF FoundExists
<1>3. CASE q.node = n /\ q.op # "create"
  BY <1>1, <1>2, <1>3
<1>4. CASE ~(q.node = n /\ q.op # "create")
  BY <1>1, <1>2, <1>4 DEF FoundExists
<1> QED
  BY <1>3, <1>4
----------------------------------------------------------------------------
\* Every step keeps the types, the times, what requests have found, and that what is
\* deleted stays deleted.
LEMMA SyncBasicsStep == SyncBasics /\ [ConfigNext]_configVars => SyncBasics'
<1> SUFFICES ASSUME SyncBasics, [ConfigNext]_configVars PROVE SyncBasics'
  OBVIOUS
<1>0. /\ \A n \in Servers : object[n].version \in Nat
      /\ \A n \in Servers : Exists(n) => object[n] \in Objects /\ object[n].version > 0
      /\ NoObject.version = 0
      /\ \A o \in Objects : o # NoObject /\ o.version \in Nat \ {0}
  BY DEF SyncBasics, SyncTypes, Objects, NoObject, Exists
<1>a. SyncTypes /\ TimesOK /\ MessagesOK /\ FoundExists /\ SnapshotOK /\ DeletedStaysDeleted
  BY DEF SyncBasics
<1>b. \A n \in Servers : Other(n) \in Servers /\ Other(n) # n /\ \A m \in Servers : m = n \/ m = Other(n)
  BY TwoNodes
<1>c. /\ Contents(<<>>) = {} /\ \A x : Contents(<<x>>) = {x}
  BY QueueContents, EmptySeq
<1>d. /\ clock \in Nat
      /\ \A n \in Servers : \A msg \in Contents(hand[n]) \cup Contents(wire[n])
            \cup Contents(log[n]) : msg.version \in Nat /\ msg.version <= clock
      /\ \A n \in Servers : \A msg \in Contents(snapshot[n]) : msg.version \in Nat /\ msg.version <= clock
  <2>1. \A n \in Servers : /\ Contents(hand[n]) \subseteq UpdateMessages
                           /\ Contents(wire[n]) \subseteq Messages
                           /\ Contents(log[n]) \subseteq DeleteMessages
                           /\ Contents(snapshot[n]) \subseteq UpdateMessages
    BY <1>a, QueueContents DEF SyncTypes
  <2>2. \A msg \in Messages \cup UpdateMessages \cup DeleteMessages : msg.version \in Nat
    BY DEF Messages, UpdateMessages, DeleteMessages
  <2> QED
    BY <1>a, <2>1, <2>2 DEF MessagesOK, SnapshotOK, SyncTypes
<1>e. \A r \in requests : /\ r \in [node : Servers, op : {"create", "modify", "delete"}, arg : Nat]
                          /\ r.arg \in Nat /\ (r.op = "create" => r.arg <= clock)
                          /\ r.op # "create" /\ r.arg = 1 => Exists(r.node)
  BY <1>a DEF FoundExists, TimesOK
<1>f. \A n \in Servers : /\ deletion[n] \in Nat /\ buried[n] \in Nat
                         /\ object[n].version <= clock
                         /\ deletion[n] <= buried[n] /\ buried[n] <= clock
  BY <1>a DEF SyncTypes, TimesOK
<1>g. ASSUME clock' \in {clock, clock + 1},
             \A n \in Servers : \A msg \in Contents(hand'[n]) \cup Contents(wire'[n]) \cup Contents(log'[n]) :
                 \/ msg.version \in Nat /\ msg.version <= clock'
                 \/ \E m \in Servers : msg \in Contents(hand[m]) \cup Contents(wire[m])
                                                 \cup Contents(log[m]) \cup Contents(snapshot[m])
      PROVE  MessagesOK'
  <2>1. \A v \in Nat : v <= clock => v <= clock'
    BY <1>d, <1>g
  <2>2. \A n \in Servers : \A msg \in Contents(hand'[n]) \cup Contents(wire'[n]) \cup Contents(log'[n]) :
            msg.version <= clock'
    BY <1>d, <1>g, <2>1
  <2> QED
    BY <2>2 DEF MessagesOK
<1>1. ASSUME NEW n \in Servers, CreateObjectConfig(n) PROVE SyncBasics'
  <2>1. /\ clock' = clock + 1
        /\ requests' = requests \cup {[node |-> n, op |-> "create", arg |-> clock']}
        /\ UNCHANGED <<object, deletion, hand, linked, wire, sync, snapshot, log, buried,
                       missed, raced>>
    BY <1>1 DEF CreateObjectConfig
  <2>2. SyncTypes' /\ DeletedStaysDeleted'
    BY <1>a, <2>1 DEF SyncTypes, DeletedStaysDeleted, Exists
  <2>3. TimesOK'
    BY <1>0, <1>d, <1>e, <1>f, <2>1 DEF TimesOK
  <2>6. FoundExists'
    BY <1>d, <1>e, <2>1 DEF FoundExists, Exists
  <2>4. MessagesOK'
    BY <1>d, <2>1 DEF MessagesOK
  <2>5. SnapshotOK'
    BY <1>a, <1>d, <2>1 DEF SnapshotOK
  <2> QED
    BY <2>2, <2>3, <2>4, <2>5, <2>6 DEF SyncBasics
<1>2. ASSUME NEW n \in Servers, NEW op \in {"modify", "delete"}, FindObject(n, op)
      PROVE  SyncBasics'
  <2>1. /\ requests' = requests \cup {[node |-> n, op |-> op, arg |-> 1]} /\ Exists(n)
        /\ UNCHANGED <<clock, object, deletion, hand, linked, wire, sync, snapshot, log, buried,
                       missed, raced>>
    BY <1>2 DEF FindObject
  <2>2. SyncTypes' /\ DeletedStaysDeleted' /\ MessagesOK' /\ SnapshotOK'
    BY <1>a, <2>1 DEF SyncTypes, DeletedStaysDeleted, Exists, MessagesOK, SnapshotOK
  <2>3. TimesOK'
    BY <1>e, <1>f, <2>1 DEF TimesOK
  <2>4. FoundExists'
    BY <1>e, <2>1 DEF FoundExists, Exists
  <2> QED
    BY <2>2, <2>3, <2>4 DEF SyncBasics
<1>3. ASSUME NEW n \in Servers, NEW version \in 1..MaxTime, CreateObject(n, version)
      PROVE  SyncBasics'
  <2> DEFINE new == [version |-> version, config |-> version, attrs |-> 0]
             r == [node |-> n, op |-> "create", arg |-> version]
  <2>1. /\ version \in Nat \ {0} /\ r \in requests /\ requests' \subseteq requests
        /\ UNCHANGED <<clock, deletion, hand, linked, sync, snapshot, buried>>
    BY <1>3, ConfigAssumption DEF CreateObject
  <2>2. version <= clock
    BY <1>e, <2>1
  <2>3. CASE Exists(n)
    <3>1. UNCHANGED <<object, wire, log, missed, raced>>
      BY <1>3, <2>3 DEF CreateObject
    <3>2. SyncTypes' /\ DeletedStaysDeleted' /\ MessagesOK' /\ SnapshotOK'
      BY <1>a, <2>1, <3>1 DEF SyncTypes, DeletedStaysDeleted, Exists, MessagesOK, SnapshotOK
    <3>3. TimesOK' /\ FoundExists'
      BY <1>e, <1>f, <2>1, <3>1 DEF TimesOK, FoundExists, Exists
    <3> QED
      BY <3>2, <3>3 DEF SyncBasics
  <2>4. CASE ~Exists(n)
    <3>1. /\ new \in Objects /\ new.version = version
          /\ UpdateMessage(new) \in Messages /\ UpdateMessage(new).version = version
      BY <2>1 DEF Objects, UpdateMessage, Messages, UpdateMessages
    <3>2. /\ object' = [object EXCEPT ![n] = new]
          /\ RelayConfig(n, UpdateMessage(new))
          /\ raced' = IF deletion[n] >= version THEN raced \cup {n} ELSE raced
      BY <1>3, <2>4 DEF CreateObject
    <3> HIDE DEF new
    <3>3. /\ wire' \in [Servers -> Seq(Messages)] /\ log' \in [Servers -> Seq(DeleteMessages)]
          /\ missed' \subseteq Servers
          /\ \A m \in Servers : /\ Contents(wire'[m]) \subseteq Contents(wire[m]) \cup {UpdateMessage(new)}
                                /\ Contents(log'[m]) \subseteq Contents(log[m]) \cup {UpdateMessage(new)}
      BY <1>a, <3>1, <3>2, RelayTypes
    <3>4. SyncTypes' /\ SnapshotOK'
      BY <1>a, <2>1, <3>1, <3>2, <3>3 DEF SyncTypes, SnapshotOK
    <3>5. MessagesOK'
      BY <1>d, <1>g, <2>1, <2>2, <3>1, <3>3
    <3>6. TimesOK' /\ FoundExists'
      BY <1>0, <1>a, <1>e, <1>f, <2>1, <2>2, <3>1, <3>2 DEF TimesOK, FoundExists, Exists, SyncTypes
    <3>7. DeletedStaysDeleted'
      BY <1>0, <1>a, <1>f, <2>1, <3>1, <3>2 DEF DeletedStaysDeleted, Exists, SyncTypes
    <3> QED
      BY <3>4, <3>5, <3>6, <3>7 DEF SyncBasics
  <2> QED
    BY <2>3, <2>4
<1>4. ASSUME NEW n \in Servers, NEW live \in {0, 1}, NEW restore \in BOOLEAN,
             ModifyObject(n, live, restore)
      PROVE  SyncBasics'
  <2>1. /\ [node |-> n, op |-> "modify", arg |-> live] \in requests /\ requests' \subseteq requests
        /\ UNCHANGED <<deletion, hand, linked, sync, snapshot, buried, raced>>
    BY <1>4 DEF ModifyObject
  <2>2. CASE live = 0 \/ (restore /\ object[n].attrs = 0)
    <3>1. UNCHANGED <<clock, object, wire, log, missed>>
      BY <1>4, <2>2 DEF ModifyObject
    <3>2. SyncTypes' /\ DeletedStaysDeleted' /\ MessagesOK' /\ SnapshotOK'
      BY <1>a, <2>1, <3>1 DEF SyncTypes, DeletedStaysDeleted, Exists, MessagesOK, SnapshotOK
    <3>3. TimesOK' /\ FoundExists'
      BY <1>e, <1>f, <2>1, <3>1 DEF TimesOK, FoundExists, Exists
    <3> QED
      BY <3>2, <3>3 DEF SyncBasics
  <2>3. CASE ~(live = 0 \/ (restore /\ object[n].attrs = 0))
    <3>0. PICK attrs \in Nat : attrs = IF restore THEN 0 ELSE clock + 1
      BY <1>d
    <3> DEFINE new == [object[n] EXCEPT !.version = clock + 1, !.attrs = attrs]
    <3>1. Exists(n) /\ object[n] \in Objects
      BY <1>0, <1>e, <2>1, <2>3
    <3>2. /\ object' = [object EXCEPT ![n] = new] /\ clock' = clock + 1
          /\ RelayConfig(n, UpdateMessage(object'[n]))
      BY <1>4, <2>3, <3>0 DEF ModifyObject
    <3>3. new \in Objects /\ new.version = clock + 1
      <4>1. PICK version \in Nat \ {0} : version = clock + 1
        BY <1>d
      <4>2. /\ [object[n] EXCEPT !.version = version, !.attrs = attrs] \in Objects
            /\ [object[n] EXCEPT !.version = version, !.attrs = attrs].version = version
        <5>1. PICK o \in Objects : o = object[n]
          BY <3>1
        <5>2. /\ [o EXCEPT !.version = version, !.attrs = attrs] \in Objects
              /\ [o EXCEPT !.version = version, !.attrs = attrs].version = version
          BY ChangedObject
        <5> QED
          BY <5>1, <5>2
      <4>3. new = [object[n] EXCEPT !.version = version, !.attrs = attrs]
        BY <4>1
      <4> HIDE DEF new
      <4> QED
        BY <4>1, <4>2, <4>3
    <3> HIDE DEF new
    <3>4. /\ UpdateMessage(new) \in Messages /\ UpdateMessage(new).version = clock + 1
          /\ RelayConfig(n, UpdateMessage(new))
      BY <1>a, <3>2, <3>3 DEF Objects, UpdateMessage, Messages, UpdateMessages, SyncTypes
    <3>5. /\ wire' \in [Servers -> Seq(Messages)] /\ log' \in [Servers -> Seq(DeleteMessages)]
          /\ missed' \subseteq Servers
          /\ \A m \in Servers : /\ Contents(wire'[m]) \subseteq Contents(wire[m]) \cup {UpdateMessage(new)}
                                /\ Contents(log'[m]) \subseteq Contents(log[m]) \cup {UpdateMessage(new)}
      BY <1>a, <3>4, RelayTypes
    <3>6. SyncTypes'
      <4>1. object' \in [Servers -> Objects \cup {NoObject}] /\ clock' \in Nat
        BY <1>a, <3>2, <3>3 DEF SyncTypes
      <4> QED
        BY <1>a, <2>1, <3>5, <4>1 DEF SyncTypes
    <3>7. SnapshotOK'
      BY <1>a, <1>d, <2>1, <3>2 DEF SnapshotOK
    <3>8. MessagesOK'
      BY <1>d, <1>g, <2>1, <3>2, <3>4, <3>5
    <3>9. TimesOK'
      <4>1. \A m \in Servers : object'[m].version <= clock'
        BY <1>0, <1>a, <1>d, <1>f, <3>2, <3>3 DEF SyncTypes
      <4> QED
        BY <1>d, <1>e, <1>f, <2>1, <3>2, <4>1 DEF TimesOK
    <3>10. FoundExists' /\ DeletedStaysDeleted'
      BY <1>0, <1>a, <1>d, <1>e, <1>f, <2>1, <3>2, <3>3
         DEF FoundExists, DeletedStaysDeleted, Exists, SyncTypes
    <3> QED
      BY <3>6, <3>7, <3>8, <3>9, <3>10 DEF SyncBasics
  <2> QED
    BY <2>2, <2>3
<1>5. ASSUME NEW n \in Servers, NEW live \in {0, 1}, DeleteObject(n, live) PROVE SyncBasics'
  <2>1. /\ object' = [object EXCEPT ![n] = NoObject]
        /\ UNCHANGED <<hand, linked, sync, snapshot>>
        /\ requests' = Outdated(n, requests \ {[node |-> n, op |-> "delete", arg |-> live]})
    BY <1>5 DEF DeleteObject
  <2>2. \A r \in requests' :
            /\ r \in [node : Servers, op : {"create", "modify", "delete"}, arg : Nat]
            /\ r.op # "create" /\ r.arg = 1 => r.node # n /\ Exists(r.node)
            /\ r.op = "create" => r \in requests
    BY <1>a, <2>1, OutdatedRequests
  <2>3. FoundExists'
    BY <1>a, <2>1, <2>2 DEF FoundExists, Exists, SyncTypes
  <2>4. CASE live = 0
    <3>1. /\ UNCHANGED <<clock, deletion, buried, wire, log, missed>>
          /\ raced' = IF Exists(n) THEN raced \cup {n} ELSE raced
      BY <1>5, <2>4 DEF DeleteObject
    <3>2. SyncTypes' /\ MessagesOK' /\ SnapshotOK'
      BY <1>a, <2>1, <3>1 DEF SyncTypes, MessagesOK, SnapshotOK
    <3>3. TimesOK'
      <4>1. \A m \in Servers : object'[m].version <= clock
        BY <1>0, <1>a, <1>d, <1>f, <2>1 DEF SyncTypes
      <4> QED
        BY <1>e, <1>f, <2>2, <3>1, <4>1 DEF TimesOK
    <3>4. DeletedStaysDeleted'
      BY <1>a, <2>1, <3>1 DEF SyncTypes, DeletedStaysDeleted, Exists
    <3> QED
      BY <2>3, <3>2, <3>3, <3>4 DEF SyncBasics
  <2>5. CASE live # 0
    <3>1. /\ clock' = clock + 1 /\ UNCHANGED raced
          /\ RelayConfig(n, DeleteMessage(clock')) /\ SetDeletion(n, clock')
      BY <1>5, <2>5 DEF DeleteObject
    <3>2. /\ deletion' = [deletion EXCEPT ![n] = clock + 1]
          /\ buried' = [buried EXCEPT ![n] = clock + 1]
      <4>1. ~(deletion[n] > clock') /\ ~(buried[n] > clock')
        BY <1>d, <1>f, <3>1
      <4> QED
        BY <3>1, <4>1 DEF SetDeletion
    <3>3. PICK msg : msg = DeleteMessage(clock')
      OBVIOUS
    <3>4. msg \in Messages /\ msg.version = clock + 1
      BY <1>d, <3>1, <3>3 DEF DeleteMessage, Messages, DeleteMessages
    <3>5. /\ wire' \in [Servers -> Seq(Messages)] /\ log' \in [Servers -> Seq(DeleteMessages)]
          /\ missed' \subseteq Servers
          /\ \A m \in Servers : /\ Contents(wire'[m]) \subseteq Contents(wire[m]) \cup {msg}
                                /\ Contents(log'[m]) \subseteq Contents(log[m]) \cup {msg}
      BY <1>a, <3>1, <3>3, <3>4, RelayTypes
    <3>6. SyncTypes'
      <4>1. clock' \in Nat /\ clock + 1 \in Nat
        BY <1>d, <3>1
      <4>2. object' \in [Servers -> Objects \cup {NoObject}]
        BY <1>a, <2>1 DEF SyncTypes
      <4>3. deletion' \in [Servers -> Nat] /\ buried' \in [Servers -> Nat]
        BY <1>a, <3>2, <4>1 DEF SyncTypes
      <4> QED
        BY <1>a, <2>1, <3>1, <3>5, <4>1, <4>2, <4>3 DEF SyncTypes
    <3>7. MessagesOK'
      BY <1>d, <1>g, <2>1, <3>1, <3>4, <3>5
    <3>8. SnapshotOK'
      BY <1>a, <1>d, <2>1, <3>1 DEF SnapshotOK
    <3>9. TimesOK'
      <4>1. \A m \in Servers : /\ object'[m].version <= clock'
                               /\ deletion'[m] <= buried'[m] /\ buried'[m] <= clock'
        BY <1>0, <1>a, <1>d, <1>f, <2>1, <3>1, <3>2 DEF SyncTypes
      <4> QED
        BY <1>d, <1>e, <2>2, <3>1, <4>1 DEF TimesOK
    <3>10. DeletedStaysDeleted'
      BY <1>a, <2>1, <3>1, <3>2 DEF DeletedStaysDeleted, Exists, SyncTypes
    <3> QED
      BY <2>3, <3>6, <3>7, <3>8, <3>9, <3>10 DEF SyncBasics
  <2> QED
    BY <2>4, <2>5
<1>6. ASSUME NEW n \in Servers, ReceiveUpdate(n) PROVE SyncBasics'
  <2>1. /\ Incoming(n, "update") /\ Next1(n).type = "update"
        /\ hand' = hand \/ hand' = [hand EXCEPT ![n] = <<Next1(n)>>]
        /\ UNCHANGED <<clock, object, deletion, requests, linked, sync, snapshot, log, buried,
                       missed, raced>>
    BY <1>6 DEF ReceiveUpdate, Incoming
  <2>2. /\ Next1(n) \in Contents(wire[Other(n)]) /\ Next1(n) \in UpdateMessages
        /\ wire' \in [Servers -> Seq(Messages)]
        /\ \A m \in Servers : Contents(wire'[m]) \subseteq Contents(wire[m])
    BY <1>a, <1>b, <2>1, ReadMessage
  <2>3. /\ hand' \in [Servers -> Seq(UpdateMessages)]
        /\ \A m \in Servers : Contents(hand'[m]) \subseteq Contents(hand[m]) \cup {Next1(n)}
    <3>1. PICK msg \in UpdateMessages : msg = Next1(n)
      BY <2>2
    <3>2. <<msg>> \in Seq(UpdateMessages) /\ Contents(<<msg>>) = {msg}
      BY <1>c
    <3>3. hand' = hand \/ hand' = [hand EXCEPT ![n] = <<msg>>]
      BY <2>1, <3>1
    <3> QED
      BY <1>a, <3>1, <3>2, <3>3 DEF SyncTypes
  <2>4. SyncTypes' /\ TimesOK' /\ FoundExists' /\ SnapshotOK' /\ DeletedStaysDeleted'
    BY <1>a, <2>1, <2>2, <2>3
       DEF SyncTypes, TimesOK, FoundExists, SnapshotOK, DeletedStaysDeleted, Exists
  <2>5. MessagesOK'
    BY <1>b, <1>g, <2>1, <2>2, <2>3
  <2> QED
    BY <2>4, <2>5 DEF SyncBasics
<1>7. ASSUME NEW n \in Servers, UpdateObject(n) PROVE SyncBasics'
  <2> DEFINE msg == Head(hand[n])
             new == Updated(n, msg)
  <2>1. /\ object' = [object EXCEPT ![n] = new] /\ hand' = [hand EXCEPT ![n] = <<>>]
        /\ raced' = IF deletion[n] >= msg.version THEN raced \cup {n} ELSE raced
        /\ UNCHANGED <<clock, deletion, requests, linked, wire, sync, snapshot, log, buried, missed>>
        /\ hand[n] # <<>>
    BY <1>7 DEF UpdateObject, UpdateIsDeleted
  <2>2. msg \in UpdateMessages /\ msg \in Contents(hand[n])
    BY <1>a, <2>1, QueueContents DEF SyncTypes
  <2>3. msg.version \in Nat \ {0} /\ msg.version <= clock
    BY <1>d, <2>2 DEF UpdateMessages
  <2>4. /\ new \in Objects
        /\ new.version = msg.version \/ (Exists(n) /\ new = object[n])
    BY <1>a, <2>2, UpdatedTypes
  <2> HIDE DEF msg, new
  <2>5. SyncTypes' /\ SnapshotOK'
    BY <1>a, <2>1, <2>4 DEF SyncTypes, SnapshotOK
  <2>6. MessagesOK'
    <3>1. \A m \in Servers : Contents(hand'[m]) \subseteq Contents(hand[m])
      BY <1>a, <1>c, <2>1 DEF SyncTypes
    <3> QED
      BY <1>g, <2>1, <3>1
  <2>7. TimesOK' /\ FoundExists' /\ DeletedStaysDeleted'
    BY <1>0, <1>a, <1>e, <1>f, <2>1, <2>3, <2>4
       DEF TimesOK, FoundExists, DeletedStaysDeleted, Exists, SyncTypes
  <2> QED
    BY <2>5, <2>6, <2>7 DEF SyncBasics
<1>8. ASSUME NEW n \in Servers, ReceiveDelete(n) PROVE SyncBasics'
  <2>1. /\ Incoming(n, "delete")
        /\ log' = log \/ log' = [log EXCEPT ![Other(n)] = Unconfirmed(@, Next1(n))]
        /\ UNCHANGED <<clock, hand, linked, sync, snapshot, missed, raced>>
    BY <1>8 DEF ReceiveDelete
  <2>2. /\ Next1(n) \in Contents(wire[Other(n)]) /\ wire' \in [Servers -> Seq(Messages)]
        /\ \A m \in Servers : Contents(wire'[m]) \subseteq Contents(wire[m])
    BY <1>a, <1>b, <2>1, ReadMessage
  <2>3. /\ log' \in [Servers -> Seq(DeleteMessages)]
        /\ \A m \in Servers : Contents(log'[m]) \subseteq Contents(log[m])
    <3>1. log[Other(n)] \in Seq(DeleteMessages) /\ Other(n) \in Servers
      BY <1>a, <1>b DEF SyncTypes
    <3>2. PICK rest : rest = Unconfirmed(log[Other(n)], Next1(n))
      OBVIOUS
    <3>3. rest \in Seq(DeleteMessages) /\ Contents(rest) \subseteq Contents(log[Other(n)])
      BY <3>1, <3>2, LogTypes
    <3>4. log' = log \/ log' = [log EXCEPT ![Other(n)] = rest]
      BY <2>1, <3>2
    <3> QED
      BY <1>a, <3>1, <3>3, <3>4 DEF SyncTypes
  <2>4. MessagesOK' /\ SnapshotOK'
    BY <1>a, <1>g, <2>1, <2>2, <2>3 DEF SnapshotOK
  <2>5. Next1(n).version \in Nat /\ Next1(n).version <= clock
    BY <1>b, <1>d, <2>2
  <2>6. CASE UNCHANGED <<object, deletion, buried, requests>>
    <3>1. SyncTypes' /\ TimesOK' /\ FoundExists' /\ DeletedStaysDeleted'
      BY <1>a, <2>1, <2>2, <2>3, <2>6
         DEF SyncTypes, TimesOK, FoundExists, DeletedStaysDeleted, Exists
    <3> QED
      BY <2>4, <3>1 DEF SyncBasics
  <2>7. CASE /\ SetDeletion(n, Next1(n).version) /\ object' = [object EXCEPT ![n] = NoObject]
             /\ requests' = IF Exists(n) THEN Outdated(n, requests) ELSE requests
    <3>1. \A r \in requests' :
              /\ r \in [node : Servers, op : {"create", "modify", "delete"}, arg : Nat]
              /\ r.op # "create" /\ r.arg = 1 => r.node # n /\ Exists(r.node)
              /\ r.op = "create" => r \in requests
      BY <1>a, <1>e, <2>7, OutdatedRequests
    <3>2. FoundExists'
      BY <1>a, <2>7, <3>1 DEF FoundExists, Exists, SyncTypes
    <3>3. \A m \in Servers : /\ deletion'[m] \in Nat /\ buried'[m] \in Nat
                             /\ deletion'[m] <= buried'[m] /\ buried'[m] <= clock
                             /\ m # n => deletion'[m] = deletion[m]
      BY <1>a, <1>d, <1>f, <2>5, <2>7 DEF SetDeletion, SyncTypes
    <3>4. SyncTypes'
      BY <1>a, <2>1, <2>2, <2>3, <2>7, <3>3 DEF SyncTypes, SetDeletion
    <3>5. TimesOK' /\ DeletedStaysDeleted'
      BY <1>0, <1>a, <1>d, <1>e, <1>f, <2>1, <2>7, <3>1, <3>3
         DEF TimesOK, DeletedStaysDeleted, Exists, SyncTypes
    <3> QED
      BY <2>4, <3>2, <3>4, <3>5 DEF SyncBasics
  <2> QED
    BY <1>8, <2>6, <2>7 DEF ReceiveDelete
<1>9. ASSUME NEW n \in Servers, PruneDeletedRuntimeObjects(n) PROVE SyncBasics'
  <2>1. /\ deletion' = [deletion EXCEPT ![n] = 0]
        /\ UNCHANGED <<clock, object, requests, hand, linked, wire, sync, snapshot, log, buried,
                       missed, raced>>
    BY <1>9 DEF PruneDeletedRuntimeObjects
  <2>2. SyncTypes' /\ MessagesOK' /\ FoundExists' /\ SnapshotOK'
    BY <1>a, <2>1 DEF SyncTypes, MessagesOK, FoundExists, SnapshotOK, Exists
  <2>3. TimesOK' /\ DeletedStaysDeleted'
    BY <1>0, <1>a, <1>e, <1>f, <2>1 DEF TimesOK, DeletedStaysDeleted, Exists, SyncTypes
  <2> QED
    BY <2>2, <2>3 DEF SyncBasics
<1>10. ASSUME NEW n \in Servers, SendRuntimeConfigObjects(n) PROVE SyncBasics'
  <2>1. /\ sync' = [sync EXCEPT ![n] = "sending"] /\ missed' \subseteq missed /\ sync[n] = "start"
        /\ snapshot' = [snapshot EXCEPT ![n] =
                           IF Exists(n) THEN <<UpdateMessage(object[n])>> ELSE <<>>]
        /\ UNCHANGED <<clock, object, deletion, requests, hand, linked, wire, log, buried, raced>>
    BY <1>10 DEF SendRuntimeConfigObjects
  <2>2. PICK new : new = IF Exists(n) THEN <<UpdateMessage(object[n])>> ELSE <<>>
    OBVIOUS
  <2>3. new \in Seq(UpdateMessages) /\ \A msg \in Contents(new) : msg.version <= clock
    <3>1. CASE Exists(n)
      <4>1. UpdateMessage(object[n]) \in UpdateMessages /\ UpdateMessage(object[n]).version <= clock
        BY <1>0, <1>f, <3>1 DEF UpdateMessage, UpdateMessages, Objects
      <4> QED
        BY <1>c, <2>2, <3>1, <4>1
    <3> QED
      BY <1>c, <2>2, <3>1
  <2>4. SyncTypes'
    BY <1>a, <2>1, <2>2, <2>3 DEF SyncTypes
  <2>5. SnapshotOK'
    BY <1>a, <1>d, <2>1, <2>2, <2>3 DEF SnapshotOK, SyncTypes
  <2>6. TimesOK' /\ MessagesOK' /\ FoundExists' /\ DeletedStaysDeleted'
    BY <1>a, <2>1 DEF TimesOK, MessagesOK, FoundExists, DeletedStaysDeleted, Exists
  <2> QED
    BY <2>4, <2>5, <2>6 DEF SyncBasics
<1>11. ASSUME NEW n \in Servers, FinishSync(n) PROVE SyncBasics'
  <2>1. /\ sync' = [sync EXCEPT ![n] = "idle"]
        /\ wire' = [wire EXCEPT ![n] = (@ \o snapshot[n]) \o log[n]]
        /\ snapshot' = [snapshot EXCEPT ![n] = <<>>]
        /\ UNCHANGED <<clock, object, deletion, requests, hand, linked, log, buried, missed, raced>>
    BY <1>11 DEF FinishSync
  <2>2. snapshot[n] \in Seq(Messages) /\ log[n] \in Seq(Messages) /\ wire[n] \in Seq(Messages)
    BY <1>a, SeqMonotonic DEF Messages, SyncTypes
  <2>3. /\ (wire[n] \o snapshot[n]) \o log[n] \in Seq(Messages)
        /\ Contents((wire[n] \o snapshot[n]) \o log[n])
              = Contents(wire[n]) \cup Contents(snapshot[n]) \cup Contents(log[n])
    <3>1. PICK both : both = wire[n] \o snapshot[n]
      OBVIOUS
    <3>2. both \in Seq(Messages) /\ Contents(both) = Contents(wire[n]) \cup Contents(snapshot[n])
      BY <2>2, <3>1, QueueContents
    <3>3. both \o log[n] \in Seq(Messages) /\ Contents(both \o log[n]) = Contents(both) \cup Contents(log[n])
      BY <2>2, <3>2, QueueContents
    <3> QED
      BY <3>1, <3>2, <3>3
  <2>4. SyncTypes'
    BY <1>a, <2>1, <2>3 DEF SyncTypes
  <2>5. MessagesOK'
    <3>1. \A m \in Servers : Contents(wire'[m])
              \subseteq Contents(wire[m]) \cup Contents(snapshot[m]) \cup Contents(log[m])
      BY <1>a, <2>1, <2>3 DEF SyncTypes
    <3> QED
      BY <1>g, <2>1, <3>1
  <2>6. SnapshotOK'
    BY <1>a, <1>c, <2>1 DEF SnapshotOK, SyncTypes
  <2>7. TimesOK' /\ FoundExists' /\ DeletedStaysDeleted'
    BY <1>a, <2>1 DEF TimesOK, FoundExists, DeletedStaysDeleted, Exists
  <2> QED
    BY <2>4, <2>5, <2>6, <2>7 DEF SyncBasics
<1>12. CASE Connect
  BY <1>a, <1>12 DEF SyncBasics, Connect, SyncTypes, TimesOK, MessagesOK, FoundExists, SnapshotOK,
                     DeletedStaysDeleted, Exists
<1>13. CASE Disconnect
  <2>1. /\ linked' = FALSE /\ wire' = [n \in Servers |-> <<>>]
        /\ sync' = [n \in Servers |-> "idle"] /\ snapshot' = [n \in Servers |-> <<>>]
        /\ UNCHANGED <<clock, object, deletion, requests, hand, log, buried, missed, raced>>
    BY <1>13 DEF Disconnect
  <2>2. SyncTypes' /\ SnapshotOK'
    BY <1>a, <1>c, <2>1, EmptySeq DEF SyncTypes, SnapshotOK
  <2>3. MessagesOK'
    BY <1>c, <1>g, <2>1
  <2>4. TimesOK' /\ FoundExists' /\ DeletedStaysDeleted'
    BY <1>a, <2>1 DEF TimesOK, FoundExists, DeletedStaysDeleted, Exists
  <2> QED
    BY <2>2, <2>3, <2>4 DEF SyncBasics
<1>14. CASE UNCHANGED configVars
  BY <1>a, <1>14 DEF SyncBasics, configVars, SyncTypes, TimesOK, MessagesOK, FoundExists, SnapshotOK,
                     DeletedStaysDeleted, Exists
<1> QED
  BY <1>1, <1>2, <1>3, <1>4, <1>5, <1>6, <1>7, <1>8, <1>9, <1>10, <1>11, <1>12, <1>13, <1>14
     DEF ConfigNext

\* ConfigObjectUtility and the handlers of the cluster keep a deleted object deleted: one
\* that is not younger than the last deletion is there only if a request or an update
\* made up its mind before the deletion got the lock.
THEOREM NothingComesBack == ConfigSpec => []DeletedStaysDeleted
<1>1. ConfigInit => SyncBasics
  <2>1. Contents(<<>>) = {} /\ \A S : <<>> \in Seq(S)
    BY QueueContents, EmptySeq
  <2> QED
    BY <2>1 DEF ConfigInit, SyncBasics, SyncTypes, TimesOK, MessagesOK, FoundExists, SnapshotOK,
                DeletedStaysDeleted, Exists, NoObject
<1>2. SyncBasics => DeletedStaysDeleted
  BY DEF SyncBasics
<1> QED
  BY <1>1, <1>2, SyncBasicsStep, PTL DEF ConfigSpec
----------------------------------------------------------------------------
\* A step does not make n forget a version it has or has deleted.
Keeps(n) ==
    /\ buried'[n] >= buried[n]
    /\ Exists(n) => \/ Exists(n)' /\ object'[n].version >= object[n].version
                    \/ buried'[n] >= object[n].version

\* Every object has a version.
LEMMA Versions ==
    /\ SyncTypes => \A n \in Servers : object[n].version \in Nat /\ buried[n] \in Nat
    /\ SyncTypes' => \A n \in Servers : object'[n].version \in Nat /\ buried'[n] \in Nat
<1>1. \A o \in Objects \cup {NoObject} : o.version \in Nat
  BY DEF Objects, NoObject
<1>2. SyncTypes => \A n \in Servers : object[n].version \in Nat /\ buried[n] \in Nat
  BY <1>1 DEF SyncTypes
<1>3. SyncTypes' => \A n \in Servers : object'[n].version \in Nat /\ buried'[n] \in Nat
  BY <1>1 DEF SyncTypes
<1> QED
  BY <1>2, <1>3

\* Covered() at the end of a step: what the step kept.
LEMMA KeptIsCovered ==
    ASSUME SyncTypes, SyncTypes', NEW n \in Servers, Keeps(n),
           NEW version \in Nat, Covered(n, version)
    PROVE  Covered(n, version)'
<1>1. /\ buried[n] \in Nat /\ buried'[n] \in Nat /\ object[n].version \in Nat
      /\ object'[n].version \in Nat
  BY Versions
<1> QED
  BY <1>1 DEF Keeps, Covered, Exists

\* The updates on their way have versions.
LEMMA SentTypes ==
    ASSUME SyncTypes, NEW n \in Servers
    PROVE  \A msg \in Sent(n) : msg.version \in Nat
<1>1. /\ Contents(snapshot[n]) \subseteq UpdateMessages /\ Contents(wire[n]) \subseteq Messages
      /\ Contents(hand[Other(n)]) \subseteq UpdateMessages
  BY TwoNodes, QueueContents DEF SyncTypes
<1> QED
  BY <1>1 DEF Sent, Messages, UpdateMessages, DeleteMessages

\* AnnouncedIsKnown is kept if only what a node has is announced.
LEMMA KnownKept ==
    ASSUME SyncTypes, SyncTypes', AnnouncedIsKnown, raced = {}, \A n \in Servers : Keeps(n),
           \A n \in Servers : \A msg \in Sent(n)' :
               msg \in Sent(n) \/ (Exists(n)' /\ msg.version <= object'[n].version)
    PROVE  AnnouncedIsKnown'
<1>1. ASSUME NEW n \in Servers, NEW msg \in Sent(n)' PROVE Covered(n, msg.version)'
  <2>1. CASE msg \in Sent(n)
    <3>1. msg.version \in Nat /\ Covered(n, msg.version)
      BY <2>1, SentTypes DEF AnnouncedIsKnown
    <3> QED
      BY <3>1, KeptIsCovered
  <2>2. CASE Exists(n)' /\ msg.version <= object'[n].version
    <3>1. msg.version \in Nat /\ object'[n].version \in Nat
      <4>1. /\ Contents(snapshot'[n]) \subseteq UpdateMessages /\ Contents(wire'[n]) \subseteq Messages
            /\ Contents(hand'[Other(n)]) \subseteq UpdateMessages
        BY TwoNodes, QueueContents DEF SyncTypes
      <4> QED
        BY <4>1, Versions DEF Sent, Messages, UpdateMessages, DeleteMessages
    <3> QED
      BY <2>2, <3>1 DEF Covered
  <2> QED
    BY <2>1, <2>2
<1> QED
  BY <1>1 DEF AnnouncedIsKnown

\* A node whose object stays as it is remains announced, if nothing is lost on the way.
LEMMA AnnouncedKept ==
    ASSUME SyncTypes, SyncTypes', NEW n \in Servers, Announced(n), Keeps(Other(n)),
           object'[n] = object[n],
           \A msg \in Sent(n) : msg \in Sent(n)' \/ Covered(Other(n), msg.version)',
           sync[n] = "start" => sync'[n] = "start",
           missed \subseteq missed',
           ~linked => ~linked' \/ sync'[n] = "start"
    PROVE  Announced(n)'
<1>0. Other(n) \in Servers /\ object[n].version \in Nat
  BY TwoNodes, Versions
<1>1. CASE Covered(Other(n), object[n].version)
  BY <1>0, <1>1, KeptIsCovered DEF Announced
<1>2. ASSUME NEW msg \in Sent(n), msg.version >= object[n].version PROVE Announced(n)'
  <2>1. CASE msg \in Sent(n)'
    BY <1>2, <2>1 DEF Announced
  <2>2. CASE Covered(Other(n), msg.version)'
    <3>1. /\ msg.version \in Nat /\ object'[Other(n)].version \in Nat /\ buried'[Other(n)] \in Nat
      BY <1>0, SentTypes, Versions
    <3>2. Covered(Other(n), object[n].version)'
      BY <1>0, <1>2, <2>2, <3>1 DEF Covered
    <3> QED
      BY <3>2 DEF Announced
  <2> QED
    BY <1>2, <2>1, <2>2
<1>3. CASE ~linked \/ sync[n] = "start" \/ n \in missed
  BY <1>3 DEF Announced
<1> QED
  BY <1>1, <1>2, <1>3 DEF Announced
----------------------------------------------------------------------------
\* What the nodes know of each other's objects, step by step: HandOK, AnnouncedIsKnown
\* and ExistsIsAnnounced are kept together.
LEMMA AgreeStep ==
    ASSUME SyncInv, SyncBasics', [ConfigNext]_configVars
    PROVE  HandOK' /\ AnnouncedIsKnown' /\ ExistsIsAnnounced'
<1> DEFINE Agree == HandOK' /\ AnnouncedIsKnown' /\ ExistsIsAnnounced'
<1>a. /\ SyncTypes /\ SyncTypes' /\ TimesOK /\ FoundExists /\ SnapshotOK
      /\ HandOK /\ AnnouncedIsKnown /\ ExistsIsAnnounced
  BY DEF SyncInv, SyncBasics
<1>b. \A n \in Servers : /\ Other(n) \in Servers /\ Other(n) # n /\ Other(Other(n)) = n
                         /\ \A m \in Servers : m = n \/ m = Other(n)
  BY TwoNodes
<1>c. /\ Contents(<<>>) = {} /\ \A x : Contents(<<x>>) = {x}
  BY QueueContents, EmptySeq
<1>d. \A n \in Servers : /\ object[n].version \in Nat /\ object'[n].version \in Nat
                         /\ buried[n] \in Nat /\ buried'[n] \in Nat
                         /\ object[n].version <= clock /\ buried[n] <= clock /\ clock \in Nat
                         /\ deletion[n] <= buried[n] /\ deletion[n] \in Nat
  BY <1>a, Versions DEF TimesOK, SyncTypes
<1>e. ASSUME NEW n \in Servers, object'[n] = object[n], buried'[n] = buried[n] PROVE Keeps(n)
  BY <1>d, <1>e DEF Keeps, Exists
<1>f. raced' = {} => raced = {}
  <2>1. raced \subseteq raced'
    BY DEF ConfigNext, configVars, CreateObjectConfig, FindObject, CreateObject, ModifyObject,
           DeleteObject, ReceiveUpdate, UpdateObject, ReceiveDelete, PruneDeletedRuntimeObjects,
           Connect, Disconnect, SendRuntimeConfigObjects, FinishSync
  <2> QED
    BY <2>1
<1>g. raced' # {} /\ HandOK' => Agree
  BY DEF AnnouncedIsKnown, ExistsIsAnnounced
\* Steps that announce nothing and change no object.
<1>1. ASSUME UNCHANGED <<object, buried, hand, linked, wire, sync, snapshot, missed>> PROVE Agree
  <2>1. \A n \in Servers : Sent(n)' = Sent(n)
    BY <1>1 DEF Sent
  <2>2. \A n \in Servers : Announced(n)' <=> Announced(n)
    BY <1>1, <2>1 DEF Announced, Covered, Exists
  <2>3. HandOK' /\ (raced' = {} => AnnouncedIsKnown')
    BY <1>1, <1>a, <1>f, <2>1 DEF HandOK, AnnouncedIsKnown, Covered, Exists
  <2>4. raced' = {} => ExistsIsAnnounced'
    BY <1>1, <1>a, <1>f, <2>2 DEF ExistsIsAnnounced, Exists
  <2> QED
    BY <1>g, <2>3, <2>4
\* A request or a deletion that replaces the object of n and relays it.
<1>2. ASSUME NEW n \in Servers, NEW new \in Objects, object' = [object EXCEPT ![n] = new],
             Exists(n) => new.version >= object[n].version,
             RelayConfig(n, UpdateMessage(new)), UNCHANGED <<buried, hand, linked, sync, snapshot>>
      PROVE  Agree
  <2>0. PICK msg : msg = UpdateMessage(new)
    OBVIOUS
  <2>1. /\ msg \in Messages /\ msg.type = "update" /\ msg.version = new.version
        /\ object'[n] = new /\ new # NoObject /\ object'[Other(n)] = object[Other(n)]
        /\ new.version \in Nat
    BY <1>2, <1>a, <1>b, <2>0
       DEF Objects, UpdateMessage, Messages, UpdateMessages, SyncTypes, NoObject
  <2>2. /\ Contents(wire[n]) \subseteq Contents(wire'[n])
        /\ Contents(wire'[n]) \subseteq Contents(wire[n]) \cup {msg}
        /\ wire'[Other(n)] = wire[Other(n)] /\ missed \subseteq missed'
        /\ linked => n \in missed' \/ msg \in Contents(wire'[n])
    BY <1>2, <1>a, <1>b, <2>0, <2>1, RelayTypes
  <2>3. /\ Sent(n) \subseteq Sent(n)' /\ Sent(n)' \subseteq Sent(n) \cup {msg}
        /\ Sent(Other(n))' = Sent(Other(n))
        /\ linked => n \in missed' \/ msg \in Sent(n)'
    BY <1>2, <1>b, <2>1, <2>2 DEF Sent
  <2>4. \A m \in Servers : Keeps(m)
    BY <1>2, <1>b, <1>d, <1>e, <2>1 DEF Keeps, Exists
  <2>5. HandOK'
    BY <1>2, <1>a DEF HandOK
  <2>6. ASSUME raced' = {} PROVE AnnouncedIsKnown'
    <3>1. \A m \in Servers : \A x \in Sent(m)' :
              x \in Sent(m) \/ (Exists(m)' /\ x.version <= object'[m].version)
      BY <1>b, <2>1, <2>3 DEF Exists
    <3> QED
      BY <1>a, <1>f, <2>4, <2>6, <3>1, KnownKept
  <2>7. ASSUME raced' = {} PROVE ExistsIsAnnounced'
    <3>1. Announced(n)'
      BY <1>2, <2>1, <2>3 DEF Announced
    <3>2. Exists(Other(n))' => Announced(Other(n))'
      <4>1. Exists(Other(n))' => Announced(Other(n))
        BY <1>a, <1>b, <1>f, <2>1, <2>7 DEF ExistsIsAnnounced, Exists
      <4> QED
        BY <1>2, <1>a, <1>b, <2>1, <2>2, <2>3, <2>4, <4>1, AnnouncedKept
    <3> QED
      BY <1>b, <3>1, <3>2 DEF ExistsIsAnnounced
  <2> QED
    BY <1>g, <2>5, <2>6, <2>7
\* The object of n is deleted, which is no update.
<1>3. ASSUME NEW n \in Servers, object' = [object EXCEPT ![n] = NoObject], Keeps(n),
             UNCHANGED <<hand, linked, sync, snapshot>>, missed \subseteq missed',
             buried'[Other(n)] = buried[Other(n)],
             \A m \in Servers : Sent(m)' = Sent(m)
      PROVE  Agree
  <2>1. /\ object'[n] = NoObject /\ object'[Other(n)] = object[Other(n)]
        /\ \A m \in Servers : Keeps(m)
    BY <1>3, <1>a, <1>b, <1>e DEF SyncTypes
  <2>2. HandOK'
    BY <1>3, <1>a DEF HandOK
  <2>3. ASSUME raced' = {} PROVE AnnouncedIsKnown'
    BY <1>3, <1>a, <1>f, <2>1, <2>3, KnownKept
  <2>4. ASSUME raced' = {} PROVE ExistsIsAnnounced'
    <3>1. Exists(Other(n))' => Announced(Other(n))
      BY <1>a, <1>b, <1>f, <2>1, <2>4 DEF ExistsIsAnnounced, Exists
    <3>2. Exists(Other(n))' => Announced(Other(n))'
      BY <1>3, <1>a, <1>b, <2>1, <3>1, AnnouncedKept
    <3> QED
      BY <1>b, <2>1, <3>2 DEF ExistsIsAnnounced, Exists
  <2> QED
    BY <1>g, <2>2, <2>3, <2>4
<1>4. ASSUME NEW n \in Servers, CreateObjectConfig(n) PROVE Agree
  BY <1>1, <1>4 DEF CreateObjectConfig
<1>5. ASSUME NEW n \in Servers, NEW op \in {"modify", "delete"}, FindObject(n, op) PROVE Agree
  BY <1>1, <1>5 DEF FindObject
<1>6. ASSUME NEW n \in Servers, NEW version \in 1..MaxTime, CreateObject(n, version) PROVE Agree
  <2>1. CASE Exists(n)
    BY <1>1, <1>6, <2>1 DEF CreateObject
  <2>2. CASE ~Exists(n)
    <3>1. PICK new : new = [version |-> version, config |-> version, attrs |-> 0]
      OBVIOUS
    <3>2. new \in Objects
      BY <3>1, ConfigAssumption DEF Objects
    <3> QED
      BY <1>2, <1>6, <2>2, <3>1, <3>2 DEF CreateObject
  <2> QED
    BY <2>1, <2>2
<1>7. ASSUME NEW n \in Servers, NEW live \in {0, 1}, NEW restore \in BOOLEAN,
             ModifyObject(n, live, restore)
      PROVE  Agree
  <2>1. CASE live = 0 \/ (restore /\ object[n].attrs = 0)
    BY <1>1, <1>7, <2>1 DEF ModifyObject
  <2>2. CASE ~(live = 0 \/ (restore /\ object[n].attrs = 0))
    <3>0. PICK attrs \in Nat : attrs = IF restore THEN 0 ELSE clock + 1
      BY <1>d
    <3>1. Exists(n) /\ object[n] \in Objects
      <4>1. [node |-> n, op |-> "modify", arg |-> 1] \in requests
        BY <1>7, <2>2 DEF ModifyObject
      <4> QED
        BY <1>a, <4>1 DEF FoundExists, SyncTypes, Exists
    <3>2. PICK o \in Objects : o = object[n]
      BY <3>1
    <3>3. PICK version \in Nat \ {0} : version = clock + 1
      BY <1>d
    <3>4. PICK new : new = [o EXCEPT !.version = version, !.attrs = attrs]
      OBVIOUS
    <3>5. new \in Objects /\ new.version = clock + 1
      <4>1. /\ [o EXCEPT !.version = version, !.attrs = attrs] \in Objects
            /\ [o EXCEPT !.version = version, !.attrs = attrs].version = version
        BY ChangedObject
      <4> QED
        BY <3>3, <3>4, <4>1
    <3>6. /\ object' = [object EXCEPT ![n] = new]
          /\ RelayConfig(n, UpdateMessage(object'[n]))
          /\ UNCHANGED <<buried, hand, linked, sync, snapshot>>
      BY <1>7, <2>2, <3>0, <3>2, <3>3, <3>4 DEF ModifyObject
    <3>7. object'[n] = new
      BY <1>a, <3>6 DEF SyncTypes
    <3>8. RelayConfig(n, UpdateMessage(new)) /\ new.version >= object[n].version
      BY <1>d, <3>5, <3>6, <3>7
    <3> QED
      BY <1>2, <3>5, <3>6, <3>8
  <2> QED
    BY <2>1, <2>2
<1>8. ASSUME NEW n \in Servers, NEW live \in {0, 1}, DeleteObject(n, live) PROVE Agree
  <2>1. CASE live = 0
    <3>1. /\ object' = [object EXCEPT ![n] = NoObject]
          /\ UNCHANGED <<buried, hand, linked, wire, sync, snapshot, missed>>
          /\ Exists(n) => n \in raced'
      BY <1>8, <2>1 DEF DeleteObject
    <3>2. CASE Exists(n)
      BY <1>a, <1>g, <3>1, <3>2 DEF HandOK
    <3>3. CASE ~Exists(n)
      BY <1>1, <1>a, <3>1, <3>3 DEF Exists, SyncTypes
    <3> QED
      BY <3>2, <3>3
  <2>2. CASE live # 0
    <3>1. /\ object' = [object EXCEPT ![n] = NoObject] /\ clock' = clock + 1
          /\ UNCHANGED <<hand, linked, sync, snapshot>>
          /\ SetDeletion(n, clock') /\ RelayConfig(n, DeleteMessage(clock'))
      BY <1>8, <2>2 DEF DeleteObject
    <3>2. buried'[Other(n)] = buried[Other(n)] /\ buried'[n] = clock + 1
      BY <1>a, <1>b, <1>d, <3>1 DEF SetDeletion, SyncTypes
    <3>3. Keeps(n)
      BY <1>d, <3>2 DEF Keeps
    <3>4. PICK msg : msg = DeleteMessage(clock')
      OBVIOUS
    <3>5. msg \in Messages /\ msg.type = "delete"
      BY <1>d, <3>1, <3>4 DEF DeleteMessage, Messages, DeleteMessages
    <3>6. /\ missed \subseteq missed'
          /\ \A m \in Servers : /\ Contents(wire[m]) \subseteq Contents(wire'[m])
                                /\ Contents(wire'[m]) \subseteq Contents(wire[m]) \cup {msg}
      BY <1>a, <3>1, <3>4, <3>5, RelayTypes
    <3>7. \A m \in Servers : Sent(m)' = Sent(m)
      BY <3>1, <3>5, <3>6 DEF Sent
    <3> QED
      BY <1>3, <3>1, <3>2, <3>3, <3>6, <3>7
  <2> QED
    BY <2>1, <2>2
<1>9. ASSUME NEW n \in Servers, ReceiveDelete(n) PROVE Agree
  <2>1. /\ Incoming(n, "delete") /\ Next1(n).type = "delete"
        /\ UNCHANGED <<hand, linked, sync, snapshot, missed, raced>>
    BY <1>9 DEF ReceiveDelete, Incoming
  <2>2. \A m \in Servers : \A msg : msg.type = "update" =>
            (msg \in Contents(wire'[m]) <=> msg \in Contents(wire[m]))
    <3>1. /\ Contents(wire[Other(n)]) = {Next1(n)} \cup Contents(wire'[Other(n)])
          /\ wire'[n] = wire[n]
      BY <1>a, <2>1, ReadMessage
    <3>2. Servers = {n, Other(n)}
      BY TwoNodes
    <3> QED
      BY <2>1, <3>1, <3>2
  <2>3. \A m \in Servers : Sent(m)' = Sent(m)
    BY <2>1, <2>2 DEF Sent
  <2>4. CASE UNCHANGED <<object, buried>>
    <3>1. HandOK'
      BY <1>a, <2>1 DEF HandOK
    <3>2. raced' = {} => AnnouncedIsKnown'
      BY <1>a, <1>f, <2>3, <2>4 DEF AnnouncedIsKnown, Covered, Exists
    <3>3. raced' = {} => ExistsIsAnnounced'
      BY <1>a, <1>f, <2>1, <2>3, <2>4 DEF ExistsIsAnnounced, Announced, Covered, Exists
    <3> QED
      BY <1>g, <3>1, <3>2, <3>3
  <2>5. CASE /\ ~(Exists(n) /\ Next1(n).version < object[n].version)
             /\ SetDeletion(n, Next1(n).version) /\ object' = [object EXCEPT ![n] = NoObject]
    <3>1. Next1(n).version \in Nat
      BY <1>a, <2>1, ReadMessage
    <3>2. /\ buried'[Other(n)] = buried[Other(n)]
          /\ buried'[n] >= buried[n] /\ buried'[n] >= Next1(n).version
      BY <1>a, <1>b, <1>d, <2>5, <3>1 DEF SetDeletion, SyncTypes
    <3>3. Keeps(n)
      BY <1>d, <2>5, <3>1, <3>2 DEF Keeps
    <3> QED
      BY <1>3, <2>1, <2>3, <2>5, <3>2, <3>3
  <2> QED
    BY <1>9, <2>4, <2>5 DEF ReceiveDelete
<1>10. ASSUME NEW n \in Servers, PruneDeletedRuntimeObjects(n) PROVE Agree
  BY <1>1, <1>10 DEF PruneDeletedRuntimeObjects
<1>11. ASSUME NEW n \in Servers, ReceiveUpdate(n) PROVE Agree
  <2>1. /\ Incoming(n, "update") /\ hand[n] = <<>>
        /\ UpdateIsDeleted(n, Next1(n)) => hand' = hand
        /\ ~UpdateIsDeleted(n, Next1(n)) => hand' = [hand EXCEPT ![n] = <<Next1(n)>>]
        /\ UNCHANGED <<object, buried, linked, sync, snapshot, missed>>
    BY <1>11 DEF ReceiveUpdate, Incoming
  <2>2. PICK m \in Servers : m = Other(n) /\ Other(m) = n /\ m # n
    BY <1>b
  <2>3. PICK msg : msg = Next1(n)
    OBVIOUS
  <2>4. /\ Contents(wire[m]) = {msg} \cup Contents(wire'[m]) /\ wire'[n] = wire[n]
        /\ msg.version \in Nat
    BY <1>a, <2>1, <2>2, <2>3, ReadMessage
  <2>5. \/ Covered(n, msg.version) /\ hand' = hand
        \/ /\ Contents(hand'[n]) = {msg} /\ Head(hand'[n]) = msg
           /\ hand'[m] = hand[m]
    <3>1. CASE UpdateIsDeleted(n, Next1(n))
      BY <1>d, <2>1, <2>3, <2>4, <3>1 DEF UpdateIsDeleted, Covered
    <3>2. CASE ~UpdateIsDeleted(n, Next1(n))
      <4>1. hand'[n] = <<msg>> /\ hand'[m] = hand[m]
        BY <1>a, <2>1, <2>2, <2>3, <3>2 DEF SyncTypes
      <4> QED
        BY <1>c, <4>1
    <3> QED
      BY <3>1, <3>2
  <2>6. hand'[m] = hand[m] /\ Contents(hand[n]) = {}
    BY <1>c, <2>1, <2>5
  <2>7. Sent(n)' = Sent(n)
    BY <2>1, <2>2, <2>4, <2>6 DEF Sent
  <2>8. Sent(m)' \subseteq Sent(m)
    BY <2>1, <2>2, <2>4, <2>5 DEF Sent
  <2>9. \A x \in Sent(m) : x \in Sent(m)' \/ Covered(n, x.version)
    BY <2>1, <2>2, <2>4, <2>5, <2>6 DEF Sent
  <2>10. \A k \in Servers : Keeps(k)
    BY <1>e, <2>1
  <2>11. HandOK'
    BY <1>a, <1>b, <2>2, <2>5 DEF HandOK
  <2>12. ASSUME raced' = {} PROVE AnnouncedIsKnown'
    BY <1>a, <1>b, <1>f, <2>2, <2>7, <2>8, <2>10, <2>12, KnownKept
  <2>13. ASSUME raced' = {} PROVE ExistsIsAnnounced'
    <3>1. \A k \in Servers : Exists(k)' => Announced(k)
      BY <1>a, <1>f, <2>1, <2>13 DEF ExistsIsAnnounced, Exists
    <3>2. ASSUME Exists(n)' PROVE Announced(n)'
      BY <1>a, <1>b, <2>1, <2>7, <2>10, <3>1, <3>2, AnnouncedKept
    <3>3. ASSUME Exists(m)' PROVE Announced(m)'
      <4>1. \A x \in Sent(m) : x \in Sent(m)' \/ Covered(Other(m), x.version)'
        BY <2>1, <2>2, <2>9 DEF Covered, Exists
      <4> QED
        BY <1>a, <1>b, <2>1, <2>2, <2>10, <3>1, <3>3, <4>1, AnnouncedKept
    <3> QED
      BY <1>b, <2>2, <3>2, <3>3 DEF ExistsIsAnnounced
  <2> QED
    BY <1>g, <2>11, <2>12, <2>13
<1>12. ASSUME NEW n \in Servers, UpdateObject(n) PROVE Agree
  <2>0. PICK msg : msg = Head(hand[n])
    OBVIOUS
  <2>1. /\ object' = [object EXCEPT ![n] = Updated(n, msg)] /\ hand' = [hand EXCEPT ![n] = <<>>]
        /\ hand[n] # <<>>
        /\ UNCHANGED <<linked, wire, sync, snapshot, buried, missed>>
    BY <1>12, <2>0 DEF UpdateObject
  <2>2. PICK m \in Servers : m = Other(n) /\ Other(m) = n /\ m # n
    BY <1>b
  <2>3. msg \in UpdateMessages /\ msg.version \in Nat /\ Contents(hand[n]) = {msg}
    <3>1. msg \in UpdateMessages /\ msg \in Contents(hand[n])
      BY <1>a, <2>0, <2>1, QueueContents DEF SyncTypes
    <3> QED
      BY <1>a, <2>0, <3>1 DEF HandOK, UpdateMessages
  <2>4. PICK new : new = Updated(n, msg)
    OBVIOUS
  <2>5. /\ new \in Objects /\ new.version >= msg.version /\ new # NoObject
        /\ new.version = msg.version \/ (Exists(n) /\ new = object[n])
        /\ Exists(n) => new.version >= object[n].version
    <3>1. \A o \in Objects : o # NoObject
      BY DEF Objects, NoObject
    <3> QED
      BY <1>a, <2>3, <2>4, <3>1, UpdatedTypes
  <2>6. /\ object'[n] = new /\ object'[m] = object[m]
        /\ hand'[m] = hand[m] /\ Contents(hand'[n]) = {}
    BY <1>a, <1>c, <2>1, <2>2, <2>4 DEF SyncTypes
  <2>7. \A k \in Servers : Keeps(k)
    BY <1>b, <1>d, <1>e, <2>1, <2>2, <2>5, <2>6 DEF Keeps, Exists
  <2>8. Sent(n)' = Sent(n)
    BY <2>1, <2>2, <2>6 DEF Sent
  <2>9. msg \in Sent(m) /\ Sent(m)' \subseteq Sent(m) /\ Sent(m) \subseteq Sent(m)' \cup {msg}
    BY <2>1, <2>2, <2>3, <2>6 DEF Sent, UpdateMessages
  <2>10. Covered(n, msg.version)'
    BY <2>5, <2>6 DEF Covered, Exists
  <2>11. HandOK'
    BY <1>a, <1>b, <2>2, <2>6 DEF HandOK
  <2>12. ASSUME raced' = {} PROVE AnnouncedIsKnown'
    BY <1>a, <1>b, <1>f, <2>2, <2>7, <2>8, <2>9, <2>12, KnownKept
  <2>13. ASSUME raced' = {} PROVE ExistsIsAnnounced'
    <3>1. Announced(n)'
      <4>1. CASE Exists(n) /\ new = object[n]
        <5>1. Announced(n)
          BY <1>a, <1>f, <2>13, <4>1 DEF ExistsIsAnnounced
        <5> QED
          BY <1>a, <1>b, <2>1, <2>6, <2>7, <2>8, <4>1, <5>1, AnnouncedKept
      <4>2. CASE new.version = msg.version
        <5>1. Covered(m, msg.version)
          BY <1>a, <1>f, <2>2, <2>9, <2>13 DEF AnnouncedIsKnown
        <5>2. Covered(m, object[n].version)'
          BY <2>1, <2>6, <4>2, <5>1 DEF Covered, Exists
        <5> QED
          BY <2>2, <5>2 DEF Announced
      <4> QED
        BY <2>5, <4>1, <4>2
    <3>2. ASSUME Exists(m)' PROVE Announced(m)'
      <4>1. Announced(m)
        BY <1>a, <1>f, <2>6, <2>13, <3>2 DEF ExistsIsAnnounced, Exists
      <4>2. \A x \in Sent(m) : x \in Sent(m)' \/ Covered(Other(m), x.version)'
        BY <2>2, <2>9, <2>10
      <4> QED
        BY <1>a, <2>1, <2>2, <2>6, <2>7, <4>1, <4>2, AnnouncedKept
    <3> QED
      BY <1>b, <2>2, <3>1, <3>2 DEF ExistsIsAnnounced
  <2> QED
    BY <1>g, <2>11, <2>12, <2>13
\* SyncClient() announces what the node has at the time.
<1>13. ASSUME NEW n \in Servers, SendRuntimeConfigObjects(n) PROVE Agree
  <2>0. PICK new : new = IF Exists(n) THEN <<UpdateMessage(object[n])>> ELSE <<>>
    OBVIOUS
  <2>1. /\ sync[n] = "start" /\ sync' = [sync EXCEPT ![n] = "sending"]
        /\ snapshot' = [snapshot EXCEPT ![n] = new] /\ missed' = missed \ {n}
        /\ UNCHANGED <<object, buried, hand, linked, wire, raced>>
    BY <1>13, <2>0 DEF SendRuntimeConfigObjects
  <2>2. PICK m \in Servers : m = Other(n) /\ Other(m) = n /\ m # n
    BY <1>b
  <2>3. /\ Contents(snapshot[n]) = {} /\ snapshot'[n] = new /\ snapshot'[m] = snapshot[m]
        /\ sync'[m] = sync[m]
    BY <1>a, <1>c, <2>1, <2>2 DEF SnapshotOK, SyncTypes
  <2>4. Sent(m)' = Sent(m)
    BY <2>1, <2>2, <2>3 DEF Sent
  <2>5. CASE Exists(n)
    <3>1. PICK msg : msg = UpdateMessage(object[n])
      OBVIOUS
    <3>2. msg.type = "update" /\ msg.version = object[n].version /\ Contents(new) = {msg}
      BY <1>c, <2>0, <2>5, <3>1 DEF UpdateMessage
    <3>3. Sent(n)' = Sent(n) \cup {msg}
      BY <2>1, <2>3, <3>2 DEF Sent
    <3>4. Announced(n)' /\ \A x \in Sent(n)' : x \in Sent(n) \/ (Exists(n)' /\ x.version <= object'[n].version)
      BY <1>d, <2>1, <2>5, <3>2, <3>3 DEF Announced, Exists
    <3> QED
      <4>1. HandOK' /\ \A k \in Servers : Keeps(k)
        BY <1>a, <1>e, <2>1 DEF HandOK
      <4>2. ASSUME raced' = {} PROVE AnnouncedIsKnown'
        BY <1>a, <1>b, <1>f, <2>2, <2>4, <3>4, <4>1, <4>2, KnownKept
      <4>3. ASSUME raced' = {}, Exists(m)' PROVE Announced(m)'
        <5>1. Announced(m)
          BY <1>a, <1>f, <2>1, <4>3 DEF ExistsIsAnnounced, Exists
        <5> QED
          BY <2>1, <2>2, <2>3, <2>4, <5>1 DEF Announced, Covered, Exists
      <4> QED
        BY <1>b, <1>g, <2>2, <3>4, <4>1, <4>2, <4>3 DEF ExistsIsAnnounced
  <2>6. CASE ~Exists(n)
    <3>1. Sent(n)' = Sent(n)
      BY <1>c, <2>0, <2>1, <2>3, <2>6 DEF Sent
    <3>2. HandOK' /\ (raced' = {} => AnnouncedIsKnown')
      BY <1>a, <1>b, <1>f, <2>1, <2>2, <2>4, <3>1 DEF HandOK, AnnouncedIsKnown, Covered, Exists
    <3>3. ASSUME raced' = {}, Exists(m)' PROVE Announced(m)'
      <4>1. Announced(m)
        BY <1>a, <1>f, <2>1, <3>3 DEF ExistsIsAnnounced, Exists
      <4> QED
        BY <2>1, <2>2, <2>3, <2>4, <4>1 DEF Announced, Covered, Exists
    <3>4. raced' = {} => ExistsIsAnnounced'
      BY <1>b, <2>1, <2>2, <2>6, <3>3 DEF ExistsIsAnnounced, Exists
    <3> QED
      BY <1>g, <3>2, <3>4
  <2> QED
    BY <2>5, <2>6
<1>14. ASSUME NEW n \in Servers, FinishSync(n) PROVE Agree
  <2>1. /\ sync[n] = "sending" /\ sync' = [sync EXCEPT ![n] = "idle"]
        /\ wire' = [wire EXCEPT ![n] = (@ \o snapshot[n]) \o log[n]]
        /\ snapshot' = [snapshot EXCEPT ![n] = <<>>]
        /\ UNCHANGED <<object, buried, hand, linked, missed, raced>>
    BY <1>14 DEF FinishSync
  <2>2. PICK m \in Servers : m = Other(n) /\ Other(m) = n /\ m # n
    BY <1>b
  <2>3. snapshot[n] \in Seq(Messages) /\ log[n] \in Seq(Messages) /\ wire[n] \in Seq(Messages)
    BY <1>a, SeqMonotonic DEF Messages, SyncTypes
  <2>4. /\ Contents(wire'[n]) = Contents(wire[n]) \cup Contents(snapshot[n]) \cup Contents(log[n])
        /\ wire'[m] = wire[m] /\ Contents(snapshot'[n]) = {} /\ snapshot'[m] = snapshot[m]
        /\ sync'[n] = "idle" /\ sync'[m] = sync[m]
    <3>1. PICK both : both = wire[n] \o snapshot[n]
      OBVIOUS
    <3>2. both \in Seq(Messages) /\ Contents(both) = Contents(wire[n]) \cup Contents(snapshot[n])
      BY <2>3, <3>1, QueueContents
    <3>3. Contents(both \o log[n]) = Contents(both) \cup Contents(log[n])
      BY <2>3, <3>2, QueueContents
    <3>4. wire'[n] = both \o log[n]
      BY <1>a, <2>1, <3>1 DEF SyncTypes
    <3> QED
      BY <1>a, <1>c, <2>1, <2>2, <3>2, <3>3, <3>4 DEF SyncTypes
  <2>5. \A msg \in Contents(log[n]) : msg.type # "update"
    <3>1. Contents(log[n]) \subseteq DeleteMessages
      BY <1>a, QueueContents DEF SyncTypes
    <3> QED
      BY <3>1 DEF DeleteMessages
  <2>6. \A k \in Servers : Sent(k)' = Sent(k)
    BY <1>b, <2>1, <2>2, <2>4, <2>5 DEF Sent
  <2>7. HandOK' /\ (raced' = {} => AnnouncedIsKnown')
    BY <1>a, <1>f, <2>1, <2>6 DEF HandOK, AnnouncedIsKnown, Covered, Exists
  <2>8. \A k \in Servers : Announced(k) => Announced(k)'
    BY <1>b, <2>1, <2>2, <2>4, <2>6 DEF Announced, Covered, Exists
  <2>9. raced' = {} => ExistsIsAnnounced'
    BY <1>a, <1>f, <2>1, <2>8 DEF ExistsIsAnnounced, Exists
  <2> QED
    BY <1>g, <2>7, <2>9
<1>15. CASE Connect
  <2>1. /\ \A n \in Servers : sync'[n] = "start"
        /\ UNCHANGED <<object, buried, hand, wire, snapshot, raced>>
    BY <1>15 DEF Connect
  <2>2. \A n \in Servers : Sent(n)' = Sent(n)
    BY <2>1 DEF Sent
  <2>3. HandOK' /\ (raced' = {} => AnnouncedIsKnown')
    BY <1>a, <1>f, <2>1, <2>2 DEF HandOK, AnnouncedIsKnown, Covered, Exists
  <2>4. ExistsIsAnnounced'
    BY <2>1 DEF ExistsIsAnnounced, Announced
  <2> QED
    BY <1>g, <2>3, <2>4
<1>16. CASE Disconnect
  <2>1. /\ linked' = FALSE /\ wire' = [n \in Servers |-> <<>>]
        /\ snapshot' = [n \in Servers |-> <<>>] /\ UNCHANGED <<object, buried, hand, raced>>
    BY <1>16 DEF Disconnect
  <2>2. \A n \in Servers : Sent(n)' \subseteq Sent(n)
    BY <1>c, <2>1 DEF Sent
  <2>3. HandOK' /\ (raced' = {} => AnnouncedIsKnown')
    BY <1>a, <1>f, <2>1, <2>2 DEF HandOK, AnnouncedIsKnown, Covered, Exists
  <2>4. ExistsIsAnnounced'
    BY <2>1 DEF ExistsIsAnnounced, Announced
  <2> QED
    BY <1>g, <2>3, <2>4
<1>17. CASE UNCHANGED configVars
  BY <1>1, <1>17 DEF configVars
<1> QED
  BY <1>4, <1>5, <1>6, <1>7, <1>8, <1>9, <1>10, <1>11, <1>12, <1>13, <1>14, <1>15, <1>16, <1>17
     DEF ConfigNext

\* Whatever was created, modified, deleted, sent twice or lost: once the nodes are
\* connected and nothing is on its way, what one has the other has, in the same version or
\* a later one, or has deleted. It does not depend on the order in which updates, deletions
\* and the replays of both arrive.
THEOREM NodesConverge == ConfigSpec => []Converges
<1>1. ConfigInit => SyncInv
  <2>1. Contents(<<>>) = {} /\ \A S : <<>> \in Seq(S)
    BY QueueContents, EmptySeq
  <2>2. ConfigInit => SyncBasics
    BY <2>1 DEF ConfigInit, SyncBasics, SyncTypes, TimesOK, MessagesOK, FoundExists, SnapshotOK,
                DeletedStaysDeleted, Exists, NoObject
  <2>3. ConfigInit => HandOK /\ ExistsIsAnnounced
    BY <2>1 DEF ConfigInit, HandOK, ExistsIsAnnounced, Exists
  <2>4. ConfigInit => \A n \in Servers : Sent(n) = {}
    BY <2>1, TwoNodes DEF ConfigInit, Sent
  <2> QED
    BY <2>2, <2>3, <2>4 DEF SyncInv, AnnouncedIsKnown
<1>2. SyncInv /\ [ConfigNext]_configVars => SyncInv'
  BY SyncBasicsStep, AgreeStep DEF SyncInv
<1>3. SyncInv => Converges
  <2> SUFFICES ASSUME SyncInv, InSync, missed = {}, raced = {}, NEW n \in Servers, NEW m \in Servers,
                      Exists(n)
               PROVE  \/ Exists(m) /\ object[m].version >= object[n].version
                      \/ buried[m] >= object[n].version
    BY DEF Converges
  <2>1. object[n].version \in Nat /\ (m = n \/ m = Other(n)) /\ Other(n) \in Servers
    BY Versions, TwoNodes DEF SyncInv, SyncBasics
  <2>2. CASE m = n
    BY <2>1, <2>2
  <2>3. CASE m = Other(n)
    <3>1. Contents(<<>>) = {}
      BY QueueContents, EmptySeq
    <3>2. /\ snapshot[n] = <<>> /\ wire[n] = <<>> /\ hand[Other(n)] = <<>>
          /\ linked /\ sync[n] # "start"
      BY <2>1 DEF InSync, SyncInv, SyncBasics, SnapshotOK
    <3>3. Sent(n) = {}
      BY <3>1, <3>2 DEF Sent
    <3>4. Announced(n)
      BY DEF SyncInv, ExistsIsAnnounced
    <3> QED
      BY <2>3, <3>2, <3>3, <3>4 DEF Announced, Covered
  <2> QED
    BY <2>1, <2>2, <2>3
<1> QED
  BY <1>1, <1>2, <1>3, PTL DEF ConfigSpec
----------------------------------------------------------------------------
AuthorityTypes ==
    /\ alive \subseteq Members /\ upgraded \subseteq Members
    /\ clients \in [Members -> SUBSET Members] /\ capable \in [Members -> SUBSET Members]
    /\ inbox \in [Members -> SUBSET (Members \X {"hello", "replay"})]
    /\ up \subseteq Pairs

\* A member knows which of the connected ones are upgraded, or their hello is still to be
\* handled: a member changes its version only while it is disconnected.
HelloTells ==
    \A n \in Members : \A m \in clients[n] :
        <<m, "hello">> \in inbox[n] \/ (m \in capable[n] <=> m \in upgraded)

\* Members that a third one is connected to are connected to each other.
Meshed == \A k, m, n \in alive : {k, m} \in up /\ {m, n} \in up /\ k # n => {k, n} \in up

\* The sorted vector of endpoints has one at every position. The number of smaller members
\* maps the members one-to-one to the positions, and there are as many of both.
LEMMA EveryPosition ==
    ASSUME NEW list \in SUBSET Members, NEW k \in 0..Cardinality(list) - 1
    PROVE  Sorted(list, k) \in list
<1> DEFINE Smaller(m) == {x \in list : x < m}
           position == [m \in list |-> Cardinality(Smaller(m))]
           size == Cardinality(list)
<1>1. IsFiniteSet(list) /\ size \in Nat /\ list \subseteq Nat
  BY AuthorityAssumption, FS_Subset, FS_CardinalityType
<1>2. ASSUME NEW m \in list
      PROVE  IsFiniteSet(Smaller(m)) /\ Cardinality(Smaller(m)) \in 0..size - 1
  <2>1. Smaller(m) \in SUBSET (list \ {m})
    BY <1>1
  <2>2. IsFiniteSet(list \ {m}) /\ Cardinality(list \ {m}) = size - 1
    BY <1>1, FS_RemoveElement
  <2>3. IsFiniteSet(Smaller(m)) /\ Cardinality(Smaller(m)) <= Cardinality(list \ {m})
    BY <2>1, <2>2, FS_Subset
  <2>4. Cardinality(Smaller(m)) \in Nat
    BY <2>3, FS_CardinalityType
  <2> HIDE DEF Smaller, size
  <2> QED
    BY <1>1, <2>2, <2>3, <2>4
<1>3. ASSUME NEW a \in list, NEW b \in list, a < b PROVE position[a] # position[b]
  <2>1. Smaller(a) \in SUBSET Smaller(b) /\ a \in Smaller(b) /\ a \notin Smaller(a)
    <3>1. ~(a < a) /\ \A x \in list : x < a => x < b
      BY <1>1, <1>3
    <3> QED
      BY <1>3, <3>1
  <2>2. IsFiniteSet(Smaller(b)) /\ (Cardinality(Smaller(b)) = Cardinality(Smaller(a)) => Smaller(b) = Smaller(a))
    <3>1. PICK A, B : A = Smaller(a) /\ B = Smaller(b)
      OBVIOUS
    <3>2. IsFiniteSet(B) /\ A \in SUBSET B
      BY <1>2, <2>1, <3>1
    <3>3. Cardinality(B) = Cardinality(A) => B = A
      BY <3>2, FS_Subset
    <3> QED
      BY <3>1, <3>2, <3>3
  <2> QED
    BY <2>1, <2>2
<1>4. position \in [list -> 0..size - 1]
  BY <1>2
<1>5. \A a, b \in list : position[a] = position[b] => a = b
  <2> HIDE DEF position
  <2>1. \A a, b \in list : a < b \/ b < a \/ a = b
    BY <1>1
  <2> QED
    BY <1>3, <2>1
<1>6. position \in Injection(list, 0..size - 1)
  BY <1>4, <1>5, Fun_IsInj
<1>7. IsFiniteSet(0..size - 1) /\ Cardinality(0..size - 1) = size
  <2>1. 0 \in Int /\ size - 1 \in Int
    BY <1>1
  <2> HIDE DEF size
  <2>2. /\ IsFiniteSet(0..size - 1)
        /\ Cardinality(0..size - 1) = IF 0 > size - 1 THEN 0 ELSE (size - 1) - 0 + 1
    BY <2>1, FS_Interval
  <2> QED
    BY <1>1, <2>2
<1>8. position \in Surjection(list, 0..size - 1)
  BY <1>6, <1>7, FS_Injection
<1>9. PICK m \in list : position[m] = k
  BY <1>8 DEF Surjection
<1>10. m \in list /\ Cardinality({x \in list : x < m}) = k
  BY <1>9
<1> QED
  BY <1>10 DEF Sorted

\* The types, and what a hello tells, are kept by every step.
LEMMA AuthorityStep ==
    AuthorityTypes /\ HelloTells /\ [AuthorityNext]_authorityVars => AuthorityTypes' /\ HelloTells'
<1> SUFFICES ASSUME AuthorityTypes, HelloTells, [AuthorityNext]_authorityVars
             PROVE  AuthorityTypes' /\ HelloTells'
  OBVIOUS
<1> USE DEF AuthorityTypes, HelloTells
<1>1. ASSUME NEW n \in Members, UpdateTimer(n) \/ WarmUp(n) PROVE AuthorityTypes' /\ HelloTells'
  BY <1>1 DEF UpdateTimer, WarmUp
<1>2. ASSUME NEW n \in Members, StopNode(n) PROVE AuthorityTypes' /\ HelloTells'
  BY <1>2 DEF StopNode
<1>3. ASSUME NEW n \in Members, NEW c \in Callers, SetAuthority(n, c)
      PROVE  AuthorityTypes' /\ HelloTells'
  BY <1>3 DEF SetAuthority
<1>4. ASSUME NEW n \in Members, NEW m \in Members, HelloAPIHandler(n, m)
      PROVE  AuthorityTypes' /\ HelloTells'
  BY <1>4 DEF HelloAPIHandler
<1>5. ASSUME NEW n \in Members, NEW m \in Members, ReplayEnds(n, m)
      PROVE  AuthorityTypes' /\ HelloTells'
  BY <1>5 DEF ReplayEnds
<1>6. ASSUME NEW n \in Members, NEW m \in Members, AddClient(n, m)
      PROVE  AuthorityTypes' /\ HelloTells'
  BY <1>6 DEF AddClient
<1>7. ASSUME NEW n \in Members, NEW m \in Members, RemoveClient(n, m)
      PROVE  AuthorityTypes' /\ HelloTells'
  BY <1>7 DEF RemoveClient
<1>8. ASSUME NEW n \in Members, NEW version \in {"old", "new"}, StartNode(n, version)
      PROVE  AuthorityTypes' /\ HelloTells'
  BY <1>8 DEF StartNode
<1>9. ASSUME NEW pair \in Pairs, NetworkChanges(pair) PROVE AuthorityTypes' /\ HelloTells'
  BY <1>9 DEF NetworkChanges
<1>10. CASE UNCHANGED authorityVars
  BY <1>10 DEF authorityVars
<1> QED
  BY <1>1, <1>2, <1>3, <1>4, <1>5, <1>6, <1>7, <1>8, <1>9, <1>10 DEF AuthorityNext

\* Members that see each other come to the same decision, each on its own.
LEMMA SameDecision ==
    ASSUME AuthorityTypes, HelloTells, Settled, Meshed, NEW n \in alive, NEW m \in Together(n)
    PROVE  LET list == Together(n)
               hash == IF list \subseteq upgraded THEN HostHash ELSE NameHash
           IN authority[m] <=> Sorted(list, hash % Cardinality(list)) = m
<1>1. m \in alive /\ m \in Members /\ n \in Members
  BY DEF Together, AuthorityTypes
<1>2. /\ clients[m] = {x \in alive : {m, x} \in up} /\ inbox[m] = {}
      /\ authority[m] = Computed(m, capable[m])
  BY <1>1 DEF Settled
<1>3. {m} \cup clients[m] = Together(n)
  <2>1. \A x \in alive : x \in {m} \cup clients[m] <=> x = m \/ {m, x} \in up
    BY <1>1, <1>2
  <2>2. \A x \in alive : x \in Together(n) <=> x = n \/ {n, x} \in up
    BY DEF Together
  <2>3. ASSUME NEW x \in alive, x = m \/ {m, x} \in up PROVE x = n \/ {n, x} \in up
    BY <1>1, <2>2, <2>3 DEF Meshed
  <2>4. ASSUME NEW x \in alive, x = n \/ {n, x} \in up PROVE x = m \/ {m, x} \in up
    <3>1. m = n \/ {m, n} \in up
      <4>1. {m, n} = {n, m}
        OBVIOUS
      <4> QED
        BY <1>1, <2>2, <4>1
    <3>2. CASE m = n \/ x = n \/ x = m
      BY <2>4, <3>1, <3>2
    <3>3. CASE m # n /\ x # n /\ x # m
      <4>1. {m, n} \in up /\ {n, x} \in up
        BY <2>4, <3>1, <3>3
      <4> QED
        BY <1>1, <3>3, <4>1 DEF Meshed
    <3> QED
      BY <3>2, <3>3
  <2> QED
    BY <1>1, <1>2, <2>1, <2>2, <2>3, <2>4 DEF Together
<1>4. \A x \in clients[m] : x \in capable[m] <=> x \in upgraded
  BY <1>1, <1>2 DEF HelloTells
<1>5. (m \in upgraded /\ clients[m] \subseteq capable[m]) <=> Together(n) \subseteq upgraded
  BY <1>3, <1>4
<1> QED
  BY <1>2, <1>3, <1>5 DEF Computed

\* In a zone whose connections are transitive exactly one of the members that see each
\* other runs the object once things have settled, however calls of
\* ApiListener::UpdateObjectAuthority() overlapped and whatever was restarted or upgraded.
THEOREM OneMemberRuns == AuthoritySpec => [](Meshed => OneRuns)
<1>1. AuthorityInit => AuthorityTypes /\ HelloTells
  BY DEF AuthorityInit, AuthorityTypes, HelloTells
<1>2. AuthorityTypes /\ HelloTells => (Meshed => OneRuns)
  <2> SUFFICES ASSUME AuthorityTypes, HelloTells, Meshed, Settled, NEW n \in alive
               PROVE  Cardinality({m \in Together(n) : authority[m]}) = 1
    BY DEF OneRuns
  <2> DEFINE list == Together(n)
             hash == IF list \subseteq upgraded THEN HostHash ELSE NameHash
             chosen == Sorted(list, hash % Cardinality(list))
  <2>1. list \in SUBSET Members /\ n \in list
    BY DEF Together, AuthorityTypes
  <2>2. IsFiniteSet(list) /\ Cardinality(list) \in Nat /\ Cardinality(list) # 0
    BY <2>1, AuthorityAssumption, FS_Subset, FS_CardinalityType, FS_EmptySet
  <2>3. hash \in Nat
    BY AuthorityAssumption
  <2>4. PICK k : k = hash % Cardinality(list)
    OBVIOUS
  <2>5. k \in 0..Cardinality(list) - 1
    <3> HIDE DEF hash, list
    <3> QED
      BY <2>2, <2>3, <2>4
  <2>6. chosen \in list
    BY <2>1, <2>4, <2>5, EveryPosition
  <2>7. \A m \in list : authority[m] <=> chosen = m
    BY SameDecision
  <2>8. {m \in list : authority[m]} = {chosen}
    <3> HIDE DEF chosen, list
    <3> QED
      BY <2>6, <2>7
  <2> QED
    BY <2>8, FS_Singleton
<1> QED
  BY <1>1, <1>2, AuthorityStep, PTL DEF AuthoritySpec

\* In a zone of two, which is what high availability is meant for, connections are
\* transitive: exactly one of the connected members runs the object.
THEOREM OneOfTwoRuns ==
    ASSUME \E a, b \in Members : Members = {a, b}
    PROVE  AuthoritySpec => []OneRuns
<1>1. AuthorityTypes => Meshed
  <2> SUFFICES ASSUME AuthorityTypes, NEW k \in alive, NEW m \in alive, NEW n \in alive,
                      {k, m} \in up, {m, n} \in up, k # n
               PROVE  FALSE
    BY DEF Meshed
  <2>1. \A x, y : {x, y} \in up => x # y
    BY DEF AuthorityTypes, Pairs
  <2> QED
    BY <2>1 DEF AuthorityTypes
<1>2. AuthorityInit => AuthorityTypes /\ HelloTells
  BY DEF AuthorityInit, AuthorityTypes, HelloTells
<1> QED
  BY <1>1, <1>2, OneMemberRuns, AuthorityStep, PTL DEF AuthoritySpec

-----------------------------------------------------------------------------
(* The files: once everything is settled the nodes have and run the same,    *)
(* for any number of levels, files and publications, and any faults.         *)
(*                                                                           *)
(* The invariant says of each node what it knows of the one above it, as it  *)
(* was when the two connected (latest), and of each node what becomes of     *)
(* changes of its directory that its children have not been told: they are   *)
(* told after the restart that is due.                                       *)


\* A directory has nothing but what was published with its timestamp.
Authentic(dir) ==
    dir.ts # 0 => /\ dir.exists
                  /\ dir.ts <= Len(published)
                  /\ \A f \in 1..NumFiles : dir.files[f] \in {0, published[dir.ts][f]}

AuthenticHere(n) ==
    /\ Authentic(production[n]) /\ Authentic(handler[n].stage) /\ Authentic(latest[n])
    /\ \A dir \in incoming[n] : Authentic(dir)

\* ... and not all of it, or nobody knows.
Partial(dir) == dir.ts = 0 \/ dir.files # published[dir.ts]

\* The production directory is the stage without what is to be copied.
CopyOK(n) ==
    /\ handler[n].pc \in {"purge", "copy"} => handler[n].stage.files \in Loadable
    /\ handler[n].pc = "copy" =>
          /\ production[n].ts = IF 0 \in handler[n].todo THEN 0 ELSE handler[n].stage.ts
          /\ \A f \in 1..NumFiles : production[n].files[f]
                = IF f \in handler[n].todo THEN 0 ELSE handler[n].stage.files[f]
          /\ \A f \in handler[n].todo \ {0} : handler[n].stage.files[f] # 0

\* Only a directory that was cut off cannot be loaded.
LoadableOK(n) ==
    \/ production[n].files \in Loadable
    \/ handler[n].pc = "copy"
    \/ Partial(production[n]) /\ (n \in forgotten \/ loaded[n] = NoProcess)

\* A node that does not start does nothing.
DeadOK(n) ==
    loaded[n] = NoProcess => /\ loading[n] = NoProcess /\ n \notin reload \cup requested \cup attached
                             /\ incoming[n] = {} /\ handler[n].pc = "idle"

RestartDue(n) == n \in requested \cup reload \/ handler[n].pc = "copy"

\* A process has loaded the directory, unless another will.
LoadedOK(n) ==
    /\ loading[n] = NoProcess => \/ loaded[n] \in {NoProcess, production[n].files}
                                 \/ n \in forgotten \/ RestartDue(n)
    /\ loading[n] # NoProcess => \/ loading[n] = production[n].files
                                 \/ n \in forgotten \/ RestartDue(n)

\* What the last update of this connection has led to
Got(n) ==
    \/ production[n].files = latest[n].files
    \/ production[n].ts > latest[n].ts
    \/ production[n].ts = latest[n].ts /\ Partial(production[n])
    \/ Partial(latest[n])

ReceivedOK(n) ==
    n \in attached /\ n \notin outdated /\ latest[n] \notin incoming[n] =>
        /\ handler[n].pc = "idle" => n \in failed \/ Got(n)
        /\ handler[n].pc # "idle" => handler[n].stage = latest[n]

NodeOK(n) ==
    /\ AuthenticHere(n) /\ CopyOK(n) /\ LoadableOK(n) /\ DeadOK(n) /\ LoadedOK(n)
    /\ ReceivedOK(n)

\* The last update is what the node above has, unless that node will end the connection.
SentOK(n) ==
    n \in attached =>
        \/ latest[n].ts = production[n - 1].ts /\ latest[n].files = production[n - 1].files
        \/ /\ n - 1 \in Levels
           /\ RestartDue(n - 1) \/ loading[n - 1] # NoProcess \/ Partial(production[n - 1])

CountOK == Len(published) + faults <= MaxEvents

FilesInv ==
    /\ FileSyncTypeOK /\ CountOK
    /\ Authentic(production[1])
    /\ \A n \in Levels : NodeOK(n) /\ SentOK(n)

-----------------------------------------------------------------------------
(* What a step leaves alone                                                  *)

\* What was published stays.
Grows == /\ published' \in Seq(Deployments) /\ Len(published) <= Len(published')
         /\ \A i \in 1..Len(published) : published'[i] = published[i]

\* A node that nothing happens to but that it loses its connection
Untouched(n) ==
    /\ production'[n] = production[n] /\ handler'[n] = handler[n] /\ latest'[n] = latest[n]
    /\ loading'[n] = loading[n] /\ loaded'[n] = loaded[n]
    /\ incoming'[n] \subseteq incoming[n]
    /\ n \in attached' => n \in attached /\ incoming'[n] = incoming[n]
    /\ n \in forgotten' <=> n \in forgotten
    /\ n \in requested' <=> n \in requested
    /\ n \in reload' <=> n \in reload
    /\ n \in failed' <=> n \in failed
    /\ n \in outdated' <=> n \in outdated

\* A directory means what it meant.
LEMMA SameDirectory ==
    ASSUME Grows, NEW dir \in Directories, Authentic(dir), published \in Seq(Deployments)
    PROVE  Authentic(dir)' /\ (Partial(dir)' <=> Partial(dir))
<1>1. dir.ts \in Nat /\ Len(published) \in Nat /\ Len(published') \in Nat
  BY DEF Directories, Grows
<1>2. dir.ts # 0 => dir.ts \in 1..Len(published) /\ published'[dir.ts] = published[dir.ts]
  BY <1>1 DEF Authentic, Grows
<1>3. dir.ts # 0 => dir.ts <= Len(published')
  BY <1>1, <1>2 DEF Grows
<1>4. Authentic(dir)'
  BY <1>2, <1>3 DEF Authentic
<1> QED
  BY <1>2, <1>4 DEF Partial

\* The types of the parts of a node
LEMMA NodeTypes ==
    ASSUME FileSyncTypeOK, NEW n \in Levels
    PROVE  /\ n \in 1..Depth /\ n - 1 \in 1..Depth /\ n \in Nat
           /\ production[n] \in Directories /\ production[n - 1] \in Directories
           /\ incoming[n] \subseteq Directories /\ latest[n] \in Directories
           /\ handler[n].stage \in Directories
           /\ published \in Seq(Deployments)
<1>1. n \in 1..Depth /\ n - 1 \in 1..Depth /\ n \in Nat
  BY FileSyncAssumption DEF Levels
<1> QED
  BY <1>1 DEF FileSyncTypeOK, Handlers

\* A node that only loses its connection stays as it is.
LEMMA UntouchedIsOK ==
    ASSUME FileSyncTypeOK, Grows, NEW n \in Levels, NodeOK(n), Untouched(n)
    PROVE  NodeOK(n)'
<1>1. /\ production[n] \in Directories /\ latest[n] \in Directories
      /\ handler[n].stage \in Directories /\ incoming[n] \subseteq Directories
      /\ published \in Seq(Deployments)
  BY NodeTypes
<1>2. /\ Authentic(production[n]) /\ Authentic(handler[n].stage) /\ Authentic(latest[n])
      /\ \A dir \in incoming[n] : Authentic(dir)
  BY DEF NodeOK, AuthenticHere
<1>3. PICK prod, stage, last : /\ prod = production[n] /\ stage = handler[n].stage
                               /\ last = latest[n]
  OBVIOUS
<1>4. /\ Authentic(prod)' /\ (Partial(prod)' <=> Partial(prod))
      /\ Authentic(stage)'
      /\ Authentic(last)' /\ (Partial(last)' <=> Partial(last))
  BY <1>1, <1>2, <1>3, SameDirectory
<1>5. \A dir \in incoming[n] : Authentic(dir)'
  BY <1>1, <1>2, SameDirectory
<1>6. production'[n] = prod /\ handler'[n].stage = stage /\ latest'[n] = last
  BY <1>3 DEF Untouched
<1>7. AuthenticHere(n)'
  BY <1>4, <1>5, <1>6 DEF AuthenticHere, Untouched, Authentic
<1>8. CopyOK(n)'
  BY DEF NodeOK, CopyOK, Untouched
<1>9. Partial(production[n])' <=> Partial(production[n])
  BY <1>3, <1>4, <1>6 DEF Partial
<1>10. LoadableOK(n)'
  BY <1>9 DEF NodeOK, LoadableOK, Untouched
<1>11. DeadOK(n)'
  BY DEF NodeOK, DeadOK, Untouched
<1>12. LoadedOK(n)'
  BY DEF NodeOK, LoadedOK, RestartDue, Untouched
<1>13. Partial(latest[n])' <=> Partial(latest[n])
  BY <1>3, <1>4, <1>6 DEF Partial
<1>14. Got(n) => Got(n)'
  BY <1>9, <1>13 DEF Got, Untouched
<1>15. ReceivedOK(n)'
  BY <1>14 DEF NodeOK, ReceivedOK, Untouched
<1> QED
  BY <1>7, <1>8, <1>10, <1>11, <1>12, <1>15 DEF NodeOK

\* What a node was sent does not change, and the one above it keeps what it has or what
\* it is about to do.
LEMMA SentStays ==
    ASSUME FileSyncTypeOK, Grows, NEW n \in Levels, SentOK(n),
           n \in attached' => n \in attached, latest'[n] = latest[n],
           production'[n - 1].ts = production[n - 1].ts,
           production'[n - 1].files = production[n - 1].files,
           Authentic(production[n - 1]),
           n - 1 \in Levels => /\ RestartDue(n - 1) => RestartDue(n - 1)' \/ loading'[n - 1] # NoProcess
                               /\ loading[n - 1] # NoProcess => loading'[n - 1] # NoProcess
    PROVE  SentOK(n)'
<1>1. PICK above : above = production[n - 1]
  OBVIOUS
<1>2. above \in Directories /\ published \in Seq(Deployments)
  BY <1>1, NodeTypes
<1>3. Partial(above)' <=> Partial(above)
  BY <1>1, <1>2, SameDirectory
<1>4. Partial(production[n - 1])' <=> Partial(production[n - 1])
  BY <1>1, <1>3 DEF Partial
<1> QED
  BY <1>4 DEF SentOK, RestartDue

\* A step of node n: what the node itself and the one below it need.
LEMMA StepAt ==
    ASSUME FilesInv, NEW n \in Levels, FileSyncTypeOK', CountOK', Grows,
           attached' \subseteq attached, latest' = latest,
           \A m \in 1..Depth \ {n} : production'[m] = production[m],
           \A m \in Levels \ {n} : Untouched(m),
           NodeOK(n)',
           n + 1 \in attached' =>
              \/ /\ production'[n].ts = production[n].ts /\ production'[n].files = production[n].files
                 /\ RestartDue(n) => RestartDue(n)' \/ loading'[n] # NoProcess
                 /\ loading[n] # NoProcess => loading'[n] # NoProcess
              \/ RestartDue(n)' \/ loading'[n] # NoProcess \/ Partial(production[n])'
    PROVE  FilesInv'
<1>1. FileSyncTypeOK /\ published \in Seq(Deployments) /\ n \in Nat /\ n # 1
  BY DEF FilesInv, FileSyncTypeOK, Levels
<1>2. Authentic(production[1])'
  <2>1. PICK top : top = production[1]
    OBVIOUS
  <2>2. 1 \in 1..Depth
    BY FileSyncAssumption
  <2>3. top \in Directories /\ Authentic(top) /\ production'[1] = top
    BY <1>1, <2>1, <2>2 DEF FilesInv, FileSyncTypeOK
  <2>4. Authentic(top)'
    BY <1>1, <2>3, SameDirectory
  <2> QED
    BY <2>3, <2>4 DEF Authentic
<1>3. ASSUME NEW m \in Levels PROVE NodeOK(m)'
  <2>1. CASE m = n
    BY <2>1
  <2>2. CASE m # n
    BY <1>1, <2>2, UntouchedIsOK DEF FilesInv
  <2> QED
    BY <2>1, <2>2
<1>4. ASSUME NEW m \in Levels PROVE SentOK(m)'
  <2>1. /\ m \in Nat /\ m - 1 \in 1..Depth /\ (m - 1 \in Levels \/ m - 1 = 1)
        /\ m - 1 = n => m = n + 1
    BY <1>1, FileSyncAssumption DEF Levels
  <2>2. Authentic(production[m - 1])
    BY <2>1 DEF FilesInv, NodeOK, AuthenticHere
  <2>3. m \in attached' => m \in attached
    OBVIOUS
  <2>4. CASE m - 1 # n
    <3>1. production'[m - 1] = production[m - 1]
      BY <2>1, <2>4
    <3>2. m - 1 \in Levels => /\ handler'[m - 1] = handler[m - 1] /\ loading'[m - 1] = loading[m - 1]
                              /\ RestartDue(m - 1) => RestartDue(m - 1)'
      BY <2>4 DEF Untouched, RestartDue
    <3> QED
      BY <1>1, <2>2, <2>3, <3>1, <3>2, SentStays DEF FilesInv
  <2>5. CASE m - 1 = n
    <3>1. CASE RestartDue(n)' \/ loading'[n] # NoProcess \/ Partial(production[n])'
      BY <2>5, <3>1 DEF SentOK, RestartDue, Partial
    <3>2. CASE m \notin attached'
      BY <3>2 DEF SentOK
    <3>3. CASE /\ production'[n].ts = production[n].ts /\ production'[n].files = production[n].files
               /\ RestartDue(n) => RestartDue(n)' \/ loading'[n] # NoProcess
               /\ loading[n] # NoProcess => loading'[n] # NoProcess
      <4>1. /\ production'[m - 1].ts = production[m - 1].ts
            /\ production'[m - 1].files = production[m - 1].files
            /\ RestartDue(m - 1) => RestartDue(m - 1)' \/ loading'[m - 1] # NoProcess
            /\ loading[m - 1] # NoProcess => loading'[m - 1] # NoProcess
        BY <2>5, <3>3 DEF RestartDue
      <4> QED
        BY <1>1, <2>2, <2>3, <4>1, SentStays DEF FilesInv
    <3> QED
      BY <2>1, <2>5, <3>1, <3>2, <3>3
  <2> QED
    BY <2>4, <2>5
<1> QED
  BY <1>2, <1>3, <1>4 DEF FilesInv

-----------------------------------------------------------------------------
(* Types                                                                     *)

\* Steps that publish nothing
LEMMA NothingPublished ==
    ASSUME published' = published, published \in Seq(Deployments)
    PROVE  Grows
BY DEF Grows

\* What the end of the node above leaves of the messages
LEMMA Lost ==
    ASSUME FileSyncTypeOK, NEW n \in Nat, LoseUpdates(n, {})
    PROVE  /\ incoming' \in [Levels -> SUBSET Directories]
           /\ n \in Levels => incoming'[n] = {}
           /\ \A m \in Levels \ {n} : /\ incoming'[m] \subseteq incoming[m]
                                      /\ m # n + 1 => incoming'[m] = incoming[m]
<1>1. incoming \in [Levels -> SUBSET Directories]
  BY DEF FileSyncTypeOK
<1>2. PICK rest \in SUBSET (IF n + 1 \in Levels THEN incoming[n + 1] ELSE {}) :
        incoming' = [m \in Levels |-> CASE m = n -> {} [] m = n + 1 -> rest [] OTHER -> incoming[m]]
  BY DEF LoseUpdates
<1>3. ASSUME NEW m \in Levels
      PROVE  incoming'[m] = IF m = n THEN {} ELSE IF m = n + 1 THEN rest ELSE incoming[m]
  BY <1>2
<1>4. n + 1 \in Levels => rest \subseteq incoming[n + 1]
  BY <1>2
<1>5. DOMAIN incoming' = Levels /\ incoming' = [m \in Levels |-> incoming'[m]]
  BY <1>2
<1>6. \A m \in Levels : incoming'[m] \subseteq Directories
  BY <1>1, <1>3, <1>4
<1>7. incoming' \in [Levels -> SUBSET Directories]
  BY <1>5, <1>6
<1> QED
  BY <1>3, <1>4, <1>7

-----------------------------------------------------------------------------
(* FilesInitially                                                                 *)

\* A directory that does not exist is one without files.
LEMMA EmptyDirectory == NoDirectory \in Directories /\ NoFiles \in [1..NumFiles -> Nat]
BY FileSyncAssumption DEF NoDirectory, Directories, NoFiles

\* A process has loaded something.
LEMMA SomeProcess == NoProcess \notin Loadable
<1>1. \A g \in Loadable : DOMAIN g = 1..NumFiles /\ 1 \in DOMAIN g
  BY FileSyncAssumption
<1>2. DOMAIN NoProcess = {}
  BY DEF NoProcess
<1> QED
  BY <1>1, <1>2

\* The invariant holds when the nodes start for the first time.
LEMMA FilesInitially == FileSyncInit => FilesInv
<1> SUFFICES ASSUME FileSyncInit PROVE FilesInv
  OBVIOUS
<1>1. FileSyncTypeOK
  BY EmptyDirectory, FileSyncAssumption DEF FileSyncInit, FileSyncTypeOK, Idle, Handlers, Levels
<1>2. CountOK
  BY FileSyncAssumption DEF FileSyncInit, CountOK
<1>3. 1 \in 1..Depth /\ \A n \in 1..Depth : production[n] = NoDirectory
  BY FileSyncAssumption DEF FileSyncInit
<1>4. Authentic(NoDirectory) /\ Partial(NoDirectory)
  BY DEF Authentic, Partial, NoDirectory
<1>5. ASSUME NEW n \in Levels PROVE NodeOK(n) /\ SentOK(n)
  <2>1. production[n] = NoDirectory /\ NoDirectory.files = NoFiles
    <3>1. n \in 1..Depth
      BY <1>1, NodeTypes
    <3> QED
      BY <1>3, <3>1 DEF NoDirectory
  <2>2. /\ incoming[n] = {} /\ handler[n].pc = "idle" /\ handler[n].stage = NoDirectory
        /\ latest[n] = NoDirectory /\ loading[n] = NoProcess /\ loaded[n] = NoFiles
        /\ n \notin attached
    BY DEF FileSyncInit, Idle
  <2>3. NoFiles \in Loadable /\ NoFiles # NoProcess
    BY FileSyncAssumption, SomeProcess
  <2> QED
    BY <1>4, <2>1, <2>2, <2>3 DEF NodeOK, AuthenticHere, CopyOK, LoadableOK, DeadOK, LoadedOK,
       ReceivedOK, SentOK
<1> QED
  BY <1>1, <1>2, <1>3, <1>4, <1>5 DEF FilesInv

-----------------------------------------------------------------------------
(* Connections                                                               *)

\* SyncLocalZoneDir() of the master: old timestamps keep their meaning, its child is cut off.
LEMMA PublishStep ==
    ASSUME FilesInv, NEW files \in Deployments, SyncLocalZoneDir(files)
    PROVE  FilesInv'
<1>1. /\ FileSyncTypeOK /\ published \in Seq(Deployments) /\ Len(published) \in Nat
      /\ faults \in 0..MaxEvents /\ MaxEvents \in Nat /\ 1 \in 1..Depth
      /\ Len(published) + faults < MaxEvents
      /\ production \in [1..Depth -> Directories]
  BY FileSyncAssumption DEF FilesInv, FileSyncTypeOK, SyncLocalZoneDir, MoreToCome
<1>2. /\ UNCHANGED <<handler, failed, requested, reload, loading, loaded, faults, forgotten, orderVars>>
      /\ attached' = attached \ {2}
      /\ \A m \in Levels : incoming'[m] \subseteq incoming[m] /\ (m # 2 => incoming'[m] = incoming[m])
      /\ incoming' \in [Levels -> SUBSET Directories]
  <2>1. 1 \notin Levels /\ 1 + 1 = 2 /\ 1 \in Nat
    BY DEF Levels
  <2> QED
    BY <1>1, <2>1, Lost DEF SyncLocalZoneDir
<1>3. /\ Grows /\ CountOK' /\ production' \in [1..Depth -> Directories]
      /\ Authentic(production[1])'
      /\ \A m \in 1..Depth \ {1} : production'[m] = production[m]
  <2>1. CASE files = NoFiles
    <3>1. published' = published /\ production' = production /\ faults' = faults
      BY <1>2, <2>1 DEF SyncLocalZoneDir
    <3>2. Authentic(production[1])'
      BY <3>1 DEF FilesInv, Authentic
    <3> QED
      BY <1>1, <3>1, <3>2, NothingPublished DEF FilesInv, CountOK
  <2>2. CASE files # NoFiles
    <3>1. PICK new : new = [exists |-> TRUE, ts |-> Len(published'), files |-> files]
      OBVIOUS
    <3>2. published' = Append(published, files) /\ production' = [production EXCEPT ![1] = new]
      BY <2>2, <3>1 DEF SyncLocalZoneDir
    <3>3. /\ published' \in Seq(Deployments) /\ Len(published') = Len(published) + 1
          /\ \A i \in 1..Len(published) : published'[i] = published[i]
          /\ published'[Len(published')] = files
      BY <1>1, <3>2
    <3>4. new \in Directories
      <4>1. Len(published') \in 0..MaxEvents /\ files \in [1..NumFiles -> Nat]
        BY <1>1, <3>3, FileSyncAssumption
      <4> QED
        BY <3>1, <4>1 DEF Directories
    <3>5. Grows /\ CountOK'
      BY <1>1, <1>2, <3>3 DEF Grows, CountOK
    <3>6. production'[1] = new /\ production' \in [1..Depth -> Directories]
      BY <1>1, <3>2, <3>4
    <3>7. Authentic(production[1])'
      BY <1>1, <3>1, <3>3, <3>6 DEF Authentic
    <3> QED
      BY <1>1, <3>2, <3>5, <3>6, <3>7
  <2> QED
    BY <2>1, <2>2
<1>4. FileSyncTypeOK'
  BY <1>1, <1>2, <1>3 DEF FileSyncTypeOK, Grows, orderVars
<1>5. ASSUME NEW m \in Levels PROVE NodeOK(m)' /\ SentOK(m)'
  <2>1. m \in 1..Depth \ {1} /\ m \in Nat /\ m - 1 \in 1..Depth /\ (m - 1 \in Levels \/ m - 1 = 1)
    BY FileSyncAssumption DEF Levels
  <2>2. Untouched(m)
    BY <1>2, <1>3, <2>1 DEF Untouched, orderVars
  <2>3. NodeOK(m)'
    BY <1>1, <1>3, <2>2, UntouchedIsOK DEF FilesInv
  <2>4. CASE m = 2
    BY <1>2, <2>3, <2>4 DEF SentOK
  <2>5. CASE m # 2
    <3>1. m - 1 \in 1..Depth \ {1} /\ m - 1 \in Levels
      BY <2>1, <2>5
    <3>2. production'[m - 1] = production[m - 1] /\ Authentic(production[m - 1])
      BY <1>3, <3>1 DEF FilesInv, NodeOK, AuthenticHere
    <3>3. SentOK(m) /\ latest'[m] = latest[m] /\ (m \in attached' => m \in attached)
      BY <1>2 DEF FilesInv, orderVars
    <3>4. RestartDue(m - 1)' = RestartDue(m - 1) /\ loading'[m - 1] = loading[m - 1]
      BY <1>2 DEF RestartDue
    <3> QED
      BY <1>1, <1>3, <2>3, <3>2, <3>3, <3>4, SentStays
  <2> QED
    BY <2>4, <2>5
<1> QED
  BY <1>3, <1>4, <1>5 DEF FilesInv

\* SendConfigUpdate(): the last update is what the node above has.
LEMMA SendStep ==
    ASSUME FilesInv, NEW n \in Levels, SendConfigUpdate(n)
    PROVE  FilesInv'
<1>1. PICK above : above = production[n - 1]
  OBVIOUS
<1>2. /\ FileSyncTypeOK /\ published \in Seq(Deployments) /\ above \in Directories
      /\ n \in Nat /\ n - 1 \in 1..Depth /\ (n - 1 \in Levels \/ n - 1 = 1)
      /\ incoming \in [Levels -> SUBSET Directories] /\ latest \in [Levels -> Directories]
  BY <1>1, NodeTypes, FileSyncAssumption DEF FilesInv, FileSyncTypeOK, Levels
<1>3. /\ loaded[n] # NoProcess /\ attached' = attached \cup {n}
      /\ incoming' = [incoming EXCEPT ![n] = @ \cup {above}]
      /\ latest' = [latest EXCEPT ![n] = above]
      /\ UNCHANGED <<production, published, handler, failed, requested, reload, loading, loaded,
                     faults, forgotten, outdated>>
  BY <1>1 DEF SendConfigUpdate
<1>4. /\ incoming'[n] = incoming[n] \cup {above} /\ latest'[n] = above
      /\ incoming' \in [Levels -> SUBSET Directories] /\ latest' \in [Levels -> Directories]
  BY <1>2, <1>3
<1>5. FileSyncTypeOK' /\ CountOK'
  BY <1>2, <1>3, <1>4 DEF FilesInv, FileSyncTypeOK, CountOK
<1>6. Grows
  BY <1>2, <1>3, NothingPublished
<1>7. Authentic(above)
  BY <1>1, <1>2 DEF FilesInv, NodeOK, AuthenticHere
<1>8. \A dir : (Authentic(dir)' <=> Authentic(dir)) /\ (Partial(dir)' <=> Partial(dir))
  BY <1>3 DEF Authentic, Partial
<1>9. NodeOK(n)'
  <2>1. NodeOK(n)
    BY DEF FilesInv
  <2>2. Authentic(production[n])' /\ Authentic(handler[n].stage)' /\ Authentic(latest[n])'
    BY <1>3, <1>4, <1>7, <2>1 DEF NodeOK, AuthenticHere, Authentic
  <2>3. \A dir \in incoming'[n] : Authentic(dir)'
    BY <1>4, <1>7, <1>8, <2>1 DEF NodeOK, AuthenticHere
  <2>4. AuthenticHere(n)'
    BY <2>2, <2>3 DEF AuthenticHere
  <2>5. CopyOK(n)' /\ LoadableOK(n)' /\ LoadedOK(n)'
    BY <1>3, <2>1 DEF NodeOK, CopyOK, LoadableOK, LoadedOK, RestartDue, Partial
  <2>6. DeadOK(n)' /\ ReceivedOK(n)'
    BY <1>3, <1>4 DEF DeadOK, ReceivedOK
  <2> QED
    BY <2>4, <2>5, <2>6 DEF NodeOK
<1>10. ASSUME NEW m \in Levels \ {n} PROVE NodeOK(m)' /\ SentOK(m)'
  <2>1. Untouched(m)
    BY <1>2, <1>3 DEF Untouched
  <2>2. SentOK(m) /\ latest'[m] = latest[m] /\ (m \in attached' <=> m \in attached)
    BY <1>2, <1>3 DEF FilesInv
  <2>3. SentOK(m)'
    BY <1>3, <2>2 DEF SentOK, RestartDue, Partial
  <2> QED
    BY <1>2, <1>6, <2>1, <2>3, UntouchedIsOK DEF FilesInv
<1>11. SentOK(n)'
  BY <1>1, <1>3, <1>4 DEF SentOK
<1>12. Authentic(production[1])'
  BY <1>3 DEF FilesInv, Authentic
<1> QED
  BY <1>5, <1>9, <1>10, <1>11, <1>12 DEF FilesInv

\* A connection breaks: the next one brings the files again.
LEMMA BreakStep ==
    ASSUME FilesInv, NEW n \in Levels, ConnectionBreaks(n)
    PROVE  FilesInv'
<1>1. /\ FileSyncTypeOK /\ published \in Seq(Deployments) /\ Len(published) \in Nat
      /\ incoming \in [Levels -> SUBSET Directories] /\ faults \in 0..MaxEvents
  BY DEF FilesInv, FileSyncTypeOK
<1>2. PICK rest \in SUBSET incoming[n] : incoming' = [incoming EXCEPT ![n] = rest]
  BY DEF ConnectionBreaks
<1>3. /\ faults' = faults + 1 /\ Len(published) + faults < MaxEvents /\ attached' = attached \ {n}
      /\ UNCHANGED <<production, published, handler, failed, requested, reload, loading, loaded,
                     forgotten, latest, outdated>>
  BY DEF ConnectionBreaks, MoreToCome, orderVars
<1>4. /\ incoming' \in [Levels -> SUBSET Directories] /\ incoming'[n] \subseteq incoming[n]
      /\ \A m \in Levels \ {n} : incoming'[m] = incoming[m]
  BY <1>1, <1>2
<1>5. FileSyncTypeOK' /\ CountOK'
  BY <1>1, <1>3, <1>4, FileSyncAssumption DEF FileSyncTypeOK, CountOK
<1>6. Grows
  BY <1>1, <1>3, NothingPublished
<1>7. \A m \in Levels : Untouched(m)
  BY <1>3, <1>4 DEF Untouched
<1>8. NodeOK(n)'
  BY <1>1, <1>6, <1>7, UntouchedIsOK DEF FilesInv
<1>9. RestartDue(n) => RestartDue(n)'
  BY <1>3 DEF RestartDue
<1> QED
  BY <1>3, <1>5, <1>6, <1>7, <1>8, <1>9, StepAt

-----------------------------------------------------------------------------
(* HandleConfigUpdate() and TryActivateZonesStage()                          *)

\* With nothing published, directories mean what they meant.
LEMMA SameMeaning ==
    ASSUME published' = published
    PROVE  \A dir : (Authentic(dir)' <=> Authentic(dir)) /\ (Partial(dir)' <=> Partial(dir))
BY DEF Authentic, Partial

\* An update that changes nothing was received before, or is not worth it.
LEMMA NoChange ==
    ASSUME NEW old \in Directories, NEW new \in Directories, Authentic(old), Authentic(new),
           ~(/\ new.exists /\ TimestampChanged(old, new)
             /\ CheckConfigChange(old, new) \/ PathRemoved(old, new))
    PROVE  \/ old.files = new.files \/ old.ts > new.ts
           \/ old.ts = new.ts /\ Partial(old)
           \/ Partial(new)
<1> SUFFICES ASSUME ~Partial(new), old.files # new.files, ~(old.ts > new.ts), ~(old.ts = new.ts /\ Partial(old))
             PROVE FALSE
  OBVIOUS
<1>1. old.ts \in Nat /\ new.ts \in Nat
  BY DEF Directories
<1>2. new.ts # 0 /\ new.exists /\ new.files = published[new.ts]
  BY DEF Partial, Authentic
<1>3. ~TimestampChanged(old, new)
  BY <1>2 DEF CheckConfigChange
<1>4. old.ts = new.ts
  BY <1>1, <1>2, <1>3 DEF TimestampChanged
<1> QED
  BY <1>2, <1>4 DEF Partial

\* HandleConfigUpdate(): the update is staged, or there is nothing to change.
LEMMA HandleStep ==
    ASSUME FilesInv, NEW n \in Levels, HandleConfigUpdate(n)
    PROVE  FilesInv'
<1>1. PICK new \in incoming[n] :
        LET old == production[n]
            change == /\ new.exists /\ TimestampChanged(old, new)
                      /\ CheckConfigChange(old, new) \/ PathRemoved(old, new)
        IN /\ incoming' = [incoming EXCEPT ![n] = @ \ {new}]
           /\ production' = [production EXCEPT ![n].exists = @ \/ new.exists]
           /\ IF change
                THEN /\ handler' = [handler EXCEPT ![n].pc = "validate", ![n].stage = new]
                     /\ UNCHANGED failed
                ELSE /\ failed' = failed \ {n}
                     /\ UNCHANGED handler
           /\ outdated' = IF latest[n] \in incoming'[n] \cup {new} THEN outdated \ {n}
                                                                   ELSE outdated \cup {n}
  BY DEF HandleConfigUpdate
<1>2. PICK old : old = production[n]
  OBVIOUS
<1> DEFINE change == /\ new.exists /\ TimestampChanged(old, new)
                     /\ CheckConfigChange(old, new) \/ PathRemoved(old, new)
<1>3. /\ FileSyncTypeOK /\ published \in Seq(Deployments) /\ n \in 1..Depth
      /\ production \in [1..Depth -> Directories] /\ old \in Directories /\ new \in Directories
      /\ incoming \in [Levels -> SUBSET Directories] /\ latest[n] \in Directories
      /\ handler \in [Levels -> Handlers]
  BY <1>1, <1>2, NodeTypes DEF FilesInv, FileSyncTypeOK
<1>4. /\ handler[n].pc = "idle"
      /\ UNCHANGED <<published, requested, reload, loading, loaded, attached, faults, forgotten, latest>>
  BY DEF HandleConfigUpdate, Idle
<1>5. /\ production' \in [1..Depth -> Directories]
      /\ production'[n].ts = old.ts /\ production'[n].files = old.files
      /\ production'[n].exists = (old.exists \/ new.exists)
      /\ \A m \in 1..Depth \ {n} : production'[m] = production[m]
  <2>1. production' = [production EXCEPT ![n] = [old EXCEPT !.exists = @ \/ new.exists]]
    BY <1>1, <1>2, <1>3
  <2>2. PICK dir : dir = [old EXCEPT !.exists = @ \/ new.exists]
    OBVIOUS
  <2>3. /\ dir \in Directories /\ dir.ts = old.ts /\ dir.files = old.files
        /\ dir.exists = (old.exists \/ new.exists)
    BY <1>3, <2>2 DEF Directories
  <2> QED
    BY <1>3, <2>1, <2>2, <2>3
<1>6. /\ incoming'[n] = incoming[n] \ {new} /\ incoming' \in [Levels -> SUBSET Directories]
      /\ \A m \in Levels \ {n} : incoming'[m] = incoming[m]
  BY <1>1, <1>3
<1>7. /\ handler' \in [Levels -> Handlers]
      /\ \A m \in Levels \ {n} : handler'[m] = handler[m]
      /\ change => handler'[n].pc = "validate" /\ handler'[n].stage = new
      /\ ~change => handler' = handler
  <2>1. CASE change
    BY <1>1, <1>2, <1>3, <2>1 DEF Handlers
  <2>2. CASE ~change
    BY <1>1, <1>2, <1>3, <2>2
  <2> QED
    BY <2>1, <2>2
<1>8. /\ \A m \in Levels \ {n} : (m \in failed' <=> m \in failed) /\ (m \in outdated' <=> m \in outdated)
      /\ failed' \subseteq failed
      /\ outdated' = IF latest[n] \in incoming'[n] \cup {new} THEN outdated \ {n} ELSE outdated \cup {n}
  BY <1>1
<1> HIDE DEF change
<1>9. FileSyncTypeOK' /\ CountOK' /\ Grows
  <2>1. outdated' \subseteq Levels
    BY <1>3, <1>8 DEF FileSyncTypeOK
  <2> QED
    BY <1>3, <1>4, <1>5, <1>6, <1>7, <1>8, <2>1, NothingPublished DEF FilesInv, FileSyncTypeOK, CountOK
<1>10. \A m \in Levels \ {n} : Untouched(m)
  <2>1. Levels \ {n} \subseteq 1..Depth \ {n}
    BY DEF Levels
  <2> QED
    BY <1>4, <1>5, <1>6, <1>7, <1>8, <2>1 DEF Untouched
<1>11. NodeOK(n)'
  <2>1. NodeOK(n) /\ Authentic(old) /\ Authentic(new)
    BY <1>1, <1>2 DEF FilesInv, NodeOK, AuthenticHere
  <2>2. Authentic(production[n])'
    BY <1>4, <1>5, <2>1 DEF Authentic
  <2>3. Authentic(handler[n].stage)' /\ Authentic(latest[n])'
    BY <1>4, <1>7, <2>1, SameMeaning DEF NodeOK, AuthenticHere, Authentic
  <2>4. AuthenticHere(n)'
    BY <1>4, <1>6, <2>1, <2>2, <2>3, SameMeaning DEF NodeOK, AuthenticHere
  <2>5. handler'[n].pc \in {"idle", "validate"}
    BY <1>4, <1>7
  <2>6. CopyOK(n)' /\ DeadOK(n)'
    BY <1>1, <1>4, <2>1, <2>5 DEF NodeOK, CopyOK, DeadOK
  <2>7. Partial(production[n])' <=> Partial(old)
    BY <1>4, <1>5 DEF Partial
  <2>8. LoadableOK(n)' /\ LoadedOK(n)'
    BY <1>2, <1>4, <1>5, <2>1, <2>5, <2>7 DEF NodeOK, LoadableOK, LoadedOK, RestartDue
  <2>9. ReceivedOK(n)'
    <3> SUFFICES ASSUME n \in attached', n \notin outdated', latest'[n] \notin incoming'[n]
                 PROVE  /\ handler'[n].pc = "idle" => n \in failed' \/ Got(n)'
                        /\ handler'[n].pc # "idle" => handler'[n].stage = latest'[n]
      BY DEF ReceivedOK
    <3>1. new = latest[n] /\ latest'[n] = latest[n]
      BY <1>4, <1>8
    <3>2. CASE change
      BY <1>7, <3>1, <3>2
    <3>3. CASE ~change
      <4>1. \/ old.files = new.files \/ old.ts > new.ts
            \/ old.ts = new.ts /\ Partial(old)
            \/ Partial(new)
        BY <1>3, <2>1, <3>3, NoChange DEF change
      <4>2. Partial(latest[n])' <=> Partial(new)
        BY <1>4, <3>1 DEF Partial
      <4>3. Got(n)'
        BY <1>5, <2>7, <3>1, <4>1, <4>2 DEF Got
      <4> QED
        BY <1>4, <1>7, <3>3, <4>3
    <3> QED
      BY <3>2, <3>3
  <2> QED
    BY <2>4, <2>6, <2>8, <2>9 DEF NodeOK
<1>12. RestartDue(n) => RestartDue(n)'
  BY <1>4 DEF RestartDue
<1> QED
  BY <1>2, <1>4, <1>5, <1>9, <1>10, <1>11, <1>12, StepAt

\* A step of the thread of node n that ends neither a process nor a connection
LEMMA ThreadAt ==
    ASSUME FilesInv, NEW n \in Levels, NEW dir \in Directories, NEW h \in Handlers,
           production' = [production EXCEPT ![n] = dir], handler' = [handler EXCEPT ![n] = h],
           CountOK', faults' \in 0..MaxEvents,
           failed' \in {failed, failed \cup {n}, failed \ {n}},
           requested' \in {requested, requested \cup {n}},
           forgotten' \in {forgotten, forgotten \cup {n}},
           UNCHANGED <<published, incoming, reload, loading, loaded, attached, latest, outdated>>,
           /\ Authentic(dir) /\ Authentic(h.stage)
           /\ CopyOK(n)' /\ LoadableOK(n)' /\ LoadedOK(n)' /\ ReceivedOK(n)',
           handler[n].pc # "idle",
           \/ dir = production[n] /\ (RestartDue(n) => RestartDue(n)')
           \/ RestartDue(n)' \/ Partial(dir)
    PROVE  FilesInv'
<1>1. /\ FileSyncTypeOK /\ published \in Seq(Deployments) /\ n \in 1..Depth
      /\ production \in [1..Depth -> Directories] /\ handler \in [Levels -> Handlers]
  BY NodeTypes DEF FilesInv, FileSyncTypeOK
<1>2. /\ production'[n] = dir /\ production' \in [1..Depth -> Directories]
      /\ \A m \in 1..Depth \ {n} : production'[m] = production[m]
      /\ handler'[n] = h /\ handler' \in [Levels -> Handlers]
      /\ \A m \in Levels \ {n} : handler'[m] = handler[m]
  BY <1>1
<1>3. FileSyncTypeOK' /\ Grows
  BY <1>1, <1>2, NothingPublished DEF FileSyncTypeOK
<1>4. \A m \in Levels \ {n} : Untouched(m)
  <2>1. Levels \ {n} \subseteq 1..Depth \ {n}
    BY DEF Levels
  <2> QED
    BY <1>2, <2>1 DEF Untouched
<1>5. NodeOK(n)'
  <2>1. NodeOK(n)
    BY DEF FilesInv
  <2>2. Authentic(production[n])' /\ Authentic(handler[n].stage)' /\ Authentic(latest[n])'
    BY <1>2, <2>1 DEF NodeOK, AuthenticHere, Authentic
  <2>3. AuthenticHere(n)'
    BY <2>1, <2>2, SameMeaning DEF NodeOK, AuthenticHere
  <2>4. DeadOK(n)'
    BY <2>1 DEF NodeOK, DeadOK
  <2> QED
    BY <2>3, <2>4 DEF NodeOK
<1>6. Partial(production[n])' <=> Partial(dir)
  BY <1>2 DEF Partial
<1> QED
  BY <1>2, <1>3, <1>4, <1>5, <1>6, StepAt

\* The validating process of TryActivateZonesStage() ends.
LEMMA ValidateStep ==
    ASSUME FilesInv, NEW n \in Levels, StageValidated(n) \/ StageRejected(n)
    PROVE  FilesInv'
<1>1. /\ FileSyncTypeOK /\ production \in [1..Depth -> Directories] /\ handler \in [Levels -> Handlers]
      /\ production[n] \in Directories /\ handler[n] \in Handlers /\ n \in 1..Depth
      /\ NodeOK(n) /\ CountOK /\ faults \in 0..MaxEvents
  BY NodeTypes DEF FilesInv, FileSyncTypeOK
<1>2. /\ handler[n].pc = "validate"
      /\ UNCHANGED <<production, published, incoming, requested, reload, loading, loaded,
                     attached, faults, forgotten, latest, outdated>>
      /\ failed' \in {failed, failed \cup {n}}
  BY DEF StageValidated, StageRejected, orderVars
<1>3. PICK h \in Handlers :
        /\ handler' = [handler EXCEPT ![n] = h] /\ Authentic(h.stage)
        /\ \/ h.pc = "purge" /\ h.stage = handler[n].stage /\ h.stage.files \in Loadable
           \/ h.pc = "idle" /\ n \in failed'
  <2>1. CASE StageValidated(n)
    <3>1. PICK h : h = [handler[n] EXCEPT !.pc = "purge"]
      OBVIOUS
    <3>2. h \in Handlers /\ h.pc = "purge" /\ h.stage = handler[n].stage
      BY <1>1, <3>1 DEF Handlers
    <3>3. handler' = [handler EXCEPT ![n] = h] /\ h.stage.files \in Loadable
      BY <1>1, <2>1, <3>1, <3>2 DEF StageValidated
    <3> QED
      BY <1>1, <3>2, <3>3 DEF NodeOK, AuthenticHere
  <2>2. CASE StageRejected(n)
    <3>1. Idle \in Handlers /\ Idle.pc = "idle" /\ Authentic(Idle.stage)
      BY EmptyDirectory DEF Idle, Handlers, Authentic, NoDirectory
    <3> QED
      BY <2>2, <3>1 DEF StageRejected
  <2> QED
    BY <2>1, <2>2
<1>4. handler'[n] = h /\ production'[n] = production[n]
  BY <1>1, <1>2, <1>3
<1>5. production' = [production EXCEPT ![n] = production[n]]
  BY <1>1, <1>2
<1>6. CopyOK(n)'
  BY <1>3, <1>4 DEF CopyOK
<1>7. LoadableOK(n)' /\ LoadedOK(n)'
  BY <1>1, <1>2, <1>3, <1>4 DEF NodeOK, LoadableOK, LoadedOK, RestartDue, Partial
<1>8. ReceivedOK(n)'
  BY <1>1, <1>2, <1>3, <1>4 DEF NodeOK, ReceivedOK
<1>9. RestartDue(n) => RestartDue(n)'
  BY <1>2 DEF RestartDue
<1>10. Authentic(production[n]) /\ CountOK'
  BY <1>1, <1>2 DEF NodeOK, AuthenticHere, CountOK
<1> QED
  BY <1>1, <1>2, <1>3, <1>5, <1>6, <1>7, <1>8, <1>9, <1>10, ThreadAt

\* The production directory is purged.
LEMMA PurgeStep ==
    ASSUME FilesInv, NEW n \in Levels, PurgeProduction(n)
    PROVE  FilesInv'
<1>1. /\ FileSyncTypeOK /\ production \in [1..Depth -> Directories] /\ handler \in [Levels -> Handlers]
      /\ handler[n] \in Handlers /\ handler[n].stage \in Directories /\ n \in 1..Depth
      /\ NodeOK(n) /\ CountOK /\ faults \in 0..MaxEvents
  BY NodeTypes DEF FilesInv, FileSyncTypeOK
<1>2. PICK h : h = [handler[n] EXCEPT !.pc = "copy", !.todo = PathsOf(handler[n].stage)]
  OBVIOUS
<1>3. PathsOf(handler[n].stage) \in SUBSET (0..NumFiles)
  BY FileSyncAssumption DEF PathsOf
<1>4. /\ h \in Handlers /\ h.pc = "copy" /\ h.stage = handler[n].stage
      /\ h.todo = PathsOf(handler[n].stage)
  BY <1>1, <1>2, <1>3 DEF Handlers
<1>5. /\ handler[n].pc = "purge" /\ handler' = [handler EXCEPT ![n] = h]
      /\ production' = [production EXCEPT ![n] = NoDirectory]
      /\ UNCHANGED <<published, incoming, failed, requested, reload, loading, loaded, attached,
                     faults, forgotten, latest, outdated>>
  BY <1>1, <1>2 DEF PurgeProduction, orderVars
<1>6. handler'[n] = h /\ production'[n] = NoDirectory
  BY <1>1, <1>5
<1>7. CopyOK(n)'
  <2>1. h.stage.files \in Loadable
    BY <1>1, <1>4, <1>5 DEF NodeOK, CopyOK
  <2>2. NoDirectory.ts = 0 /\ \A f \in 1..NumFiles : NoDirectory.files[f] = 0
    BY DEF NoDirectory, NoFiles
  <2>3. /\ 0 \notin h.todo => h.stage.ts = 0
        /\ \A f \in 1..NumFiles : f \in h.todo <=> h.stage.files[f] # 0
    BY <1>4, FileSyncAssumption DEF PathsOf
  <2>4. \A f \in h.todo \ {0} : f \in 1..NumFiles
    BY <1>3, <1>4, FileSyncAssumption
  <2> QED
    BY <1>6, <2>1, <2>2, <2>3, <2>4 DEF CopyOK
<1>8. RestartDue(n)' /\ LoadableOK(n)'
  BY <1>4, <1>6 DEF RestartDue, LoadableOK
<1>9. LoadedOK(n)'
  BY <1>8 DEF LoadedOK
<1>10. ReceivedOK(n)'
  BY <1>1, <1>4, <1>5, <1>6 DEF NodeOK, ReceivedOK
<1>11. NoDirectory \in Directories /\ Authentic(NoDirectory) /\ Authentic(h.stage) /\ CountOK'
  BY <1>1, <1>4, <1>5, EmptyDirectory DEF NodeOK, AuthenticHere, CountOK, Authentic, NoDirectory
<1> QED
  BY <1>1, <1>4, <1>5, <1>7, <1>8, <1>9, <1>10, <1>11, ThreadAt

\* One file is copied from the stage.
LEMMA CopyStep ==
    ASSUME FilesInv, NEW n \in Levels, CopyFile(n)
    PROVE  FilesInv'
<1>1. PICK old, stage : old = production[n] /\ stage = handler[n].stage
  OBVIOUS
<1>2. /\ FileSyncTypeOK /\ production \in [1..Depth -> Directories] /\ handler \in [Levels -> Handlers]
      /\ handler[n] \in Handlers /\ stage \in Directories /\ old \in Directories /\ n \in 1..Depth
      /\ NodeOK(n) /\ CountOK /\ faults \in 0..MaxEvents
  BY <1>1, NodeTypes DEF FilesInv, FileSyncTypeOK
<1>3. PICK path \in handler[n].todo :
        /\ production' = [production EXCEPT ![n] =
              IF path = 0 THEN [@ EXCEPT !.exists = TRUE, !.ts = stage.ts]
              ELSE [@ EXCEPT !.exists = TRUE, !.files[path] = stage.files[path]]]
        /\ handler' = [handler EXCEPT ![n].todo = @ \ {path}]
  BY <1>1 DEF CopyFile
<1>4. /\ handler[n].pc = "copy"
      /\ UNCHANGED <<published, incoming, failed, requested, reload, loading, loaded, attached,
                     faults, forgotten, latest, outdated>>
  BY DEF CopyFile, orderVars
<1>5. path \in 0..NumFiles
  BY <1>2, <1>3 DEF Handlers
<1>6. PICK h : h = [handler[n] EXCEPT !.todo = @ \ {path}]
  OBVIOUS
<1>7. /\ h \in Handlers /\ h.pc = "copy" /\ h.stage = stage /\ h.todo = handler[n].todo \ {path}
      /\ handler' = [handler EXCEPT ![n] = h] /\ handler'[n] = h
  BY <1>1, <1>2, <1>3, <1>4, <1>6 DEF Handlers
<1>8. PICK dir : dir = IF path = 0 THEN [old EXCEPT !.exists = TRUE, !.ts = stage.ts]
                       ELSE [old EXCEPT !.exists = TRUE, !.files[path] = stage.files[path]]
  OBVIOUS
<1>9. /\ dir \in Directories /\ dir.exists
      /\ dir.ts = IF path = 0 THEN stage.ts ELSE old.ts
      /\ \A f \in 1..NumFiles : dir.files[f] = IF f = path THEN stage.files[f] ELSE old.files[f]
  <2>1. CASE path = 0
    <3>1. dir = [exists |-> TRUE, ts |-> stage.ts, files |-> old.files]
      BY <1>2, <1>8, <2>1 DEF Directories
    <3>2. old.files \in [1..NumFiles -> Nat] /\ stage.ts \in 0..MaxEvents
      BY <1>2 DEF Directories
    <3>3. \A f \in 1..NumFiles : f # path
      BY <2>1, FileSyncAssumption
    <3> QED
      BY <2>1, <3>1, <3>2, <3>3 DEF Directories
  <2>2. CASE path # 0
    <3>1. path \in 1..NumFiles
      BY <1>5, <2>2, FileSyncAssumption
    <3>2. dir = [exists |-> TRUE, ts |-> old.ts, files |-> [old.files EXCEPT ![path] = stage.files[path]]]
      BY <1>2, <1>8, <2>2 DEF Directories
    <3>3. old.files \in [1..NumFiles -> Nat] /\ stage.files \in [1..NumFiles -> Nat] /\ old.ts \in 0..MaxEvents
      BY <1>2 DEF Directories
    <3>4. [old.files EXCEPT ![path] = stage.files[path]] \in [1..NumFiles -> Nat]
      BY <3>1, <3>3
    <3> QED
      BY <2>2, <3>1, <3>2, <3>3, <3>4 DEF Directories
  <2> QED
    BY <2>1, <2>2
<1>10. production' = [production EXCEPT ![n] = dir] /\ production'[n] = dir
  BY <1>1, <1>2, <1>3, <1>8
<1>11. /\ stage.files \in Loadable
       /\ old.ts = IF 0 \in handler[n].todo THEN 0 ELSE stage.ts
       /\ \A f \in 1..NumFiles : old.files[f] = IF f \in handler[n].todo THEN 0 ELSE stage.files[f]
       /\ \A f \in handler[n].todo \ {0} : stage.files[f] # 0
  BY <1>1, <1>2, <1>4 DEF NodeOK, CopyOK
<1>12. /\ dir.ts = IF 0 \in h.todo THEN 0 ELSE stage.ts
       /\ \A f \in 1..NumFiles : dir.files[f] = IF f \in h.todo THEN 0 ELSE stage.files[f]
  BY <1>3, <1>7, <1>9, <1>11
<1>13. CopyOK(n)'
  BY <1>7, <1>10, <1>11, <1>12 DEF CopyOK
<1>14. RestartDue(n)' /\ LoadableOK(n)'
  BY <1>7 DEF RestartDue, LoadableOK
<1>15. LoadedOK(n)'
  BY <1>14 DEF LoadedOK
<1>16. ReceivedOK(n)'
  BY <1>1, <1>2, <1>4, <1>7 DEF NodeOK, ReceivedOK
<1>17. Authentic(h.stage) /\ Authentic(dir) /\ CountOK'
  <2>1. Authentic(stage)
    BY <1>1, <1>2 DEF NodeOK, AuthenticHere
  <2>2. dir.ts # 0 => dir.ts = stage.ts
    BY <1>12
  <2>3. Authentic(dir)
    BY <1>9, <1>12, <2>1, <2>2 DEF Authentic
  <2> QED
    BY <1>2, <1>4, <1>7, <2>1, <2>3 DEF CountOK
<1> QED
  BY <1>2, <1>4, <1>7, <1>9, <1>10, <1>13, <1>14, <1>15, <1>16, <1>17, ThreadAt

\* Two directories with the same files
LEMMA SameFiles ==
    ASSUME NEW g \in [1..NumFiles -> Nat], NEW h \in [1..NumFiles -> Nat],
           \A f \in 1..NumFiles : g[f] = h[f]
    PROVE  g = h
<1>1. g = [f \in 1..NumFiles |-> g[f]] /\ h = [f \in 1..NumFiles |-> h[f]]
  OBVIOUS
<1>2. [f \in 1..NumFiles |-> g[f]] = [f \in 1..NumFiles |-> h[f]]
  OBVIOUS
<1> QED
  BY <1>1, <1>2

\* What was copied is loadable once all of it was published with its timestamp.
LEMMA CopiedSoFar ==
    ASSUME FileSyncTypeOK, NEW n \in Levels, NodeOK(n), handler[n].pc = "copy"
    PROVE  /\ production[n].files \in Loadable \/ Partial(production[n])
           /\ handler[n].todo # {} => Partial(production[n])
           /\ handler[n].todo = {} => production[n].files = handler[n].stage.files
<1>1. PICK dir, stage : dir = production[n] /\ stage = handler[n].stage
  OBVIOUS
<1>2. dir \in Directories /\ stage \in Directories /\ Authentic(stage) /\ handler[n].todo \subseteq 0..NumFiles
  BY <1>1, NodeTypes DEF NodeOK, AuthenticHere, FileSyncTypeOK, Handlers
<1>3. /\ stage.files \in Loadable
      /\ dir.ts = IF 0 \in handler[n].todo THEN 0 ELSE stage.ts
      /\ \A f \in 1..NumFiles : dir.files[f] = IF f \in handler[n].todo THEN 0 ELSE stage.files[f]
      /\ \A f \in handler[n].todo \ {0} : stage.files[f] # 0
  BY <1>1 DEF NodeOK, CopyOK
<1>4. dir.files \in [1..NumFiles -> Nat] /\ stage.files \in [1..NumFiles -> Nat]
  BY <1>2 DEF Directories
<1>5. ASSUME ~Partial(dir), NEW f \in 1..NumFiles PROVE f \notin handler[n].todo
  <2>1. dir.ts = stage.ts /\ dir.ts # 0 /\ dir.files = published[stage.ts]
    BY <1>3, <1>5 DEF Partial
  <2>2. stage.files[f] \in {0, dir.files[f]}
    BY <1>2, <2>1 DEF Authentic
  <2>3. f # 0
    BY FileSyncAssumption
  <2> QED
    BY <1>3, <2>2, <2>3
<1>6. ASSUME \A f \in 1..NumFiles : f \notin handler[n].todo PROVE dir.files = stage.files
  <2>1. PICK g, h : g = dir.files /\ h = stage.files
    OBVIOUS
  <2>2. \A f \in 1..NumFiles : g[f] = h[f]
    BY <1>3, <1>6, <2>1
  <2>3. g \in [1..NumFiles -> Nat] /\ h \in [1..NumFiles -> Nat]
    BY <1>4, <2>1
  <2>4. g = h
    BY <2>2, <2>3, SameFiles
  <2> QED
    BY <2>1, <2>4
<1>7. handler[n].todo # {} => Partial(dir)
  <2> SUFFICES ASSUME NEW p \in handler[n].todo, ~Partial(dir) PROVE FALSE
    OBVIOUS
  <2>1. p = 0 \/ p \in 1..NumFiles
    BY <1>2, FileSyncAssumption
  <2> QED
    BY <1>3, <1>5, <2>1 DEF Partial
<1> QED
  BY <1>1, <1>3, <1>5, <1>6, <1>7

\* Everything is copied, or the rest is not.
LEMMA CopyEnds ==
    ASSUME FilesInv, NEW n \in Levels, CopyFails(n) \/ StageActivated(n)
    PROVE  FilesInv'
<1>1. /\ FileSyncTypeOK /\ production \in [1..Depth -> Directories] /\ handler \in [Levels -> Handlers]
      /\ production[n] \in Directories /\ n \in 1..Depth /\ NodeOK(n) /\ CountOK
      /\ faults \in 0..MaxEvents /\ Len(published) \in Nat /\ published \in Seq(Deployments)
  BY NodeTypes DEF FilesInv, FileSyncTypeOK
<1>2. /\ handler[n].pc = "copy" /\ handler' = [handler EXCEPT ![n] = Idle]
      /\ UNCHANGED <<production, published, incoming, reload, loading, loaded, attached, latest, outdated>>
      /\ failed' \in {failed \cup {n}, failed \ {n}}
      /\ requested' \in {requested, requested \cup {n}}
      /\ forgotten' \in {forgotten, forgotten \cup {n}}
  BY DEF CopyFails, StageActivated, orderVars
<1>3. faults' \in 0..MaxEvents /\ CountOK'
  <2>1. CASE CopyFails(n)
    BY <1>1, <1>2, <2>1, FileSyncAssumption DEF CopyFails, MoreToCome, CountOK
  <2>2. CASE StageActivated(n)
    BY <1>1, <1>2, <2>2 DEF StageActivated, CountOK
  <2> QED
    BY <2>1, <2>2
<1>4. Idle \in Handlers /\ Idle.pc = "idle" /\ Authentic(Idle.stage)
  BY EmptyDirectory DEF Idle, Handlers, Authentic, NoDirectory
<1>5. /\ handler'[n].pc = "idle" /\ production'[n] = production[n]
      /\ production' = [production EXCEPT ![n] = production[n]]
  BY <1>1, <1>2, <1>4
<1>6. CopyOK(n)'
  BY <1>5 DEF CopyOK
<1>7. Partial(production[n])' <=> Partial(production[n])
  BY <1>2 DEF Partial
<1>8. CASE CopyFails(n)
  <2>1. Partial(production[n]) /\ n \in failed' /\ n \in forgotten'
    BY <1>1, <1>2, <1>8, CopiedSoFar DEF CopyFails
  <2>2. LoadableOK(n)' /\ LoadedOK(n)' /\ ReceivedOK(n)'
    BY <1>5, <1>7, <2>1 DEF LoadableOK, LoadedOK, ReceivedOK
  <2>3. Authentic(production[n])
    BY <1>1 DEF NodeOK, AuthenticHere
  <2> QED
    BY <1>1, <1>2, <1>3, <1>4, <1>5, <1>6, <2>1, <2>2, <2>3, ThreadAt
<1>9. CASE StageActivated(n)
  <2>1. n \in requested' /\ production[n].files = handler[n].stage.files
    BY <1>1, <1>2, <1>9, CopiedSoFar DEF StageActivated
  <2>2. RestartDue(n)'
    BY <2>1 DEF RestartDue
  <2>3. LoadableOK(n)'
    BY <1>1, <1>2, <1>5, <2>1 DEF NodeOK, CopyOK, LoadableOK
  <2>4. LoadedOK(n)'
    BY <2>2 DEF LoadedOK
  <2>5. ReceivedOK(n)'
    BY <1>1, <1>2, <1>5, <2>1 DEF NodeOK, ReceivedOK, Got
  <2>6. Authentic(production[n])
    BY <1>1 DEF NodeOK, AuthenticHere
  <2> QED
    BY <1>1, <1>2, <1>3, <1>4, <1>5, <1>6, <2>2, <2>3, <2>4, <2>5, <2>6, ThreadAt
<1> QED
  BY <1>8, <1>9

-----------------------------------------------------------------------------
(* Processes                                                                 *)

\* The restart comes: requested by the thread or by hand, and the new worker loads.
LEMMA ReloadStep ==
    ASSUME FilesInv, NEW n \in Levels, ForwardRequest(n) \/ ReloadByHand(n) \/ LoadConfigFiles(n)
    PROVE  FilesInv'
<1>1. /\ FileSyncTypeOK /\ NodeOK(n) /\ CountOK /\ n \in 1..Depth
      /\ faults \in 0..MaxEvents /\ Len(published) \in Nat /\ published \in Seq(Deployments)
      /\ loading \in [Levels -> Loadable \cup {NoProcess}]
  BY NodeTypes DEF FilesInv, FileSyncTypeOK
<1>2. /\ UNCHANGED <<production, published, incoming, handler, failed, loaded, attached, latest, outdated>>
      /\ \A m \in Levels \ {n} : /\ (m \in requested' <=> m \in requested) /\ (m \in reload' <=> m \in reload)
                                 /\ (m \in forgotten' <=> m \in forgotten) /\ loading'[m] = loading[m]
      /\ requested' \subseteq Levels /\ reload' \subseteq Levels /\ forgotten' \subseteq Levels
      /\ loading' \in [Levels -> Loadable \cup {NoProcess}]
  BY <1>1 DEF ForwardRequest, ReloadByHand, LoadConfigFiles, orderVars, FileSyncTypeOK
<1>3. faults' \in 0..MaxEvents /\ CountOK'
  BY <1>1, FileSyncAssumption DEF ForwardRequest, ReloadByHand, LoadConfigFiles, MoreToCome, CountOK
<1>4. FileSyncTypeOK' /\ Grows
  BY <1>1, <1>2, <1>3, NothingPublished DEF FileSyncTypeOK
<1>5. \A m \in Levels \ {n} : Untouched(m)
  BY <1>2 DEF Untouched
<1>6. /\ loaded[n] # NoProcess
      /\ \/ /\ loading'[n] = loading[n] /\ RestartDue(n)'
            /\ n \in forgotten' <=> n \in forgotten
         \/ /\ loading[n] = NoProcess /\ loading'[n] = production[n].files
            /\ production[n].files \in Loadable
         \/ /\ loading'[n] = loading[n] /\ loading[n] = NoProcess
            /\ (n \in forgotten' <=> n \in forgotten) /\ production[n].files \notin Loadable
  <2>1. CASE ForwardRequest(n)
    BY <1>1, <2>1 DEF ForwardRequest, RestartDue, NodeOK, DeadOK
  <2>2. CASE ReloadByHand(n)
    BY <2>2 DEF ReloadByHand, RestartDue
  <2>3. CASE LoadConfigFiles(n)
    BY <1>1, <2>3 DEF LoadConfigFiles, NodeOK, DeadOK
  <2> QED
    BY <2>1, <2>2, <2>3
<1>7. \A g \in Loadable : g # NoProcess
  BY SomeProcess
<1>8. production[n].files \notin Loadable =>
         handler[n].pc = "copy" \/ (Partial(production[n]) /\ n \in forgotten)
  BY <1>1, <1>6 DEF NodeOK, LoadableOK
<1>9. NodeOK(n)'
  <2>1. AuthenticHere(n)' /\ CopyOK(n)'
    BY <1>1, <1>2 DEF NodeOK, AuthenticHere, Authentic, CopyOK
  <2>2. LoadableOK(n)'
    BY <1>2, <1>6, <1>8 DEF LoadableOK, Partial
  <2>3. DeadOK(n)'
    BY <1>2, <1>6 DEF DeadOK
  <2>4. LoadedOK(n)'
    BY <1>2, <1>6, <1>7, <1>8 DEF LoadedOK, RestartDue
  <2>5. ReceivedOK(n)'
    BY <1>1, <1>2 DEF NodeOK, ReceivedOK, Got, Partial
  <2> QED
    BY <2>1, <2>2, <2>3, <2>4, <2>5 DEF NodeOK
<1>10. \/ RestartDue(n)' \/ loading'[n] # NoProcess \/ Partial(production[n])'
  BY <1>2, <1>6, <1>7, <1>8 DEF RestartDue, Partial
<1> QED
  BY <1>2, <1>3, <1>4, <1>5, <1>9, <1>10, StepAt

\* What is left of a directory is a part of it; if it cannot be loaded, a part of what was
\* published.
LEMMA RemainsOK ==
    ASSUME FileSyncTypeOK, NEW n \in Levels, NodeOK(n), NEW dir \in Remains(n)
    PROVE  /\ dir \in Directories /\ Authentic(dir)
           /\ dir.files \in Loadable \/ Partial(dir)
           /\ handler[n].pc # "purge" => dir = production[n]
<1>1. PICK old : old = production[n]
  OBVIOUS
<1>2. old \in Directories /\ Authentic(old)
  BY <1>1, NodeTypes DEF NodeOK, AuthenticHere
<1>3. CASE handler[n].pc # "purge"
  <2>1. dir = old
    BY <1>1, <1>3 DEF Remains
  <2>2. old.files \in Loadable \/ Partial(old)
    <3>1. CASE handler[n].pc = "copy"
      BY <1>1, <3>1, CopiedSoFar
    <3>2. CASE handler[n].pc # "copy"
      BY <1>1, <3>2 DEF NodeOK, LoadableOK
    <3> QED
      BY <3>1, <3>2
  <2> QED
    BY <1>1, <1>2, <2>1, <2>2
<1>4. CASE handler[n].pc = "purge"
  <2>1. PICK ts \in {0, old.ts}, kept \in SUBSET (1..NumFiles) :
          dir = Remainder(old, ts, kept)
    BY <1>1, <1>4 DEF Remains
  <2>2. /\ old.files \in [1..NumFiles -> Nat] /\ old.ts \in 0..MaxEvents /\ MaxEvents \in Nat
        /\ old.exists \in BOOLEAN
    BY <1>2, FileSyncAssumption DEF Directories
  <2>3. PICK files : files = [f \in 1..NumFiles |-> IF f \in kept THEN old.files[f] ELSE 0]
    OBVIOUS
  <2>4. dir = [exists |-> old.exists, ts |-> ts, files |-> files]
    BY <2>1, <2>3 DEF Remainder
  <2>5. files \in [1..NumFiles -> Nat] /\ \A f \in 1..NumFiles : files[f] \in {0, old.files[f]}
    BY <2>2, <2>3
  <2>6. /\ dir \in Directories /\ dir.exists = old.exists /\ dir.ts \in {0, old.ts}
        /\ dir.files = files
    <3>1. ts \in 0..MaxEvents /\ ts \in {0, old.ts}
      BY <2>1, <2>2
    <3>2. dir.exists = old.exists /\ dir.ts = ts /\ dir.files = files
      BY <2>4
    <3>3. dir \in Directories
      BY <2>2, <2>4, <2>5, <3>1 DEF Directories
    <3> QED
      BY <3>1, <3>2, <3>3
  <2>7. Authentic(dir)
    BY <1>2, <2>5, <2>6 DEF Authentic
  <2>8. ASSUME ~Partial(dir) PROVE dir.files \in Loadable
    <3>1. dir.ts = old.ts /\ old.ts # 0 /\ files = published[old.ts]
      BY <2>6, <2>8 DEF Partial
    <3>2. \A f \in 1..NumFiles : old.files[f] \in {0, files[f]}
      BY <1>2, <3>1 DEF Authentic
    <3>3. \A f \in 1..NumFiles : files[f] = old.files[f]
      BY <2>5, <3>2
    <3>4. PICK other : other = old.files
      OBVIOUS
    <3>5. files = other
      BY <2>2, <2>5, <3>3, <3>4, SameFiles
    <3>6. ~Partial(old)
      BY <3>1, <3>4, <3>5 DEF Partial
    <3> QED
      BY <1>1, <1>4, <2>6, <3>4, <3>5, <3>6 DEF NodeOK, LoadableOK
  <2> QED
    BY <1>4, <2>6, <2>7, <2>8
<1> QED
  BY <1>3, <1>4

\* A worker ends: it is replaced or killed.
LEMMA EndStep ==
    ASSUME FilesInv, NEW n \in Levels, TakeOver(n) \/ Crash(n)
    PROVE  FilesInv'
<1>1. /\ FileSyncTypeOK /\ NodeOK(n) /\ CountOK /\ n \in 1..Depth /\ n \in Nat
      /\ faults \in 0..MaxEvents /\ Len(published) \in Nat /\ published \in Seq(Deployments)
      /\ loading \in [Levels -> Loadable \cup {NoProcess}] /\ loaded \in [Levels -> Loadable \cup {NoProcess}]
      /\ production \in [1..Depth -> Directories] /\ handler \in [Levels -> Handlers]
  BY NodeTypes DEF FilesInv, FileSyncTypeOK
<1>2. /\ handler' = [handler EXCEPT ![n] = Idle] /\ attached' = attached \ {n, n + 1}
      /\ LoseUpdates(n, {}) /\ requested' = requested \ {n}
      /\ UNCHANGED <<published, latest, outdated>>
  BY DEF TakeOver, Crash, EndProcess, orderVars
<1>3. /\ incoming' \in [Levels -> SUBSET Directories] /\ incoming'[n] = {}
      /\ \A m \in Levels \ {n} : /\ incoming'[m] \subseteq incoming[m]
                                 /\ m # n + 1 => incoming'[m] = incoming[m]
  BY <1>1, <1>2, Lost
<1>4. PICK dir \in Remains(n) :
        /\ production' = [production EXCEPT ![n] = dir]
        /\ \/ /\ TakeOver(n)
              /\ loading[n] # NoProcess /\ loaded'[n] = loading[n]
           \/ /\ Crash(n)
              /\ loaded'[n] = IF dir.files \in Loadable THEN dir.files ELSE NoProcess
  BY <1>1 DEF TakeOver, Crash
<1>5. /\ dir \in Directories /\ Authentic(dir) /\ (dir.files \in Loadable \/ Partial(dir))
      /\ handler[n].pc # "purge" => dir = production[n]
  BY <1>1, RemainsOK
<1>6. /\ production'[n] = dir /\ production' \in [1..Depth -> Directories]
      /\ \A m \in 1..Depth \ {n} : production'[m] = production[m]
  BY <1>1, <1>4, <1>5
<1>7. Idle \in Handlers /\ Idle.pc = "idle" /\ Authentic(Idle.stage)
  BY EmptyDirectory DEF Idle, Handlers, Authentic, NoDirectory
<1>8. /\ handler' \in [Levels -> Handlers] /\ handler'[n] = Idle
      /\ \A m \in Levels \ {n} : handler'[m] = handler[m]
  BY <1>1, <1>2, <1>7
<1>9. /\ loaded' \in [Levels -> Loadable \cup {NoProcess}]
      /\ loading' = [loading EXCEPT ![n] = NoProcess] /\ loading' \in [Levels -> Loadable \cup {NoProcess}]
      /\ loading'[n] = NoProcess
      /\ \A m \in Levels \ {n} : loaded'[m] = loaded[m] /\ loading'[m] = loading[m]
  BY <1>1 DEF TakeOver, Crash
<1>10. /\ \A m \in Levels \ {n} : /\ (m \in reload' <=> m \in reload) /\ (m \in forgotten' <=> m \in forgotten)
                                  /\ (m \in failed' <=> m \in failed)
       /\ reload' \subseteq Levels /\ forgotten' \subseteq Levels /\ failed' \subseteq Levels
  BY <1>1 DEF TakeOver, Crash, FileSyncTypeOK
<1>11. faults' \in 0..MaxEvents /\ CountOK'
  BY <1>1, <1>2, FileSyncAssumption DEF TakeOver, Crash, MoreToCome, CountOK
<1>12. FileSyncTypeOK' /\ Grows
  BY <1>1, <1>2, <1>3, <1>6, <1>8, <1>9, <1>10, <1>11, NothingPublished DEF FileSyncTypeOK
<1>13. ASSUME NEW m \in Levels \ {n} PROVE Untouched(m)
  <2>1. m \in 1..Depth \ {n}
    BY DEF Levels
  <2> QED
    BY <1>2, <1>3, <1>6, <1>8, <1>9, <1>10, <2>1 DEF Untouched
<1>14. NodeOK(n)'
  <2>1. Authentic(production[n])' /\ Authentic(handler[n].stage)' /\ Authentic(latest[n])'
    BY <1>1, <1>2, <1>5, <1>6, <1>7, <1>8 DEF NodeOK, AuthenticHere, Authentic
  <2>2. AuthenticHere(n)' /\ CopyOK(n)' /\ ReceivedOK(n)'
    BY <1>2, <1>3, <1>7, <1>8, <2>1 DEF AuthenticHere, CopyOK, ReceivedOK
  <2>3. Partial(production[n])' <=> Partial(dir)
    BY <1>2, <1>6 DEF Partial
  <2>4. CASE Crash(n)
    <3>1. n \notin reload' /\ n \notin requested' /\ n \notin attached'
      BY <1>2, <2>4 DEF Crash
    <3>2. loaded'[n] = IF dir.files \in Loadable THEN dir.files ELSE NoProcess
      BY <1>1, <1>4, <1>6, <2>4 DEF Crash
    <3> QED
      BY <1>3, <1>5, <1>6, <1>7, <1>8, <1>9, <2>2, <2>3, <3>1, <3>2
      DEF NodeOK, LoadableOK, DeadOK, LoadedOK
  <2>5. CASE TakeOver(n)
    <3>1. /\ loading[n] # NoProcess /\ loaded'[n] = loading[n] /\ reload' = reload
          /\ forgotten \subseteq forgotten'
          /\ n \in requested \/ handler[n].pc \in {"purge", "copy"} => n \in forgotten'
      BY <1>1, <2>5 DEF TakeOver
    <3>2. loaded[n] # NoProcess
      BY <1>1, <3>1 DEF NodeOK, DeadOK
    <3>3. n \notin forgotten' => dir = production[n] /\ handler[n].pc \notin {"purge", "copy"}
      BY <1>5, <3>1
    <3>4. LoadableOK(n)'
      BY <1>1, <1>5, <1>6, <2>3, <3>1, <3>2, <3>3 DEF NodeOK, LoadableOK
    <3>5. LoadedOK(n)'
      BY <1>1, <1>6, <1>9, <3>1, <3>3 DEF NodeOK, LoadedOK, RestartDue
    <3>6. DeadOK(n)'
      BY <3>1 DEF DeadOK
    <3> QED
      BY <2>2, <3>4, <3>5, <3>6 DEF NodeOK
  <2> QED
    BY <2>4, <2>5
<1> QED
  BY <1>2, <1>6, <1>11, <1>12, <1>13, <1>14, StepAt

-----------------------------------------------------------------------------
\* Every step of every node keeps the invariant.
LEMMA FilesInductive == FilesInv /\ [FileSyncNext]_fileSyncVars => FilesInv'
<1> SUFFICES ASSUME FilesInv, [FileSyncNext]_fileSyncVars PROVE FilesInv'
  OBVIOUS
<1>1. ASSUME NEW files \in Deployments, SyncLocalZoneDir(files) PROVE FilesInv'
  BY <1>1, PublishStep
<1>2. ASSUME NEW n \in Levels, SendConfigUpdate(n) PROVE FilesInv'
  BY <1>2, SendStep
<1>3. ASSUME NEW n \in Levels, ConnectionBreaks(n) PROVE FilesInv'
  BY <1>3, BreakStep
<1>4. ASSUME NEW n \in Levels, HandleConfigUpdate(n) PROVE FilesInv'
  BY <1>4, HandleStep
<1>5. ASSUME NEW n \in Levels, StageValidated(n) \/ StageRejected(n) PROVE FilesInv'
  BY <1>5, ValidateStep
<1>6. ASSUME NEW n \in Levels, PurgeProduction(n) PROVE FilesInv'
  BY <1>6, PurgeStep
<1>7. ASSUME NEW n \in Levels, CopyFile(n) PROVE FilesInv'
  BY <1>7, CopyStep
<1>8. ASSUME NEW n \in Levels, CopyFails(n) \/ StageActivated(n) PROVE FilesInv'
  BY <1>8, CopyEnds
<1>9. ASSUME NEW n \in Levels, ForwardRequest(n) \/ ReloadByHand(n) \/ LoadConfigFiles(n) PROVE FilesInv'
  BY <1>9, ReloadStep
<1>10. ASSUME NEW n \in Levels, TakeOver(n) \/ Crash(n) PROVE FilesInv'
  BY <1>10, EndStep
<1>11. ASSUME UNCHANGED fileSyncVars PROVE FilesInv'
  <2>1. /\ production' = production /\ published' = published /\ incoming' = incoming
        /\ handler' = handler /\ failed' = failed /\ requested' = requested /\ reload' = reload
        /\ loading' = loading /\ loaded' = loaded /\ attached' = attached /\ faults' = faults
        /\ forgotten' = forgotten /\ latest' = latest /\ outdated' = outdated
    BY <1>11 DEF fileSyncVars
  <2>2. FileSyncTypeOK' /\ CountOK' /\ Authentic(production[1])'
    BY <2>1 DEF FilesInv, FileSyncTypeOK, CountOK, Authentic
  <2>3. FileSyncTypeOK /\ Grows
    BY <2>1, NothingPublished DEF FilesInv, FileSyncTypeOK
  <2>4. \A n \in Levels : Untouched(n)
    BY <2>1 DEF Untouched
  <2>5. \A n \in Levels : NodeOK(n)'
    BY <2>3, <2>4, UntouchedIsOK DEF FilesInv
  <2>6. \A n \in Levels : SentOK(n)'
    BY <2>1 DEF FilesInv, SentOK, RestartDue, Partial
  <2> QED
    BY <2>2, <2>5, <2>6 DEF FilesInv
<1> QED
  BY <1>1, <1>2, <1>3, <1>4, <1>5, <1>6, <1>7, <1>8, <1>9, <1>10, <1>11 DEF FileSyncNext

\* However updates, crashes, reloads and breaks of connections come (HandleConfigUpdate,
\* TryActivateZonesStage, SendConfigUpdate): once everything is settled the nodes have and
\* run the files of the node above, apart from the cases in which the code gives up.
THEOREM FilesArrive == FileSyncSpec => []FilesInSync
<1>1. FilesInv => FilesInSync
  <2> SUFFICES ASSUME FilesInv, FilesSettled, NEW n \in Levels,
                      n \notin failed \cup outdated,
                      ~(production[n].ts > production[n - 1].ts),
                      ~(production[n].ts = production[n - 1].ts /\ Torn(n)),
                      ~(production[n - 1].ts = 0 \/ Torn(n - 1))
               PROVE  /\ production[n].files = production[n - 1].files
                      /\ loaded[n] = production[n].files \/ n \in forgotten
    BY DEF FilesInSync
  <2>1. /\ n \in attached /\ handler[n].pc = "idle" /\ incoming[n] = {} /\ loading[n] = NoProcess
        /\ n \notin requested \cup reload
        /\ n - 1 \in Levels => handler[n - 1].pc = "idle" /\ loading[n - 1] = NoProcess
        /\ n - 1 \notin requested \cup reload
    BY DEF FilesSettled, Idle
  <2>2. NodeOK(n) /\ SentOK(n)
    BY DEF FilesInv
  <2>3. ~Partial(production[n - 1])
    BY DEF Partial, Torn
  <2>4. latest[n].ts = production[n - 1].ts /\ latest[n].files = production[n - 1].files
    BY <2>1, <2>2, <2>3 DEF SentOK, RestartDue
  <2>5. Got(n)
    BY <2>1, <2>2 DEF NodeOK, ReceivedOK
  <2>6. ~Partial(latest[n])
    BY <2>3, <2>4 DEF Partial
  <2>7. production[n].files = production[n - 1].files
    BY <2>3, <2>4, <2>5, <2>6 DEF Got, Partial, Torn
  <2>8. loaded[n] # NoProcess
    BY <2>1, <2>2 DEF NodeOK, DeadOK
  <2> QED
    BY <2>1, <2>2, <2>7, <2>8 DEF NodeOK, LoadedOK, RestartDue
<1> QED
  BY <1>1, FilesInitially, FilesInductive, PTL DEF FileSyncSpec
=============================================================================

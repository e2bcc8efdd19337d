-------------------------- MODULE ReplayLogProofs --------------------------
(***************************************************************************)
(* The replay log accounts for every event, for any number of events,       *)
(* connections, log files and passes (lib/remote/apilistener.cpp,           *)
(* lib/remote/jsonrpcconnection.cpp).                                       *)
(*                                                                          *)
(* The invariant has one part per direction.  At its heart is InOrder: the  *)
(* events on their way are in the order of time and leave nothing out, so   *)
(* the time of the last event that was handled, which MessageHandler        *)
(* compares with and ApiTimerHandler confirms, speaks for all before it.    *)
(***************************************************************************)
EXTENDS ReplayLog, FiniteSetTheorems, SequenceTheorems, TLAPS

\* The peer handled the event, or the code gives it up.
Known(n, m) == m \in handled[Peer(n)] \cup Excused(n)

\* Only own events are handled and logged.  One that waits for the log is the newest.
RelayOK(n) ==
    /\ handled[Peer(n)] \cup Logged(n) \subseteq sent[n]
    /\ relay[n] # 0 => /\ relay[n] \in sent[n]
                       /\ \A m \in sent[n] : m <= relay[n]
                       /\ relay[n] \notin Logged(n)

\* A file is named after its last message, and the log goes on where it ends.
LogOrdered(n) ==
    /\ \A f \in files[n] : /\ f.name - 1 \in f.msgs
                           /\ \A m \in f.msgs : m < f.name
                           /\ \A m \in current[n] : f.name <= m
    /\ \A f, g \in files[n] : f = g \/ f.name < g.name \/ g.name < f.name
    /\ \A f, g \in files[n] : f.name < g.name => \A m \in g.msgs : f.name <= m

\* What Accounted says, and more: the log alone accounts for an event that is logged, also
\* while it is on its way, so that a connection which breaks cannot lose it.
AccountedFor(n) ==
    \A m \in sent[n] :
        \/ Known(n, m)
        \/ m \in Logged(n) /\ m > localPos[n]
        \/ m = relay[n]
        \/ m \in Events(chan[Peer(n)]) /\ m \notin Logged(n)

\* Whatever is older than an event on its way is known, or on its way before it.
InOrder(n) ==
    \A i \in DOMAIN chan[Peer(n)] : chan[Peer(n)][i].type = "event" =>
        /\ chan[Peer(n)][i].ts \in sent[n]
        /\ \A m \in sent[n] : m < chan[Peer(n)][i].ts =>
              \/ Known(n, m)
              \/ \E j \in 1..(i - 1) : chan[Peer(n)][j] = [type |-> "event", ts |-> m]

\* The peer knows everything up to the position it remembers, and up to those it confirms.
ConfirmedOK(n) ==
    /\ \A m \in sent[n] : m <= remotePos[Peer(n)] => Known(n, m)
    /\ \A i \in DOMAIN chan[n] : chan[n][i].type = "ack" =>
          chan[n][i].ts <= now /\ \A m \in sent[n] : m <= chan[n][i].ts => Known(n, m)
    /\ \A i \in DOMAIN chan[n] : chan[n][i].ts <= now + 1

\* A pass that has not sent a message has the file before it, or the file is newer than all
\* that it still has to read.
Behind(n, m) ==
    /\ m > peerTs[n]
    /\ \A f \in files[n] : m \in f.msgs => \/ [name |-> f.name, current |-> FALSE] \in todo[n]
                                            \/ \A g \in todo[n] : g.current \/ g.name < f.name

\* A replay over a working connection has not left out anything.
PassOK(n) ==
    /\ sync[n] \notin {"pass", "last"} => todo[n] = {} /\ peerTs[n] = 0
    /\ \A g \in todo[n] : /\ g.name <= now + 1
                          /\ ~g.current => /\ \A m \in current[n] : g.name <= m
                                           /\ relay[n] # 0 => g.name <= relay[n]
    /\ link /\ sync[n] \in {"pass", "last"} =>
          \A m \in Logged(n) : Known(n, m) \/ m \in Events(chan[Peer(n)]) \/ Behind(n, m)

\* The events of a node
Direction(n) ==
    /\ RelayOK(n) /\ LogOrdered(n) /\ AccountedFor(n)
    /\ InOrder(n) /\ ConfirmedOK(n) /\ PassOK(n)

\* A broken connection carries nothing.
BrokenOK == ~link => \A n \in Nodes : chan[n] = <<>>

\* The invariant
IInv == TypeOK /\ BrokenOK /\ \A n \in Nodes : Direction(n)

-----------------------------------------------------------------------------
\* There are two nodes, each the peer of the other.
LEMMA Peers ==
    ASSUME NEW n \in Nodes
    PROVE  Peer(n) \in Nodes /\ Peer(n) # n /\ Peer(Peer(n)) = n /\ Nodes = {n, Peer(n)}
<1>1. PICK a, b \in Nodes : a # b /\ Nodes = {a, b}
  BY ReplayLogAssumption
<1>2. \A m \in Nodes : Peer(m) \in Nodes /\ Peer(m) # m
  BY <1>1 DEF Peer
<1> QED
  BY <1>1, <1>2

\* The types of what belongs to a node
NodeTypes(n) ==
    /\ now \in Nat /\ now <= MaxTime
    /\ up[n] \in BOOLEAN /\ foreign[n] \in BOOLEAN
    /\ chan[n] \in Seq(Messages) /\ (\A i \in DOMAIN chan[n] : chan[n][i].ts \in Nat)
    /\ relay[n] \in 0..now /\ current[n] \subseteq 1..now
    /\ files[n] \subseteq [name: Times, msgs: SUBSET (1..now)]
    /\ localPos[n] \in 0..(now + 1) /\ remotePos[n] \in 0..now
    /\ peerTs[n] \in Nat /\ todo[n] \subseteq [name: Times, current: BOOLEAN]
    /\ \A g \in todo[n] : g.name \in Nat
    /\ sent[n] \subseteq 1..now /\ handled[n] \subseteq 1..now

\* The bounds are numbers.
LEMMA Bounds == /\ MaxTime \in Nat /\ PositionSlack \in Nat
                /\ Times \subseteq Nat /\ \A t \in Times : t <= MaxTime + 1
<1>1. MaxTime \in Nat /\ PositionSlack \in Nat
  BY ReplayLogAssumption
<1> QED
  BY <1>1 DEF Times

\* The types of a node before ...
LEMMA TypesOfNode ==
    ASSUME TypeOK, NEW n \in Nodes
    PROVE  NodeTypes(n)
<1>1. chan[n] \in Seq(Messages) /\ \A i \in DOMAIN chan[n] : chan[n][i].ts \in Nat
  <2>1. chan[n] \in Seq(Messages)
    BY DEF TypeOK
  <2>2. \A i \in DOMAIN chan[n] : chan[n][i] \in Messages
    BY <2>1
  <2> QED
    BY <2>1, <2>2, Bounds DEF Messages
<1>2. now \in Nat /\ now <= MaxTime
  BY Bounds DEF TypeOK
<1>3. todo[n] \subseteq [name: Times, current: BOOLEAN] /\ peerTs[n] \in Times
  BY DEF TypeOK
<1>4. peerTs[n] \in Nat /\ \A g \in todo[n] : g.name \in Nat
  BY <1>3, Bounds
<1>5. /\ up[n] \in BOOLEAN /\ foreign[n] \in BOOLEAN
      /\ relay[n] \in 0..now /\ current[n] \subseteq 1..now
      /\ files[n] \subseteq [name: Times, msgs: SUBSET (1..now)]
      /\ localPos[n] \in 0..(now + 1) /\ remotePos[n] \in 0..now
      /\ sent[n] \subseteq 1..now /\ handled[n] \subseteq 1..now
  BY DEF TypeOK
<1> QED
  BY <1>1, <1>2, <1>3, <1>4, <1>5 DEF NodeTypes

\* ... and after a step
LEMMA TypesAfter ==
    ASSUME TypeOK', NEW n \in Nodes
    PROVE  NodeTypes(n)'
<1>1. chan'[n] \in Seq(Messages) /\ \A i \in DOMAIN chan'[n] : chan'[n][i].ts \in Nat
  <2>1. chan'[n] \in Seq(Messages)
    BY DEF TypeOK
  <2>2. \A i \in DOMAIN chan'[n] : chan'[n][i] \in Messages
    BY <2>1
  <2> QED
    BY <2>1, <2>2, Bounds DEF Messages
<1>2. now' \in Nat /\ now' <= MaxTime
  BY Bounds DEF TypeOK
<1>3. todo'[n] \subseteq [name: Times, current: BOOLEAN] /\ peerTs'[n] \in Times
  BY DEF TypeOK
<1>4. peerTs'[n] \in Nat /\ \A g \in todo'[n] : g.name \in Nat
  BY <1>3, Bounds
<1>5. /\ up'[n] \in BOOLEAN /\ foreign'[n] \in BOOLEAN
      /\ relay'[n] \in 0..now' /\ current'[n] \subseteq 1..now'
      /\ files'[n] \subseteq [name: Times, msgs: SUBSET (1..now')]
      /\ localPos'[n] \in 0..(now' + 1) /\ remotePos'[n] \in 0..now'
      /\ sent'[n] \subseteq 1..now' /\ handled'[n] \subseteq 1..now'
  BY DEF TypeOK
<1> QED
  BY <1>1, <1>2, <1>3, <1>4, <1>5 DEF NodeTypes

\* What a node has sent and logged so far stays as it is.
SameLog(n) ==
    /\ sent'[n] = sent[n] /\ relay'[n] = relay[n]
    /\ current'[n] = current[n] /\ files'[n] = files[n]

\* What is known of the events of a node becomes more.
MoreKnown(n) ==
    /\ handled[Peer(n)] \subseteq handled'[Peer(n)]
    /\ dropped[n] \subseteq dropped'[n] /\ misplaced[n] \subseteq misplaced'[n]

\* What is known stays known.
LEMMA StaysKnown ==
    ASSUME NEW n \in Nodes, MoreKnown(n), NEW m, Known(n, m)
    PROVE  Known(n, m)'
BY DEF MoreKnown, Known, Excused, Peer

\* What is in a log
LEMMA LoggedIs ==
    ASSUME NEW n, NEW m
    PROVE  m \in Logged(n) <=> m \in current[n] \/ \E f \in files[n] : m \in f.msgs
BY DEF Logged

\* The events of a channel
LEMMA EventsAre ==
    ASSUME NEW c, NEW m
    PROVE  m \in Events(c) <=> \E i \in DOMAIN c : c[i].type = "event" /\ c[i].ts = m
BY DEF Events

\* A log that stays as it is stays ordered.
LEMMA LogStays ==
    ASSUME NEW n \in Nodes, SameLog(n), handled'[Peer(n)] = handled[Peer(n)],
           RelayOK(n), LogOrdered(n)
    PROVE  RelayOK(n)' /\ LogOrdered(n)' /\ Logged(n)' = Logged(n)
<1>1. Logged(n)' = Logged(n)
  BY DEF SameLog, Logged
<1>2. Peer(n)' = Peer(n)
  BY DEF Peer
<1>3. RelayOK(n)'
  BY <1>1, <1>2 DEF SameLog, RelayOK
<1>4. LogOrdered(n)'
  BY DEF SameLog, LogOrdered
<1> QED
  BY <1>1, <1>3, <1>4

\* Events of a log that stays as it is stay accounted for.
LEMMA AccountStays ==
    ASSUME NEW n \in Nodes, SameLog(n), MoreKnown(n), localPos'[n] = localPos[n],
           Events(chan[Peer(n)]) \subseteq Events(chan'[Peer(n)]),
           AccountedFor(n)
    PROVE  AccountedFor(n)'
<1>1. Logged(n)' = Logged(n)
  BY DEF SameLog, Logged
<1>2. /\ Peer(n)' = Peer(n)
      /\ Events(chan[Peer(n)])' = Events(chan'[Peer(n)])
  BY DEF Peer, Events
<1> SUFFICES ASSUME NEW m \in sent'[n]
             PROVE  \/ Known(n, m)'
                    \/ m \in Logged(n) /\ m > localPos[n]
                    \/ m = relay[n]
                    \/ m \in Events(chan'[Peer(n)]) /\ m \notin Logged(n)
  BY <1>1, <1>2 DEF AccountedFor, SameLog
<1> QED
  BY <1>1, StaysKnown DEF AccountedFor, SameLog

\* What is on its way stays in order behind messages that are no events.
LEMMA OrderStays ==
    ASSUME TypeOK, NEW n \in Nodes, sent'[n] = sent[n], MoreKnown(n),
           NEW s \in Seq(Messages), chan'[Peer(n)] = chan[Peer(n)] \o s,
           \A i \in DOMAIN s : s[i].type # "event",
           InOrder(n)
    PROVE  InOrder(n)' /\ Events(chan[Peer(n)]) \subseteq Events(chan'[Peer(n)])
<1>1. PICK c : c = chan[Peer(n)]
  OBVIOUS
<1>2. PICK d : d = chan'[Peer(n)]
  OBVIOUS
<1>3. c \in Seq(Messages) /\ d = c \o s
  BY <1>1, <1>2, Peers DEF TypeOK
<1>4. /\ \A i \in DOMAIN c : i \in DOMAIN d /\ d[i] = c[i]
      /\ \A i \in DOMAIN d : d[i].type = "event" => i \in DOMAIN c /\ d[i] = c[i]
      /\ \A i \in DOMAIN c : \A j \in 1..(i - 1) : d[j] = c[j]
  BY <1>3
<1>5. Peer(n)' = Peer(n)
  BY DEF Peer
<1>6. InOrder(n)'
  <2> SUFFICES ASSUME NEW i \in DOMAIN d, d[i].type = "event"
               PROVE  /\ d[i].ts \in sent[n]
                      /\ \A m \in sent[n] : m < d[i].ts =>
                           Known(n, m)' \/ \E j \in 1..(i - 1) : d[j] = [type |-> "event", ts |-> m]
    BY <1>2, <1>5 DEF InOrder
  <2>1. i \in DOMAIN c /\ d[i] = c[i]
    BY <1>4
  <2>2. /\ c[i].ts \in sent[n]
        /\ \A m \in sent[n] : m < c[i].ts =>
             Known(n, m) \/ \E j \in 1..(i - 1) : c[j] = [type |-> "event", ts |-> m]
    BY <1>1, <2>1 DEF InOrder
  <2> QED
    BY <1>4, <2>1, <2>2, StaysKnown
<1>7. ASSUME NEW m \in Events(c) PROVE m \in Events(d)
  BY <1>4, <1>7, EventsAre
<1> QED
  BY <1>1, <1>2, <1>6, <1>7

\* What is confirmed stays confirmed. A message that is new is no confirmation, or
\* confirms what has been handled.
LEMMA ConfirmedStays ==
    ASSUME TypeOK, TypeOK', NEW n \in Nodes, sent'[n] = sent[n], MoreKnown(n), now <= now',
           remotePos'[Peer(n)] = remotePos[Peer(n)], ConfirmedOK(n),
           \A i \in DOMAIN chan'[n] :
              \/ \E j \in DOMAIN chan[n] : chan'[n][i] = chan[n][j]
              \/ /\ chan'[n][i].ts <= now' + 1
                 /\ chan'[n][i].type = "ack" => chan'[n][i].ts <= remotePos[Peer(n)]
    PROVE  ConfirmedOK(n)'
<1>1. Peer(n)' = Peer(n)
  BY DEF Peer
<1>2. now \in Nat /\ now' \in Nat /\ remotePos[Peer(n)] \in 0..now /\ sent[n] \subseteq 1..now
  <2>1. NodeTypes(n) /\ NodeTypes(Peer(n)) /\ NodeTypes(n)'
    BY Peers, TypesOfNode, TypesAfter
  <2> QED
    BY <2>1 DEF NodeTypes
<1>3. \A j \in DOMAIN chan[n] : chan[n][j].ts \in Nat
  BY TypesOfNode DEF NodeTypes
<1>4. \A j \in DOMAIN chan'[n] : chan'[n][j].ts \in Nat
  BY TypesAfter DEF NodeTypes
<1>5. \A m \in sent'[n] : m <= remotePos'[Peer(n)] => Known(n, m)'
  BY StaysKnown DEF ConfirmedOK
<1>6. ASSUME NEW i \in DOMAIN chan'[n]
      PROVE  /\ chan'[n][i].ts <= now' + 1
             /\ chan'[n][i].type = "ack" =>
                   chan'[n][i].ts <= now' /\ \A m \in sent[n] : m <= chan'[n][i].ts => Known(n, m)'
  <2>1. CASE \E j \in DOMAIN chan[n] : chan'[n][i] = chan[n][j]
    <3>1. PICK j \in DOMAIN chan[n] : chan'[n][i] = chan[n][j]
      BY <2>1
    <3>2. chan[n][j].ts <= now + 1 /\ chan[n][j].ts \in Nat
      BY <1>3 DEF ConfirmedOK
    <3>3. chan[n][j].type = "ack" =>
             chan[n][j].ts <= now /\ \A m \in sent[n] : m <= chan[n][j].ts => Known(n, m)'
      BY StaysKnown DEF ConfirmedOK
    <3> QED
      BY <1>2, <3>1, <3>2, <3>3
  <2>2. CASE /\ chan'[n][i].ts <= now' + 1
             /\ chan'[n][i].type = "ack" => chan'[n][i].ts <= remotePos[Peer(n)]
    BY <1>2, <1>4, <1>5, <2>2
  <2> QED
    BY <1>6, <2>1, <2>2
<1> QED
  BY <1>1, <1>5, <1>6 DEF ConfirmedOK

\* A replay that does nothing meanwhile knows what it has to send.
LEMMA PassStays ==
    ASSUME TypeOK, TypeOK', NEW n \in Nodes, SameLog(n), MoreKnown(n), now <= now', link' => link,
           sync'[n] = sync[n], peerTs'[n] = peerTs[n], todo'[n] = todo[n],
           link' => Events(chan[Peer(n)]) \subseteq Events(chan'[Peer(n)]),
           PassOK(n)
    PROVE  PassOK(n)'
<1>1. /\ Peer(n)' = Peer(n)
      /\ Events(chan[Peer(n)])' = Events(chan'[Peer(n)])
      /\ Logged(n)' = Logged(n)
  BY DEF Peer, Events, Logged, SameLog
<1>2. \A m : Behind(n, m)' <=> Behind(n, m)
  BY DEF Behind, SameLog
<1>3. now \in Nat /\ now' \in Nat /\ \A g \in todo[n] : g.name \in Nat
  BY TypesOfNode, TypesAfter DEF NodeTypes
<1>4. \A g \in todo'[n] : /\ g.name <= now' + 1
                          /\ ~g.current => /\ \A m \in current'[n] : g.name <= m
                                           /\ relay'[n] # 0 => g.name <= relay'[n]
  BY <1>3 DEF PassOK, SameLog
<1>5. ASSUME link', sync'[n] \in {"pass", "last"}, NEW m \in Logged(n)
      PROVE  Known(n, m)' \/ m \in Events(chan'[Peer(n)]) \/ Behind(n, m)'
  <2>1. Known(n, m) \/ m \in Events(chan[Peer(n)]) \/ Behind(n, m)
    BY <1>5 DEF PassOK
  <2> QED
    BY <1>2, <1>5, <2>1, StaysKnown
<1>6. sync'[n] \notin {"pass", "last"} => todo'[n] = {} /\ peerTs'[n] = 0
  BY DEF PassOK
<1> QED
  BY <1>1, <1>4, <1>5, <1>6 DEF PassOK

\* Nothing happens to the events of a node but what its peer knows of others.
LEMMA DirectionStays ==
    ASSUME TypeOK, TypeOK', NEW n \in Nodes, Direction(n),
           SameLog(n), MoreKnown(n), handled'[Peer(n)] = handled[Peer(n)],
           localPos'[n] = localPos[n], remotePos'[Peer(n)] = remotePos[Peer(n)],
           sync'[n] = sync[n], peerTs'[n] = peerTs[n], todo'[n] = todo[n],
           now <= now', link' => link,
           NEW s \in Seq(Messages), chan'[Peer(n)] = chan[Peer(n)] \o s,
           \A i \in DOMAIN s : s[i].type # "event",
           \A i \in DOMAIN chan'[n] :
              \/ \E j \in DOMAIN chan[n] : chan'[n][i] = chan[n][j]
              \/ /\ chan'[n][i].ts <= now' + 1
                 /\ chan'[n][i].type = "ack" => chan'[n][i].ts <= remotePos[Peer(n)]
    PROVE  Direction(n)'
<1>1. RelayOK(n)' /\ LogOrdered(n)'
  BY LogStays DEF Direction
<1>2. InOrder(n)' /\ Events(chan[Peer(n)]) \subseteq Events(chan'[Peer(n)])
  BY OrderStays DEF Direction, SameLog
<1>3. AccountedFor(n)'
  BY <1>2, AccountStays DEF Direction
<1>4. ConfirmedOK(n)'
  BY ConfirmedStays DEF Direction, SameLog
<1>5. PassOK(n)'
  BY <1>2, PassStays DEF Direction
<1> QED
  BY <1>1, <1>2, <1>3, <1>4, <1>5 DEF Direction

-----------------------------------------------------------------------------
(* Types                                                                     *)

\* What is sent arrives behind the rest or not at all.
LEMMA Sending ==
    ASSUME TypeOK, NEW n \in Nodes, NEW s \in Seq(Messages), Send(n, s)
    PROVE  /\ chan' \in [Nodes -> Seq(Messages)] /\ chan'[n] = chan[n]
           /\ link => chan'[Peer(n)] = chan[Peer(n)] \o s
           /\ ~link => chan' = chan
<1>1. chan \in [Nodes -> Seq(Messages)]
  BY DEF TypeOK
<1>2. Peer(n) \in Nodes /\ Peer(n) # n
  BY Peers
<1>3. chan[Peer(n)] \o s \in Seq(Messages)
  BY <1>1, <1>2
<1> QED
  BY <1>1, <1>2, <1>3 DEF Send

\* What is logged, on its way or waits are numbers of events.
LEMMA EventNumbers ==
    ASSUME TypeOK, NEW n \in Nodes, Direction(n)
    PROVE  /\ Logged(n) \subseteq 1..now /\ Missing(n) \subseteq 1..now
           /\ Waiting(n) \subseteq 1..now /\ Events(chan[Peer(n)]) \subseteq 1..now
<1>1. NodeTypes(n) /\ now \in Nat
  BY TypesOfNode DEF NodeTypes
<1>2. Logged(n) \subseteq 1..now
  BY <1>1 DEF Direction, RelayOK, NodeTypes
<1>3. relay[n] \in 0..now
  BY <1>1 DEF NodeTypes
<1>4. \A i \in DOMAIN chan[Peer(n)] : chan[Peer(n)][i].type = "event" => chan[Peer(n)][i].ts \in 1..now
  BY <1>1 DEF Direction, InOrder, NodeTypes
<1>5. Events(chan[Peer(n)]) \subseteq 1..now
  BY <1>4, EventsAre
<1>6. Missing(n) \subseteq 1..now
  BY <1>2 DEF Missing
<1>7. Waiting(n) \subseteq 1..now
  BY <1>1, <1>2, <1>3 DEF Waiting
<1> QED
  BY <1>2, <1>5, <1>6, <1>7

\* The messages of a file in their order
LEMMA FileMessages ==
    ASSUME TypeOK, NEW n \in Nodes, Direction(n), NEW f \in todo[n],
           NEW msgs \in Ascending({m \in Content(n, f) : m > peerTs[n]})
    PROVE  /\ msgs \in Seq(Times) /\ Len(msgs) \in Nat
           /\ \A i \in DOMAIN msgs : msgs[i] \in Content(n, f) /\ msgs[i] > peerTs[n]
           /\ \A m \in Content(n, f) : m > peerTs[n] => \E i \in DOMAIN msgs : msgs[i] = m
           /\ \A i, j \in DOMAIN msgs : i < j => msgs[i] < msgs[j]
           /\ \A m \in Content(n, f) : m \in Logged(n) /\ m \in 1..now
           /\ now \in Nat
<1>1. Content(n, f) \subseteq Logged(n)
  BY DEF Content, Logged
<1>2. Logged(n) \subseteq 1..now /\ now \in Nat
  BY EventNumbers, TypesOfNode DEF NodeTypes
<1>3. PICK S : S = {m \in Content(n, f) : m > peerTs[n]}
  OBVIOUS
<1>4. S \subseteq 1..now
  BY <1>1, <1>2, <1>3
<1>5. Cardinality(S) \in Nat
  <2>1. IsFiniteSet(1..now)
    BY <1>2, FS_Interval
  <2> QED
    BY <1>4, <2>1, FS_Subset, FS_CardinalityType
<1>6. /\ msgs \in [1..Cardinality(S) -> S]
      /\ \A m \in S : \E i \in DOMAIN msgs : msgs[i] = m
      /\ \A i, j \in DOMAIN msgs : i < j => msgs[i] < msgs[j]
  BY <1>3 DEF Ascending
<1>7. msgs \in Seq(Times) /\ Len(msgs) \in Nat
  <2>1. PICK k \in Nat : k = Cardinality(S)
    BY <1>5
  <2>2. msgs \in [1..k -> S]
    BY <1>6, <2>1
  <2>3. S \subseteq Times
    BY <1>4, TypesOfNode, Bounds DEF NodeTypes, Times
  <2>4. msgs \in Seq(Times)
    <3>1. msgs \in [1..k -> Times]
      BY <2>2, <2>3
    <3> QED
      BY <3>1, SeqDef
  <2> QED
    BY <2>4
<1> QED
  BY <1>1, <1>2, <1>3, <1>6, <1>7

\* A message of a batch is an event of the file, and comes after the older ones.
AfterOlder(batch, k, msgs) ==
    \E i \in DOMAIN msgs :
        /\ batch[k].ts = msgs[i]
        /\ \A j \in 1..(i - 1) : \E l \in 1..(k - 1) :
              batch[l] = [type |-> "event", ts |-> msgs[j]]

\* A batch is the events in their order, and maybe the position.
LEMMA BatchIs ==
    ASSUME NEW msgs \in Seq(Times), NEW name \in Times, NEW report \in BOOLEAN,
           report => msgs # <<>>,
           NEW batch, batch = Batch(msgs, name, report)
    PROVE  /\ batch \in Seq(Messages)
           /\ \A k \in DOMAIN batch : batch[k].type = "event" =>
                 AfterOlder(batch, k, msgs)
           /\ \A k \in DOMAIN batch : batch[k].type # "event" =>
                 batch[k].type = "position" /\ batch[k].ts = name
           /\ \A i \in DOMAIN msgs : \E k \in DOMAIN batch : batch[k] = [type |-> "event", ts |-> msgs[i]]
<1>1. PICK events : events = [i \in DOMAIN msgs |-> [type |-> "event", ts |-> msgs[i]]]
  OBVIOUS
<1>2. /\ events \in Seq(Messages) /\ Len(events) = Len(msgs)
      /\ \A i \in DOMAIN msgs : i \in DOMAIN events
      /\ \A i \in DOMAIN events : i \in DOMAIN msgs /\ events[i] = [type |-> "event", ts |-> msgs[i]]
  <2>1. PICK k \in Nat : msgs \in [1..k -> Times]
    BY SeqDef
  <2>2. events \in [1..k -> Messages]
    BY <1>1, <2>1 DEF Messages
  <2>3. events \in Seq(Messages) /\ DOMAIN events = 1..k /\ DOMAIN msgs = 1..k
    BY <2>1, <2>2, SeqDef
  <2>4. Len(events) = k /\ Len(msgs) = k
    BY <2>3
  <2> QED
    BY <1>1, <2>3, <2>4
<1>3. CASE ~report
  <2>1. batch = events
    BY <1>1, <1>3 DEF Batch
  <2>2. \A k \in DOMAIN batch : batch[k].ts = msgs[k] /\ batch[k].type = "event"
    BY <1>2, <2>1
  <2>3. \A k \in DOMAIN batch : \A j \in 1..(k - 1) : batch[j] = [type |-> "event", ts |-> msgs[j]]
    BY <1>2, <2>1
  <2> QED
    BY <1>2, <2>1, <2>2, <2>3 DEF AfterOlder
<1>4. CASE report
  <2>1. PICK pos : pos = [type |-> "position", ts |-> name]
    OBVIOUS
  <2>2. batch = <<events[1], pos>> \o Tail(events)
    BY <1>1, <1>4, <2>1 DEF Batch
  <2>3. Len(events) >= 1 /\ pos \in Messages /\ Len(events) \in Nat /\ 1 \in DOMAIN events
    BY <1>2, <1>4, <2>1 DEF Messages
  <2>4. Tail(events) \in Seq(Messages) /\ Len(Tail(events)) = Len(events) - 1
        /\ \A i \in 1..(Len(events) - 1) : Tail(events)[i] = events[i + 1]
    BY <1>2, <2>3
  <2>5. <<events[1], pos>> \in Seq(Messages)
    BY <1>2, <2>3
  <2>6. /\ batch \in Seq(Messages) /\ Len(batch) = Len(events) + 1
        /\ batch[1] = events[1] /\ batch[2] = pos
        /\ \A k \in 3..(Len(events) + 1) : batch[k] = events[k - 1]
    BY <2>2, <2>3, <2>4, <2>5
  <2>7. ASSUME NEW k \in DOMAIN batch, batch[k].type = "event"
        PROVE  AfterOlder(batch, k, msgs)
    <3>1. k # 2
      BY <2>1, <2>6, <2>7
    <3>2. CASE k = 1
      <4>1. 1 \in DOMAIN msgs /\ batch[1].ts = msgs[1]
        BY <1>2, <2>3, <2>6
      <4> QED
        BY <3>2, <4>1 DEF AfterOlder
    <3>3. CASE k \in 3..(Len(events) + 1)
      <4>1. k - 1 \in DOMAIN msgs /\ batch[k].ts = msgs[k - 1]
        BY <1>2, <2>3, <2>6, <3>3
      <4>2. ASSUME NEW j \in 1..(k - 2)
            PROVE  \E l \in 1..(k - 1) : batch[l] = [type |-> "event", ts |-> msgs[j]]
        <5>1. j \in DOMAIN events
          BY <1>2, <2>3, <3>3
        <5>2. CASE j = 1
          BY <1>2, <2>6, <3>3, <5>1, <5>2
        <5>3. CASE j >= 2
          <6>1. j + 1 \in 3..(Len(events) + 1) /\ j + 1 \in 1..(k - 1) /\ batch[j + 1] = events[j]
            BY <2>3, <2>6, <3>3, <5>3
          <6> QED
            BY <1>2, <5>1, <6>1
        <5> QED
          BY <5>2, <5>3, <3>3
      <4> QED
        BY <4>1, <4>2, <3>3 DEF AfterOlder
    <3> QED
      BY <2>3, <2>6, <3>1, <3>2, <3>3
  <2>8. ASSUME NEW i \in DOMAIN msgs
        PROVE  \E k \in DOMAIN batch : batch[k] = [type |-> "event", ts |-> msgs[i]]
    <3>1. i \in 1..Len(events) /\ events[i] = [type |-> "event", ts |-> msgs[i]]
      BY <1>2
    <3>2. CASE i = 1
      BY <2>3, <2>6, <3>1, <3>2
    <3>3. CASE i >= 2
      <4>1. i + 1 \in 3..(Len(events) + 1) /\ i + 1 \in DOMAIN batch /\ batch[i + 1] = events[i]
        BY <2>3, <2>6, <3>1, <3>3
      <4> QED
        BY <3>1, <4>1
    <3> QED
      BY <3>1, <3>2, <3>3
  <2>9. ASSUME NEW k \in DOMAIN batch, batch[k].type # "event"
        PROVE  batch[k].type = "position" /\ batch[k].ts = name
    <3>1. k = 1 \/ k = 2 \/ k \in 3..(Len(events) + 1)
      BY <2>3, <2>6
    <3>2. k # 1 /\ k \notin 3..(Len(events) + 1)
      <4>1. \A i \in DOMAIN events : events[i].type = "event"
        BY <1>2
      <4>2. ASSUME k \in 3..(Len(events) + 1) PROVE FALSE
        BY <2>3, <2>6, <2>9, <4>1, <4>2
      <4> QED
        BY <2>3, <2>6, <2>9, <4>1, <4>2
    <3> QED
      BY <2>1, <2>6, <3>1, <3>2
  <2> QED
    BY <2>6, <2>7, <2>8, <2>9
<1> QED
  BY <1>3, <1>4

\* Relay keeps the types.
LEMMA RelayTypes ==
    ASSUME IInv, NEW n \in Nodes, Relay(n)
    PROVE  TypeOK'
<1>1. TypeOK /\ Direction(n)
  BY DEF IInv
<1>2. now \in Nat /\ now <= MaxTime /\ MaxTime \in Nat /\ now < MaxTime /\ now' = now + 1
  BY <1>1, TypesOfNode, Bounds DEF NodeTypes, Relay
<1>3. now' \in 0..MaxTime /\ 1..now \subseteq 1..now' /\ 0..now \subseteq 0..now'
      /\ 0..(now + 1) \subseteq 0..(now' + 1) /\ now + 1 \in 1..now'
  BY <1>2
<1>4. chan' \in [Nodes -> Seq(Messages)]
  <2>1. PICK msg : msg = [type |-> "event", ts |-> now + 1]
    OBVIOUS
  <2>2. msg \in Messages
    BY <1>2, <2>1 DEF Messages, Times
  <2>3. CASE Send(n, <<msg>>)
    <3>1. PICK s : s = <<msg>>
      OBVIOUS
    <3>2. s \in Seq(Messages) /\ Send(n, s)
      BY <2>2, <2>3, <3>1
    <3> QED
      BY <1>1, <3>2, Sending
  <2>4. CASE chan' = chan
    BY <1>1, <2>4 DEF TypeOK
  <2> QED
    BY <2>1, <2>3, <2>4 DEF Relay
<1>5. relay' \in [Nodes -> 0..now']
  <2>1. relay \in [Nodes -> 0..now'] /\ now + 1 \in 0..now'
    BY <1>1, <1>3 DEF TypeOK
  <2>2. relay' = relay \/ relay' = [relay EXCEPT ![n] = now + 1]
    BY DEF Relay
  <2> QED
    BY <2>1, <2>2
<1>6. sent' \in [Nodes -> SUBSET (1..now')] /\ handled' \in [Nodes -> SUBSET (1..now')]
      /\ misplaced' \in [Nodes -> SUBSET (1..now')] /\ current' \in [Nodes -> SUBSET (1..now')]
  BY <1>1, <1>3 DEF TypeOK, Relay, logVars
<1>7. dropped' \in [Nodes -> SUBSET (1..now')]
  <2>1. PICK gone : /\ dropped' = [dropped EXCEPT ![n] = @ \cup gone]
                    /\ gone \subseteq Missing(n) \cup {now + 1}
    <3>1. PICK live, log : Drop(n, (IF live THEN Missing(n) ELSE {})
                                   \cup (IF log \/ (live /\ link) THEN {} ELSE {now + 1}))
      BY DEF Relay
    <3>2. PICK gone : gone = (IF live THEN Missing(n) ELSE {})
                             \cup (IF log \/ (live /\ link) THEN {} ELSE {now + 1})
      OBVIOUS
    <3> QED
      BY <3>1, <3>2 DEF Drop
  <2>2. gone \subseteq 1..now'
    BY <1>1, <1>3, <2>1, EventNumbers
  <2> QED
    BY <1>1, <1>3, <2>1, <2>2 DEF TypeOK
<1>8. files' \in [Nodes -> SUBSET [name: Times, msgs: SUBSET (1..now')]]
  <2>1. files' = files /\ files \in [Nodes -> SUBSET [name: Times, msgs: SUBSET (1..now)]]
    BY <1>1 DEF TypeOK, Relay, logVars
  <2>2. [name: Times, msgs: SUBSET (1..now)] \subseteq [name: Times, msgs: SUBSET (1..now')]
    BY <1>3
  <2> QED
    BY <2>1, <2>2
<1>9. localPos' \in [Nodes -> 0..(now' + 1)] /\ remotePos' \in [Nodes -> 0..now']
  BY <1>1, <1>3 DEF TypeOK, Relay
<1>10. /\ connections' = connections /\ link' = link /\ up' = up /\ foreign' = foreign
       /\ syncing' = syncing /\ sync' = sync /\ peerTs' = peerTs /\ logposTs' = logposTs
       /\ count' = count /\ todo' = todo
  BY DEF Relay, linkVars, syncVars
<1>11. /\ connections' \in 0..MaxConnections /\ link' \in BOOLEAN
       /\ up' \in [Nodes -> BOOLEAN] /\ foreign' \in [Nodes -> BOOLEAN]
       /\ syncing' \in [Nodes -> BOOLEAN] /\ sync' \in [Nodes -> SyncPcs]
       /\ (\A m \in Nodes : syncing'[m] <=> sync'[m] \notin {"idle", "queued"})
       /\ peerTs' \in [Nodes -> Times] /\ logposTs' \in [Nodes -> Times]
       /\ count' \in [Nodes -> Nat]
       /\ todo' \in [Nodes -> SUBSET [name: Times, current: BOOLEAN]]
  BY <1>1, <1>10 DEF TypeOK
<1> QED
  BY <1>3, <1>4, <1>5, <1>6, <1>7, <1>8, <1>9, <1>11 DEF TypeOK

\* The type of the log after PersistMessage
\* PersistMessage keeps the types.
LEMMA PersistTypes ==
    ASSUME IInv, NEW n \in Nodes, PersistMessage(n)
    PROVE  TypeOK'
<1>1. TypeOK /\ Direction(n)
  BY DEF IInv
<1>2. now \in Nat /\ now <= MaxTime /\ MaxTime \in Nat /\ relay[n] \in 1..now
      /\ current[n] \subseteq 1..now
  BY <1>1, TypesOfNode, Bounds DEF NodeTypes, PersistMessage
<1>3. PICK written : written = current[n] \cup {relay[n]}
  OBVIOUS
<1>4. /\ written \subseteq 1..now
      /\ [name |-> relay[n] + 1, msgs |-> written] \in [name: Times, msgs: SUBSET (1..now)]
  BY <1>2, <1>3 DEF Times
<1>5. current' \in [Nodes -> SUBSET (1..now)]
  BY <1>1, <1>3, <1>4 DEF PersistMessage, TypeOK
<1>6. files' \in [Nodes -> SUBSET [name: Times, msgs: SUBSET (1..now)]]
  BY <1>1, <1>3, <1>4 DEF PersistMessage, TypeOK, RotateLogFile
<1>7. relay' \in [Nodes -> 0..now]
  BY <1>1, <1>2 DEF PersistMessage, TypeOK
<1>8. dropped' \in [Nodes -> SUBSET (1..now)] /\ misplaced' \in [Nodes -> SUBSET (1..now)]
  <2>1. PICK gone : gone = IF up[n] /\ sync[n] = "idle"
                           THEN {relay[n]} \ (Events(chan[Peer(n)]) \cup handled[Peer(n)]) ELSE {}
    OBVIOUS
  <2>2. PICK lost : lost = {m \in {relay[n]} : m <= localPos[n] \/ m <= peerTs[n]}
    OBVIOUS
  <2>3. dropped' = [dropped EXCEPT ![n] = @ \cup gone]
    BY <2>1 DEF PersistMessage, Drop
  <2>4. misplaced' = [misplaced EXCEPT ![n] = @ \cup lost]
    BY <2>2 DEF PersistMessage, Misplace
  <2>5. gone \subseteq 1..now /\ lost \subseteq 1..now
    BY <1>2, <2>1, <2>2
  <2>6. dropped' \in [Nodes -> SUBSET (1..now)]
    BY <1>1, <2>3, <2>5 DEF TypeOK
  <2>7. misplaced' \in [Nodes -> SUBSET (1..now)]
    BY <1>1, <2>4, <2>5 DEF TypeOK
  <2> QED
    BY <2>6, <2>7
<1>9. /\ now' = now /\ connections' = connections /\ link' = link /\ up' = up /\ foreign' = foreign
      /\ syncing' = syncing /\ sync' = sync /\ peerTs' = peerTs /\ logposTs' = logposTs
      /\ count' = count /\ todo' = todo /\ chan' = chan /\ localPos' = localPos
      /\ remotePos' = remotePos /\ sent' = sent /\ handled' = handled
  BY DEF PersistMessage, linkVars, syncVars
<1> QED
  BY <1>1, <1>5, <1>6, <1>7, <1>8, <1>9 DEF TypeOK

\* RelayForeign keeps the types.
LEMMA ForeignTypes ==
    ASSUME IInv, NEW n \in Nodes, RelayForeign(n)
    PROVE  TypeOK'
<1>1. TypeOK /\ Direction(n)
  BY DEF IInv
<1>2. now \in Nat
  BY <1>1, TypesOfNode DEF NodeTypes
<1>3. localPos' \in [Nodes -> 0..(now + 1)] /\ foreign' \in [Nodes -> BOOLEAN]
  BY <1>1, <1>2 DEF RelayForeign, TypeOK
<1>4. misplaced' \in [Nodes -> SUBSET (1..now)]
  <2>1. PICK lost : lost = IF up[n] THEN Waiting(n) ELSE {}
    OBVIOUS
  <2>2. misplaced' = [misplaced EXCEPT ![n] = @ \cup lost] /\ lost \subseteq 1..now
    BY <1>1, <2>1, EventNumbers DEF RelayForeign, Misplace
  <2> QED
    BY <1>1, <2>2 DEF TypeOK
<1>5. /\ now' = now /\ connections' = connections /\ link' = link /\ up' = up /\ relay' = relay
      /\ current' = current /\ files' = files
      /\ syncing' = syncing /\ sync' = sync /\ peerTs' = peerTs /\ logposTs' = logposTs
      /\ count' = count /\ todo' = todo /\ chan' = chan /\ dropped' = dropped
      /\ remotePos' = remotePos /\ sent' = sent /\ handled' = handled
  BY DEF RelayForeign, linkVars, syncVars, logVars
<1> QED
  BY <1>1, <1>3, <1>4, <1>5 DEF TypeOK

\* The files of a pass
LEMMA PassFilesAre ==
    ASSUME NEW n, NEW ts, NEW x
    PROVE  x \in PassFiles(n, ts) <=>
              \/ x = [name |-> now + 1, current |-> TRUE]
              \/ \E f \in files[n] : f.name >= ts /\ x = [name |-> f.name, current |-> FALSE]
<1>1. PICK old : old = {g \in files[n] : g.name >= ts}
  OBVIOUS
<1>2. x \in {[name |-> f.name, current |-> FALSE] : f \in old}
        <=> \E f \in old : x = [name |-> f.name, current |-> FALSE]
  OBVIOUS
<1> QED
  BY <1>1, <1>2 DEF PassFiles

\* The type of the files of a pass
LEMMA PassFilesType ==
    ASSUME TypeOK, NEW n \in Nodes, NEW ts
    PROVE  PassFiles(n, ts) \subseteq [name: Times, current: BOOLEAN]
<1>1. files[n] \subseteq [name: Times, msgs: SUBSET (1..now)]
  BY TypesOfNode DEF NodeTypes
<1>2. now + 1 \in Times
  BY TypesOfNode, Bounds DEF NodeTypes, Times
<1>3. \A f \in files[n] : f.name \in Times
  BY <1>1
<1> QED
  <2> SUFFICES ASSUME NEW x \in PassFiles(n, ts) PROVE x \in [name: Times, current: BOOLEAN]
    OBVIOUS
  <2>1. \/ x = [name |-> now + 1, current |-> TRUE]
        \/ \E f \in files[n] : f.name >= ts /\ x = [name |-> f.name, current |-> FALSE]
    BY PassFilesAre
  <2>2. CASE x = [name |-> now + 1, current |-> TRUE]
    BY <1>2, <2>2
  <2>3. CASE \E f \in files[n] : x = [name |-> f.name, current |-> FALSE]
    BY <1>3, <2>3
  <2> QED
    BY <2>1, <2>2, <2>3

\* SyncClient, and the beginning and the end of a pass, keep the types.
LEMMA SyncTypes ==
    ASSUME IInv, NEW n \in Nodes, SyncClient(n) \/ ReplayBegin(n) \/ ReplayAgain(n) \/ ReplayEnd(n)
    PROVE  TypeOK'
<1>1. TypeOK
  BY DEF IInv
<1>2. now \in Nat /\ localPos[n] \in Times
  BY <1>1, TypesOfNode, Bounds DEF NodeTypes, Times
<1>3. 0 \in Times
  BY Bounds DEF Times
<1>4. /\ sync \in [Nodes -> SyncPcs] /\ syncing \in [Nodes -> BOOLEAN]
      /\ (\A m \in Nodes : syncing[m] <=> sync[m] \notin {"idle", "queued"})
      /\ peerTs \in [Nodes -> Times] /\ logposTs \in [Nodes -> Times] /\ count \in [Nodes -> Nat]
      /\ todo \in [Nodes -> SUBSET [name: Times, current: BOOLEAN]]
  BY <1>1 DEF TypeOK
<1>5. /\ sync' \in [Nodes -> SyncPcs] /\ syncing' \in [Nodes -> BOOLEAN]
      /\ (\A m \in Nodes : syncing'[m] <=> sync'[m] \notin {"idle", "queued"})
      /\ peerTs' \in [Nodes -> Times] /\ logposTs' \in [Nodes -> Times] /\ count' \in [Nodes -> Nat]
      /\ todo' \in [Nodes -> SUBSET [name: Times, current: BOOLEAN]]
  <2>1. CASE SyncClient(n)
    BY <1>4, <2>1 DEF SyncClient, SyncPcs
  <2>2. CASE ReplayBegin(n)
    <3>1. PassFiles(n, localPos[n]) \subseteq [name: Times, current: BOOLEAN]
      BY <1>1, PassFilesType
    <3>2. todo' \in [Nodes -> SUBSET [name: Times, current: BOOLEAN]]
      BY <1>4, <2>2, <3>1 DEF ReplayBegin
    <3> QED
      BY <1>2, <1>4, <2>2, <3>2 DEF ReplayBegin, SyncPcs
  <2>3. CASE ReplayAgain(n)
    <3>1. PassFiles(n, peerTs[n]) \subseteq [name: Times, current: BOOLEAN]
      BY <1>1, PassFilesType
    <3>2. todo' \in [Nodes -> SUBSET [name: Times, current: BOOLEAN]]
      BY <1>4, <2>3, <3>1 DEF ReplayAgain
    <3> QED
      BY <1>4, <2>3, <3>2 DEF ReplayAgain, SyncPcs
  <2>4. CASE ReplayEnd(n)
    BY <1>3, <1>4, <2>4 DEF ReplayEnd, ForgetLocals, SyncPcs
  <2> QED
    BY <2>1, <2>2, <2>3, <2>4
<1>7. /\ now' = now /\ connections' = connections /\ link' = link /\ up' = up /\ relay' = relay
      /\ current' = current /\ files' = files /\ foreign' = foreign /\ localPos' = localPos
      /\ chan' = chan /\ dropped' = dropped /\ misplaced' = misplaced
      /\ remotePos' = remotePos /\ sent' = sent /\ handled' = handled
  BY DEF SyncClient, ReplayBegin, ReplayAgain, ReplayEnd, linkVars, logVars, excuses
<1> QED
  BY <1>1, <1>5, <1>7 DEF TypeOK

\* ReplayFile for a file and the messages in it
FileSent(n, f, msgs, report) ==
    /\ f \in todo[n] /\ msgs \in Ascending({m \in Content(n, f) : m > peerTs[n]})
    /\ report \in BOOLEAN /\ (report => msgs # <<>>)
    /\ \A g \in todo[n] \ {f} : ~f.current /\ (g.current \/ f.name < g.name)
    /\ todo' = [todo EXCEPT ![n] = @ \ {f}]
    /\ Send(n, Batch(msgs, f.name, report))
    /\ logposTs' = IF report THEN [logposTs EXCEPT ![n] = f.name] ELSE logposTs
    /\ peerTs' = IF msgs # <<>> THEN [peerTs EXCEPT ![n] = msgs[Len(msgs)]] ELSE peerTs
    /\ count' = [count EXCEPT ![n] = @ + Len(msgs)]
    /\ Drop(n, IF f.current /\ msgs # <<>>
               THEN {m \in Missing(n) \ current[n] : m < msgs[Len(msgs)]} ELSE {})
    /\ now' = now /\ connections' = connections /\ link' = link /\ up' = up /\ relay' = relay
    /\ current' = current /\ files' = files /\ foreign' = foreign /\ localPos' = localPos
    /\ syncing' = syncing /\ sync' = sync /\ misplaced' = misplaced
    /\ remotePos' = remotePos /\ sent' = sent /\ handled' = handled

\* ReplayFile sends one file.
LEMMA OneFile ==
    ASSUME NEW n \in Nodes, ReplayFile(n)
    PROVE  \E f, msgs, report : FileSent(n, f, msgs, report)
<1>1. PICK f \in todo[n] : \E msgs \in Ascending({m \in Content(n, f) : m > peerTs[n]}) :
        LET report == msgs # <<>> /\ f.name > logposTs[n] + PositionSlack
            last == msgs[Len(msgs)]
        IN
        /\ \A g \in todo[n] \ {f} : ~f.current /\ (g.current \/ f.name < g.name)
        /\ todo' = [todo EXCEPT ![n] = @ \ {f}]
        /\ Send(n, Batch(msgs, f.name, report))
        /\ logposTs' = IF report THEN [logposTs EXCEPT ![n] = f.name] ELSE logposTs
        /\ peerTs' = IF msgs # <<>> THEN [peerTs EXCEPT ![n] = last] ELSE peerTs
        /\ count' = [count EXCEPT ![n] = @ + Len(msgs)]
        /\ Drop(n, IF f.current /\ msgs # <<>>
                   THEN {m \in Missing(n) \ current[n] : m < last} ELSE {})
        /\ UNCHANGED <<now, linkVars, relay, foreign, logVars, localPos, remotePos, syncing,
                       sync, sent, handled, misplaced>>
  BY DEF ReplayFile
<1>2. PICK msgs \in Ascending({m \in Content(n, f) : m > peerTs[n]}) :
        LET report == msgs # <<>> /\ f.name > logposTs[n] + PositionSlack
            last == msgs[Len(msgs)]
        IN
        /\ \A g \in todo[n] \ {f} : ~f.current /\ (g.current \/ f.name < g.name)
        /\ todo' = [todo EXCEPT ![n] = @ \ {f}]
        /\ Send(n, Batch(msgs, f.name, report))
        /\ logposTs' = IF report THEN [logposTs EXCEPT ![n] = f.name] ELSE logposTs
        /\ peerTs' = IF msgs # <<>> THEN [peerTs EXCEPT ![n] = last] ELSE peerTs
        /\ count' = [count EXCEPT ![n] = @ + Len(msgs)]
        /\ Drop(n, IF f.current /\ msgs # <<>>
                   THEN {m \in Missing(n) \ current[n] : m < last} ELSE {})
        /\ UNCHANGED <<now, linkVars, relay, foreign, logVars, localPos, remotePos, syncing,
                       sync, sent, handled, misplaced>>
  BY <1>1
<1>3. PICK report : report = (msgs # <<>> /\ f.name > logposTs[n] + PositionSlack)
  OBVIOUS
<1>4. report \in BOOLEAN /\ (report => msgs # <<>>)
  BY <1>3
<1>5. FileSent(n, f, msgs, report)
  BY <1>2, <1>3, <1>4, Zenon DEF FileSent, linkVars, logVars
<1> QED
  BY <1>5

\* ReplayFile keeps the types.
LEMMA FileTypes ==
    ASSUME IInv, NEW n \in Nodes, ReplayFile(n)
    PROVE  TypeOK'
<1>1. TypeOK /\ Direction(n)
  BY DEF IInv
<1>2. PICK f, msgs, report : FileSent(n, f, msgs, report)
  BY OneFile
<1> USE <1>2 DEF FileSent
<1>3. msgs \in Seq(Times) /\ Len(msgs) \in Nat
  BY <1>1, FileMessages
<1>4. f.name \in Times
  BY <1>1 DEF TypeOK
<1>5. chan' \in [Nodes -> Seq(Messages)]
  <2>1. PICK batch : batch = Batch(msgs, f.name, report)
    OBVIOUS
  <2>2. batch \in Seq(Messages) /\ Send(n, batch)
    BY <1>2, <1>3, <1>4, <2>1, BatchIs
  <2> QED
    BY <1>1, <2>2, Sending
<1>6. peerTs' \in [Nodes -> Times]
  <2>1. msgs # <<>> => msgs[Len(msgs)] \in Times
    BY <1>3
  <2> QED
    BY <1>1, <1>2, <2>1 DEF TypeOK
<1>7. logposTs' \in [Nodes -> Times]
  BY <1>1, <1>2, <1>4 DEF TypeOK
<1>8. count' \in [Nodes -> Nat]
  BY <1>1, <1>2, <1>3 DEF TypeOK
<1>9. todo' \in [Nodes -> SUBSET [name: Times, current: BOOLEAN]]
  BY <1>1, <1>2 DEF TypeOK
<1>10. dropped' \in [Nodes -> SUBSET (1..now)]
  <2>1. PICK gone : gone = IF f.current /\ msgs # <<>>
                           THEN {m \in Missing(n) \ current[n] : m < msgs[Len(msgs)]} ELSE {}
    OBVIOUS
  <2>2. dropped' = [dropped EXCEPT ![n] = @ \cup gone] /\ gone \subseteq 1..now
    BY <1>1, <1>2, <2>1, EventNumbers DEF Drop
  <2> QED
    BY <1>1, <2>2 DEF TypeOK
<1>11. /\ now' = now /\ connections' = connections /\ link' = link /\ up' = up /\ relay' = relay
       /\ current' = current /\ files' = files /\ foreign' = foreign /\ localPos' = localPos
       /\ syncing' = syncing /\ sync' = sync /\ misplaced' = misplaced
       /\ remotePos' = remotePos /\ sent' = sent /\ handled' = handled
  OBVIOUS
<1> QED
  BY <1>1, <1>5, <1>6, <1>7, <1>8, <1>9, <1>10, <1>11 DEF TypeOK

\* Connect, Break and Disconnect keep the types.
LEMMA LinkTypes ==
    ASSUME IInv, Connect \/ Break \/ \E n \in Nodes : Disconnect(n)
    PROVE  TypeOK'
<1>1. TypeOK
  BY DEF IInv
<1>2. connections' \in 0..MaxConnections
  <2>1. MaxConnections \in Nat
    BY ReplayLogAssumption
  <2> QED
    BY <1>1, <2>1 DEF TypeOK, Connect, Break, Disconnect
<1>3. link' \in BOOLEAN /\ up' \in [Nodes -> BOOLEAN]
  BY <1>1 DEF TypeOK, Connect, Break, Disconnect
<1>4. chan' \in [Nodes -> Seq(Messages)]
  <2>1. CASE Break
    <3>1. PICK none : none = <<>>
      OBVIOUS
    <3>2. none \in Seq(Messages) /\ chan' = [n \in Nodes |-> none]
      BY <2>1, <3>1 DEF Break
    <3> QED
      BY <3>2
  <2>2. CASE Connect \/ \E n \in Nodes : Disconnect(n)
    BY <1>1, <2>2 DEF TypeOK, Connect, Disconnect
  <2> QED
    BY <2>1, <2>2
<1>5. /\ sync' \in [Nodes -> SyncPcs]
      /\ (\A m \in Nodes : syncing'[m] <=> sync'[m] \notin {"idle", "queued"})
      /\ syncing' = syncing
  <2>1. CASE Connect
    <3>1. /\ \A m \in Nodes : sync[m] = "idle"
          /\ sync' = [m \in Nodes |-> IF m \in Senders THEN "queued" ELSE "idle"]
          /\ syncing' = syncing
      BY <2>1 DEF Connect
    <3> QED
      BY <1>1, <3>1 DEF TypeOK, SyncPcs
  <2>2. CASE Break \/ \E n \in Nodes : Disconnect(n)
    BY <1>1, <2>2 DEF TypeOK, Break, Disconnect, syncVars
  <2> QED
    BY <2>1, <2>2
<1>6. dropped' \in [Nodes -> SUBSET (1..now)] /\ misplaced' = misplaced
  <2>1. CASE Break
    <3>1. dropped' = [m \in Nodes |->
             dropped[m] \cup (Events(chan[Peer(m)]) \ (Logged(m) \cup {relay[m]}))]
      BY <2>1 DEF Break
    <3>2. \A m \in Nodes : Events(chan[Peer(m)]) \subseteq 1..now
      BY <1>1, EventNumbers DEF IInv
    <3>3. \A m \in Nodes : dropped[m] \subseteq 1..now
      BY <1>1 DEF TypeOK
    <3> QED
      BY <2>1, <3>1, <3>2, <3>3 DEF Break
  <2>2. CASE Connect \/ \E n \in Nodes : Disconnect(n)
    BY <1>1, <2>2 DEF TypeOK, Connect, Disconnect, excuses
  <2> QED
    BY <2>1, <2>2
<1>7. /\ now' = now /\ relay' = relay /\ peerTs' = peerTs /\ logposTs' = logposTs /\ count' = count
      /\ todo' = todo
      /\ current' = current /\ files' = files /\ foreign' = foreign /\ localPos' = localPos
      /\ remotePos' = remotePos /\ sent' = sent /\ handled' = handled
  BY DEF Connect, Break, Disconnect, logVars, syncVars
<1> QED
  BY <1>1, <1>2, <1>3, <1>4, <1>5, <1>6, <1>7 DEF TypeOK

\* MessageHandler keeps the types.
LEMMA HandlerTypes ==
    ASSUME IInv, NEW n \in Nodes, MessageHandler(n)
    PROVE  TypeOK'
<1>1. TypeOK /\ Direction(n) /\ Direction(Peer(n))
  BY Peers DEF IInv
<1>2. PICK msg : msg = Head(chan[n])
  OBVIOUS
<1>3. /\ chan[n] \in Seq(Messages) /\ chan[n] # <<>>
      /\ 1 \in DOMAIN chan[n] /\ msg = chan[n][1] /\ msg \in Messages
  BY <1>1, <1>2 DEF TypeOK, MessageHandler
<1>4. msg.ts \in Nat /\ msg.ts <= now + 1 /\ now \in Nat
  BY <1>1, <1>3, TypesOfNode DEF NodeTypes, Direction, ConfirmedOK
<1>5. msg.type = "event" => msg.ts \in 1..now
  <2>1. msg.type = "event" => msg.ts \in sent[Peer(n)]
    BY <1>1, <1>3, Peers DEF Direction, InOrder
  <2> QED
    BY <1>1, <2>1, Peers, TypesOfNode DEF NodeTypes
<1>6. chan' \in [Nodes -> Seq(Messages)]
  BY <1>1, <1>3 DEF MessageHandler, TypeOK
<1>7. remotePos' \in [Nodes -> 0..now]
  BY <1>1, <1>2, <1>4, <1>5 DEF MessageHandler, TypeOK
<1>8. handled' \in [Nodes -> SUBSET (1..now)]
  BY <1>1, <1>2, <1>4, <1>5 DEF MessageHandler, TypeOK
<1>9. foreign' \in [Nodes -> BOOLEAN]
  BY <1>1 DEF MessageHandler, TypeOK
<1>10. localPos' \in [Nodes -> 0..(now + 1)]
  BY <1>1, <1>2, <1>4 DEF MessageHandler, TypeOK
<1>11. misplaced' \in [Nodes -> SUBSET (1..now)]
  <2>1. PICK lost : lost = IF msg.type = "position" THEN {m \in Waiting(n) : m <= msg.ts} ELSE {}
    OBVIOUS
  <2>2. misplaced' = [misplaced EXCEPT ![n] = @ \cup lost] /\ lost \subseteq 1..now
    BY <1>1, <1>2, <2>1, EventNumbers DEF MessageHandler, Misplace
  <2> QED
    BY <1>1, <2>2 DEF TypeOK
<1>12. /\ now' = now /\ connections' = connections /\ link' = link /\ up' = up /\ relay' = relay
       /\ current' = current /\ files' = files
       /\ syncing' = syncing /\ sync' = sync /\ peerTs' = peerTs /\ logposTs' = logposTs
       /\ count' = count /\ todo' = todo /\ sent' = sent /\ dropped' = dropped
  BY DEF MessageHandler, linkVars, logVars, syncVars
<1> QED
  BY <1>1, <1>6, <1>7, <1>8, <1>9, <1>10, <1>11, <1>12 DEF TypeOK

\* ApiTimerHandler keeps the types.
LEMMA TimerTypes ==
    ASSUME IInv, NEW n \in Nodes, ApiTimerHandler(n)
    PROVE  TypeOK'
<1>1. TypeOK
  BY DEF IInv
<1>2. chan' \in [Nodes -> Seq(Messages)]
  <2>1. PICK s : s = <<[type |-> "ack", ts |-> remotePos[n]]>>
    OBVIOUS
  <2>2. remotePos[n] \in Times
    BY <1>1, TypesOfNode, Bounds DEF NodeTypes, Times
  <2>3. s \in Seq(Messages)
    BY <2>1, <2>2 DEF Messages
  <2>4. Send(n, s) \/ chan' = chan
    BY <2>1 DEF ApiTimerHandler
  <2>5. ASSUME Send(n, s) PROVE chan' \in [Nodes -> Seq(Messages)]
    BY <1>1, <2>3, <2>5, Sending
  <2> QED
    BY <1>1, <2>4, <2>5 DEF TypeOK
<1>3. files' \in [Nodes -> SUBSET [name: Times, msgs: SUBSET (1..now)]]
  <2>1. PICK unneeded : files' = [files EXCEPT ![n] = @ \ unneeded]
    BY DEF ApiTimerHandler
  <2> QED
    BY <1>1, <2>1 DEF TypeOK
<1>4. /\ now' = now /\ connections' = connections /\ link' = link /\ up' = up /\ relay' = relay
      /\ current' = current /\ foreign' = foreign /\ localPos' = localPos
      /\ syncing' = syncing /\ sync' = sync /\ misplaced' = misplaced /\ dropped' = dropped
      /\ peerTs' = peerTs /\ logposTs' = logposTs /\ count' = count /\ todo' = todo
      /\ remotePos' = remotePos /\ sent' = sent /\ handled' = handled
  BY DEF ApiTimerHandler, linkVars, syncVars, excuses
<1> QED
  BY <1>1, <1>2, <1>3, <1>4 DEF TypeOK

-----------------------------------------------------------------------------
(* The two directions of the events, one action at a time                   *)

\* Nothing happens to the events of a node.
LEMMA NothingHappens ==
    ASSUME TypeOK, TypeOK', NEW n \in Nodes, Direction(n),
           SameLog(n), MoreKnown(n), handled'[Peer(n)] = handled[Peer(n)],
           localPos'[n] = localPos[n], remotePos'[Peer(n)] = remotePos[Peer(n)],
           sync'[n] = sync[n], peerTs'[n] = peerTs[n], todo'[n] = todo[n],
           now <= now', link' => link, chan'[Peer(n)] = chan[Peer(n)],
           \A i \in DOMAIN chan'[n] :
              \/ \E j \in DOMAIN chan[n] : chan'[n][i] = chan[n][j]
              \/ /\ chan'[n][i].ts <= now' + 1
                 /\ chan'[n][i].type = "ack" => chan'[n][i].ts <= remotePos[Peer(n)]
    PROVE  Direction(n)'
<1>1. PICK s : s = <<>>
  OBVIOUS
<1>2. s \in Seq(Messages) /\ \A i \in DOMAIN s : s[i].type # "event"
  BY <1>1
<1>3. chan[Peer(n)] \in Seq(Messages)
  BY Peers DEF TypeOK
<1>4. chan'[Peer(n)] = chan[Peer(n)] \o s
  BY <1>1, <1>3
<1> QED
  BY <1>2, <1>4, DirectionStays

\* What Relay does
Relayed(n, ts, live, log, gone) ==
    /\ ts = now + 1 /\ now' = ts /\ relay[n] = 0
    /\ sent' = [sent EXCEPT ![n] = @ \cup {ts}]
    /\ relay' = [relay EXCEPT ![n] = IF log THEN ts ELSE 0]
    /\ live /\ link => /\ chan'[Peer(n)] = chan[Peer(n)] \o <<[type |-> "event", ts |-> ts]>>
                       /\ chan'[n] = chan[n]
    /\ ~(live /\ link) => chan' = chan
    /\ dropped' = [dropped EXCEPT ![n] = @ \cup gone]
    /\ live => Missing(n) \subseteq gone
    /\ log \/ (live /\ link) \/ ts \in gone
    /\ link' = link /\ current' = current /\ files' = files /\ localPos' = localPos
    /\ remotePos' = remotePos /\ sync' = sync /\ peerTs' = peerTs /\ todo' = todo
    /\ handled' = handled /\ misplaced' = misplaced

\* Relay is such a step.
LEMMA RelayIs ==
    ASSUME IInv, NEW n \in Nodes, Relay(n)
    PROVE  \E ts, live, log, gone : Relayed(n, ts, live, log, gone)
<1>1. TypeOK
  BY DEF IInv
<1>2. PICK ts : ts = now + 1
  OBVIOUS
<1>3. PICK live \in BOOLEAN : live = (up[n] /\ ~syncing[n])
  OBVIOUS
<1>4. PICK log \in BOOLEAN : /\ relay' = IF log THEN [relay EXCEPT ![n] = ts] ELSE relay
                             /\ Drop(n, (IF live THEN Missing(n) ELSE {})
                                        \cup (IF log \/ (live /\ link) THEN {} ELSE {ts}))
  <2>1. PICK otherDown \in {FALSE, Others} :
           /\ relay' = IF ~up[n] \/ otherDown THEN [relay EXCEPT ![n] = ts] ELSE relay
           /\ Drop(n, (IF live THEN Missing(n) ELSE {})
                      \cup (IF (~up[n] \/ otherDown) \/ (live /\ link) THEN {} ELSE {ts}))
    BY <1>2, <1>3 DEF Relay
  <2>2. PICK log \in BOOLEAN : log = (~up[n] \/ otherDown)
    OBVIOUS
  <2> QED
    BY <2>1, <2>2
<1>5. PICK gone : gone = (IF live THEN Missing(n) ELSE {})
                         \cup (IF log \/ (live /\ link) THEN {} ELSE {ts})
  OBVIOUS
<1>6. /\ dropped' = [dropped EXCEPT ![n] = @ \cup gone]
      /\ live => Missing(n) \subseteq gone
      /\ log \/ (live /\ link) \/ ts \in gone
  BY <1>4, <1>5 DEF Drop
<1>7. /\ live /\ link => /\ chan'[Peer(n)] = chan[Peer(n)] \o <<[type |-> "event", ts |-> ts]>>
                         /\ chan'[n] = chan[n]
      /\ ~(live /\ link) => chan' = chan
  <2>1. chan \in [Nodes -> Seq(Messages)]
    BY <1>1 DEF TypeOK
  <2>2. IF live THEN Send(n, <<[type |-> "event", ts |-> ts]>>) ELSE chan' = chan
    BY <1>2, <1>3 DEF Relay
  <2> QED
    BY <2>1, <2>2, Peers DEF Send
<1>8. relay[n] = 0 /\ relay' = [relay EXCEPT ![n] = IF log THEN ts ELSE 0]
  BY <1>1, <1>4 DEF Relay, TypeOK
<1>9. /\ now' = ts /\ sent' = [sent EXCEPT ![n] = @ \cup {ts}]
      /\ link' = link /\ current' = current /\ files' = files /\ localPos' = localPos
      /\ remotePos' = remotePos /\ sync' = sync /\ peerTs' = peerTs /\ todo' = todo
      /\ handled' = handled /\ misplaced' = misplaced
  BY <1>2 DEF Relay, linkVars, logVars, syncVars
<1> QED
  BY <1>2, <1>6, <1>7, <1>8, <1>9 DEF Relayed

\* An event is on its way as a message of the channel.
LEMMA OnItsWay ==
    ASSUME TypeOK, NEW n \in Nodes, NEW m \in Events(chan[n])
    PROVE  \E j \in DOMAIN chan[n] : chan[n][j] = [type |-> "event", ts |-> m]
<1>1. chan[n] \in Seq(Messages)
  BY DEF TypeOK
<1>2. PICK j \in DOMAIN chan[n] : chan[n][j].type = "event" /\ chan[n][j].ts = m
  BY EventsAre
<1>3. chan[n][j] \in Messages
  BY <1>1
<1> QED
  BY <1>2, <1>3 DEF Messages

\* Relay: a new event is sent behind all others, waits for the log or is given up.
LEMMA RelayKeeps ==
    ASSUME IInv, TypeOK', NEW n \in Nodes, Relay(n)
    PROVE  BrokenOK' /\ Direction(n)' /\ Direction(Peer(n))'
<1>1. TypeOK /\ Direction(n) /\ Direction(Peer(n)) /\ BrokenOK
  BY Peers DEF IInv
<1>2. PICK ts, live, log, gone : Relayed(n, ts, live, log, gone)
  BY RelayIs
<1> USE <1>2 DEF Relayed
<1>3. PICK p \in Nodes : p = Peer(n) /\ p # n /\ Peer(p) = n /\ Nodes = {n, p}
  BY Peers
<1>4. NodeTypes(n) /\ NodeTypes(p)
  BY <1>1, TypesOfNode
<1>5. now \in Nat /\ ts \in Nat /\ ts = now + 1 /\ sent[n] \subseteq 1..now /\ remotePos[p] \in 0..now
  BY <1>4 DEF NodeTypes
<1>6. sent'[n] = sent[n] \cup {ts} /\ relay'[n] = IF log THEN ts ELSE 0
  BY <1>1 DEF TypeOK
<1>7. MoreKnown(n) /\ Peer(n)' = Peer(n) /\ Logged(n)' = Logged(n)
  BY <1>1 DEF MoreKnown, Peer, Logged, TypeOK
<1>8. dropped'[n] = dropped[n] \cup gone
  BY <1>1 DEF TypeOK
<1>9. PICK c : c = chan[p]
  OBVIOUS
<1>10. PICK d : d = chan'[p]
  OBVIOUS
<1>11. c \in Seq(Messages) /\ d \in Seq(Messages)
  BY <1>1, <1>9, <1>10 DEF TypeOK
<1>12. /\ \A i \in DOMAIN c : i \in DOMAIN d /\ d[i] = c[i]
       /\ \A i \in DOMAIN c : \A j \in 1..(i - 1) : d[j] = c[j]
       /\ \A i \in DOMAIN d : \/ i \in DOMAIN c
                              \/ /\ live /\ link /\ i = Len(c) + 1
                                 /\ d[i].type = "event" /\ d[i].ts = ts
       /\ live /\ link => Len(c) + 1 \in DOMAIN d /\ d[Len(c) + 1].type = "event"
                          /\ d[Len(c) + 1].ts = ts
  <2>1. CASE live /\ link
    <3>1. d = c \o <<[type |-> "event", ts |-> ts]>>
      BY <1>3, <1>9, <1>10, <2>1
    <3> QED
      BY <1>11, <2>1, <3>1
  <2>2. CASE ~(live /\ link)
    BY <1>9, <1>10, <1>11, <2>2
  <2> QED
    BY <2>1, <2>2
<1>13. BrokenOK'
  BY <1>1 DEF BrokenOK
<1>14. RelayOK(n)'
  <2>1. ts \notin Logged(n)
    BY <1>1, <1>5, EventNumbers
  <2>2. \A m \in sent'[n] : m <= ts
    BY <1>5, <1>6
  <2>3. handled[p] \cup Logged(n) \subseteq sent[n]
    BY <1>1, <1>3 DEF Direction, RelayOK
  <2> QED
    BY <1>3, <1>6, <1>7, <2>1, <2>2, <2>3 DEF RelayOK
<1>15. LogOrdered(n)'
  BY <1>1 DEF Direction, LogOrdered
<1>16. \A m \in Events(c) : m \in Events(d)
  BY <1>12, EventsAre
<1>17. ASSUME NEW m \in sent[n]
       PROVE  \/ Known(n, m)'
              \/ m \in Logged(n) /\ m > localPos[n]
              \/ m \in Events(c) /\ m \notin Logged(n)
  <2>1. m # 0
    BY <1>5
  <2> QED
    BY <1>1, <1>3, <1>7, <1>9, <2>1, StaysKnown DEF Direction, AccountedFor
<1>18. AccountedFor(n)'
  <2> SUFFICES ASSUME NEW m \in sent'[n]
               PROVE  \/ Known(n, m)'
                      \/ m \in Logged(n) /\ m > localPos[n]
                      \/ m = relay'[n]
                      \/ m \in Events(d) /\ m \notin Logged(n)
    <3>1. Events(chan[Peer(n)])' = Events(d)
      BY <1>3, <1>7, <1>10 DEF Events
    <3> QED
      BY <1>7, <3>1 DEF AccountedFor
  <2>1. CASE m \in sent[n]
    BY <1>16, <1>17, <2>1
  <2>2. CASE m = ts
    <3>1. CASE log
      BY <1>6, <2>2, <3>1
    <3>2. CASE live /\ link
      <4>1. ts \in Events(d)
        BY <1>12, <3>2, EventsAre
      <4>2. ts \notin Logged(n)
        BY <1>1, <1>5, EventNumbers
      <4> QED
        BY <2>2, <4>1, <4>2
    <3>3. CASE ts \in gone
      BY <1>8, <2>2, <3>3 DEF Known, Excused
    <3> QED
      BY <3>1, <3>2, <3>3
  <2> QED
    BY <1>6, <2>1, <2>2
<1>19. InOrder(n)'
  <2> SUFFICES ASSUME NEW i \in DOMAIN d, d[i].type = "event"
               PROVE  /\ d[i].ts \in sent'[n]
                      /\ \A m \in sent'[n] : m < d[i].ts =>
                           Known(n, m)' \/ \E j \in 1..(i - 1) : d[j] = [type |-> "event", ts |-> m]
    BY <1>3, <1>7, <1>10 DEF InOrder
  <2>1. CASE i \in DOMAIN c
    <3>1. /\ c[i].ts \in sent[n]
          /\ \A m \in sent[n] : m < c[i].ts =>
               Known(n, m) \/ \E j \in 1..(i - 1) : c[j] = [type |-> "event", ts |-> m]
      BY <1>1, <1>3, <1>9, <1>12, <2>1 DEF Direction, InOrder
    <3>2. \A m \in sent'[n] : m < c[i].ts => m \in sent[n]
      BY <1>5, <1>6, <3>1
    <3> QED
      BY <1>6, <1>7, <1>12, <2>1, <3>1, <3>2, StaysKnown
  <2>2. CASE live /\ link /\ i = Len(c) + 1 /\ d[i].ts = ts
    <3> SUFFICES ASSUME NEW m \in sent[n]
                 PROVE  Known(n, m)' \/ \E j \in 1..(i - 1) : d[j] = [type |-> "event", ts |-> m]
      BY <1>5, <1>6, <2>2
    <3>1. CASE m \in Events(c)
      <4>1. PICK j \in DOMAIN c : c[j] = [type |-> "event", ts |-> m]
        BY <1>1, <1>9, <3>1, OnItsWay
      <4> QED
        BY <1>11, <1>12, <2>2, <4>1
    <3>2. CASE m \in Logged(n) /\ m \notin Events(c)
      <4>1. CASE m \in handled[p]
        BY <1>3, <1>7, <4>1 DEF Known
      <4>2. CASE m \notin handled[p]
        <5>1. m \in Missing(n)
          BY <1>3, <1>9, <3>2, <4>2 DEF Missing
        <5> QED
          BY <1>8, <2>2, <5>1 DEF Known, Excused
      <4> QED
        BY <4>1, <4>2
    <3> QED
      BY <1>17, <3>1, <3>2
  <2> QED
    BY <1>12, <2>1, <2>2
<1>20. ConfirmedOK(n)'
  <2>1. chan'[n] = chan[n]
    OBVIOUS
  <2>2. \A m \in sent'[n] : m <= remotePos[p] => Known(n, m)'
    BY <1>1, <1>3, <1>5, <1>6, <1>7, StaysKnown DEF Direction, ConfirmedOK
  <2>3. ASSUME NEW i \in DOMAIN chan[n]
        PROVE  /\ chan[n][i].ts <= now' + 1
               /\ chan[n][i].type = "ack" =>
                     chan[n][i].ts <= now' /\ \A m \in sent'[n] : m <= chan[n][i].ts => Known(n, m)'
    <3>1. chan[n][i].ts \in Nat /\ chan[n][i].ts <= now + 1
      BY <1>1, <1>4 DEF NodeTypes, Direction, ConfirmedOK
    <3>2. chan[n][i].type = "ack" =>
             chan[n][i].ts <= now /\ \A m \in sent[n] : m <= chan[n][i].ts => Known(n, m)'
      BY <1>1, <1>7, StaysKnown DEF Direction, ConfirmedOK
    <3> QED
      BY <1>5, <1>6, <3>1, <3>2
  <2> QED
    BY <1>3, <1>7, <2>1, <2>2, <2>3 DEF ConfirmedOK
<1>21. PassOK(n)'
  <2>1. \A g \in todo[n] : g.name \in Nat /\ g.name <= now + 1
    BY <1>1, <1>4 DEF NodeTypes, Direction, PassOK
  <2>2. \A g \in todo[n] : ~g.current => \A m \in current[n] : g.name <= m
    BY <1>1 DEF Direction, PassOK
  <2>3. \A m : Behind(n, m)' <=> Behind(n, m)
    BY DEF Behind
  <2>4. ASSUME link, sync[n] \in {"pass", "last"}, NEW m \in Logged(n)
        PROVE  Known(n, m)' \/ m \in Events(d) \/ Behind(n, m)'
    <3>1. Known(n, m) \/ m \in Events(c) \/ Behind(n, m)
      BY <1>1, <1>3, <1>9, <2>4 DEF Direction, PassOK
    <3> QED
      BY <1>7, <1>16, <2>3, <3>1, StaysKnown
  <2>5. Events(chan[Peer(n)])' = Events(d)
    BY <1>3, <1>7, <1>10 DEF Events
  <2>6. sync'[n] \notin {"pass", "last"} => todo'[n] = {} /\ peerTs'[n] = 0
    BY <1>1 DEF Direction, PassOK
  <2>7. \A g \in todo'[n] : /\ g.name <= now' + 1
                            /\ ~g.current => /\ \A m \in current'[n] : g.name <= m
                                             /\ relay'[n] # 0 => g.name <= relay'[n]
    BY <1>5, <1>6, <2>1, <2>2
  <2> QED
    BY <1>7, <2>4, <2>5, <2>6, <2>7 DEF PassOK
<1>22. Direction(p)'
  <2>1. SameLog(p) /\ MoreKnown(p)
    BY <1>1, <1>3 DEF SameLog, MoreKnown, TypeOK
  <2>2. \A i \in DOMAIN chan'[p] :
              \/ \E j \in DOMAIN chan[p] : chan'[p][i] = chan[p][j]
              \/ /\ chan'[p][i].ts <= now' + 1
                 /\ chan'[p][i].type = "ack" => chan'[p][i].ts <= remotePos[Peer(p)]
    BY <1>5, <1>9, <1>10, <1>12
  <2>3. chan'[n] = chan[n]
    OBVIOUS
  <2>4. now <= now'
    BY <1>5
  <2> QED
    BY <1>1, <1>3, <2>1, <2>2, <2>3, <2>4, NothingHappens
<1> QED
  BY <1>3, <1>13, <1>14, <1>15, <1>18, <1>19, <1>20, <1>21, <1>22 DEF Direction

\* Nothing is sent, and what is on its way stays in order.
LEMMA OrderQuiet ==
    ASSUME NEW n \in Nodes, sent'[n] = sent[n], MoreKnown(n),
           chan'[Peer(n)] = chan[Peer(n)], InOrder(n)
    PROVE  InOrder(n)'
<1>1. Peer(n)' = Peer(n)
  BY DEF Peer
<1>2. \A m : Known(n, m) => Known(n, m)'
  BY StaysKnown
<1> QED
  BY <1>1, <1>2 DEF InOrder

\* PersistMessage: the newest event goes to the end of the log, behind the position of the
\* peer unless it is given up, and a running replay has not yet come that far.
LEMMA PersistKeeps ==
    ASSUME IInv, TypeOK', NEW n \in Nodes, PersistMessage(n)
    PROVE  BrokenOK' /\ Direction(n)' /\ Direction(Peer(n))'
<1>1. TypeOK /\ Direction(n) /\ Direction(Peer(n)) /\ BrokenOK
  BY Peers DEF IInv
<1>2. PICK p \in Nodes : p = Peer(n) /\ p # n /\ Peer(p) = n /\ Nodes = {n, p}
  BY Peers
<1>3. NodeTypes(n) /\ NodeTypes(p)
  BY <1>1, TypesOfNode
<1>4. PICK new : new = relay[n]
  OBVIOUS
<1>5. now \in Nat /\ new \in 1..now /\ relay[n] = new /\ sent[n] \subseteq 1..now
      /\ localPos[n] \in Nat /\ peerTs[n] \in Nat
  BY <1>3, <1>4 DEF NodeTypes, PersistMessage
<1>6. /\ now' = now /\ link' = link /\ chan' = chan /\ localPos' = localPos
      /\ remotePos' = remotePos /\ sync' = sync /\ peerTs' = peerTs /\ todo' = todo
      /\ sent' = sent /\ handled' = handled
  BY DEF PersistMessage, linkVars, syncVars
<1>7. PICK full : full = (Cardinality(current[n] \cup {relay[n]}) > MaxLogMessages)
  OBVIOUS
<1>8. PICK file : file = [name |-> new + 1, msgs |-> current[n] \cup {new}]
  OBVIOUS
<1>9. /\ current'[n] = IF full THEN {} ELSE current[n] \cup {new}
      /\ files'[n] = IF full THEN files[n] \cup {file} ELSE files[n]
      /\ relay'[n] = 0
      /\ current'[p] = current[p] /\ files'[p] = files[p] /\ relay'[p] = relay[p]
  BY <1>1, <1>2, <1>4, <1>7, <1>8 DEF PersistMessage, RotateLogFile, TypeOK
<1>10. MoreKnown(n) /\ (new <= localPos[n] \/ new <= peerTs[n] => Known(n, new)')
  <2>1. PICK lost : lost = {m \in {relay[n]} : m <= localPos[n] \/ m <= peerTs[n]}
    OBVIOUS
  <2>2. misplaced' = [misplaced EXCEPT ![n] = @ \cup lost]
    BY <2>1 DEF PersistMessage, Misplace
  <2>3. misplaced'[n] = misplaced[n] \cup lost
    BY <1>1, <2>2 DEF TypeOK
  <2>4. PICK gone : dropped' = [dropped EXCEPT ![n] = @ \cup gone]
    BY DEF PersistMessage, Drop
  <2>5. dropped[n] \subseteq dropped'[n]
    BY <1>1, <2>4 DEF TypeOK
  <2>6. new <= localPos[n] \/ new <= peerTs[n] => new \in lost
    BY <1>4, <2>1
  <2> QED
    BY <1>6, <2>3, <2>5, <2>6 DEF MoreKnown, Known, Excused
<1>11. \A m : m \in Logged(n)' <=> m \in Logged(n) \/ m = new
  <2> SUFFICES ASSUME NEW m
               PROVE  (m \in current'[n] \/ \E f \in files'[n] : m \in f.msgs)
                      <=> (m \in current[n] \/ \E f \in files[n] : m \in f.msgs) \/ m = new
    BY DEF Logged
  <2> QED
    BY <1>8, <1>9
<1>12. \A m \in sent[n] : m <= new
  BY <1>1, <1>4, <1>5 DEF Direction, RelayOK
<1>13. new \in sent[n] /\ new \notin Logged(n) /\ handled[p] \cup Logged(n) \subseteq sent[n]
  BY <1>1, <1>2, <1>4, <1>5 DEF Direction, RelayOK
<1>14. \A m \in Logged(n) : m \in Nat /\ m < new
  BY <1>5, <1>12, <1>13
<1>15. \A f \in files[n] : f.name \in Nat /\ f.name <= new
  <2>1. \A f \in files[n] : f.name \in Nat /\ f.name - 1 \in Logged(n)
    <3>1. \A f \in files[n] : f.name \in Nat
      BY <1>3, Bounds DEF NodeTypes
    <3> QED
      BY <1>1, <3>1, LoggedIs DEF Direction, LogOrdered
  <2> QED
    BY <1>5, <1>14, <2>1
<1>16. Peer(n)' = Peer(n) /\ \A m : Known(n, m) => Known(n, m)'
  BY <1>10, StaysKnown DEF Peer
<1>17. RelayOK(n)'
  BY <1>2, <1>6, <1>9, <1>11, <1>13, <1>16 DEF RelayOK
<1>18. LogOrdered(n)'
  <2>1. \A m \in current[n] : m \in Logged(n)
    BY LoggedIs
  <2>2. \A f \in files[n] : \A m \in f.msgs : m \in Logged(n)
    BY LoggedIs
  <2>3. LogOrdered(n)
    BY <1>1 DEF Direction
  <2>4. CASE ~full
    BY <1>9, <1>15, <2>3, <2>4 DEF LogOrdered
  <2>5. CASE full
    <3>1. current'[n] = {} /\ files'[n] = files[n] \cup {file}
      BY <1>9, <2>5
    <3>2. file.name = new + 1 /\ file.msgs = current[n] \cup {new}
      BY <1>8
    <3>3. file.name - 1 \in file.msgs /\ \A m \in file.msgs : m < file.name
      BY <1>5, <1>14, <2>1, <3>2
    <3>4. \A f \in files[n] : f.name < file.name /\ \A m \in file.msgs : f.name <= m
      BY <1>5, <1>15, <2>3, <3>2 DEF LogOrdered
    <3>5. \A f \in files[n] : ~(file.name < f.name)
      BY <1>5, <1>15, <3>2
    <3>6. ASSUME NEW f \in files'[n]
          PROVE  /\ f.name - 1 \in f.msgs
                 /\ \A m \in f.msgs : m < f.name
                 /\ \A m \in current'[n] : f.name <= m
      BY <2>3, <3>1, <3>3 DEF LogOrdered
    <3>7. ASSUME NEW f \in files'[n], NEW g \in files'[n]
          PROVE  /\ f = g \/ f.name < g.name \/ g.name < f.name
                 /\ f.name < g.name => \A m \in g.msgs : f.name <= m
      <4>1. CASE f \in files[n] /\ g \in files[n]
        BY <2>3, <4>1 DEF LogOrdered
      <4>2. CASE f \in files[n] /\ g = file
        BY <3>4, <4>2
      <4>3. CASE f = file
        BY <1>5, <3>1, <3>2, <3>4, <3>5, <4>3
      <4> QED
        BY <3>1, <4>1, <4>2, <4>3
    <3> QED
      BY <3>6, <3>7 DEF LogOrdered
  <2> QED
    BY <2>4, <2>5
<1>19. Events(chan[Peer(n)])' = Events(chan[p])
  BY <1>2, <1>6, <1>16 DEF Events
<1>20. AccountedFor(n)'
  <2> SUFFICES ASSUME NEW m \in sent[n]
               PROVE  \/ Known(n, m)'
                      \/ m \in Logged(n)' /\ m > localPos[n]
                      \/ m \in Events(chan[p]) /\ m \notin Logged(n)'
    BY <1>6, <1>19 DEF AccountedFor
  <2>1. CASE m = new
    BY <1>5, <1>10, <1>11, <2>1
  <2>2. CASE m # new
    BY <1>1, <1>2, <1>4, <1>11, <1>16, <2>2 DEF Direction, AccountedFor
  <2> QED
    BY <2>1, <2>2
<1>21. InOrder(n)'
  BY <1>1, <1>6, <1>10, OrderQuiet DEF Direction
<1>22. ConfirmedOK(n)'
  BY <1>1, <1>5, <1>6, <1>10, ConfirmedStays DEF Direction
<1>23. PassOK(n)'
  <2>1. PassOK(n)
    BY <1>1 DEF Direction
  <2>2. \A g \in todo[n] : g.name \in Nat /\ (~g.current => g.name <= new)
    BY <1>3, <1>4, <1>5, <2>1 DEF PassOK, NodeTypes
  <2>3. \A g \in todo'[n] : /\ g.name <= now' + 1
                            /\ ~g.current => /\ \A m \in current'[n] : g.name <= m
                                             /\ relay'[n] # 0 => g.name <= relay'[n]
    BY <1>6, <1>9, <2>1, <2>2 DEF PassOK
  <2>4. \A g \in todo[n] : g.current \/ g.name < file.name
    BY <1>5, <1>8, <2>2
  <2>5. ASSUME link, sync[n] \in {"pass", "last"}, NEW m, m \in Logged(n)'
        PROVE  Known(n, m)' \/ m \in Events(chan[p]) \/ Behind(n, m)'
    <3>1. CASE m = new
      <4>1. CASE new <= peerTs[n]
        BY <1>10, <3>1, <4>1
      <4>2. CASE new > peerTs[n]
        <5>1. \A f \in files[n] : m \notin f.msgs
          BY <1>13, <3>1, LoggedIs
        <5> QED
          BY <1>6, <1>9, <2>4, <3>1, <4>2, <5>1 DEF Behind
      <4> QED
        BY <1>5, <4>1, <4>2
    <3>2. CASE m \in Logged(n)
      <4>1. Known(n, m) \/ m \in Events(chan[p]) \/ Behind(n, m)
        BY <1>2, <2>1, <2>5, <3>2 DEF PassOK
      <4>2. Behind(n, m) => Behind(n, m)'
        BY <1>6, <1>9, <2>4 DEF Behind
      <4> QED
        BY <1>16, <4>1, <4>2
    <3> QED
      BY <1>11, <2>5, <3>1, <3>2
  <2>6. sync'[n] \notin {"pass", "last"} => todo'[n] = {} /\ peerTs'[n] = 0
    BY <1>6, <2>1 DEF PassOK
  <2> QED
    BY <1>6, <1>19, <2>3, <2>5, <2>6 DEF PassOK
<1>24. Direction(p)'
  <2>1. SameLog(p)
    BY <1>6, <1>9 DEF SameLog
  <2>2. MoreKnown(p)
    BY <1>1, <1>2, <1>6 DEF MoreKnown, PersistMessage, Drop, Misplace, TypeOK
  <2>3. now <= now'
    BY <1>5, <1>6
  <2> QED
    BY <1>1, <1>2, <1>6, <2>1, <2>2, <2>3, NothingHappens
<1>25. BrokenOK'
  BY <1>1, <1>6 DEF BrokenOK
<1> QED
  BY <1>2, <1>17, <1>18, <1>20, <1>21, <1>22, <1>23, <1>24, <1>25 DEF Direction

\* A file is named after its last message, which is logged and older than one that waits.
LEMMA FileNames ==
    ASSUME TypeOK, NEW n \in Nodes, Direction(n), NEW f \in files[n]
    PROVE  /\ f.name \in Nat /\ f.name <= now + 1
           /\ relay[n] # 0 => f.name <= relay[n]
           /\ \A m \in f.msgs : m \in Nat /\ m < f.name /\ m \in Logged(n)
<1>1. NodeTypes(n)
  BY TypesOfNode
<1>2. f.name \in Nat
  BY <1>1, Bounds DEF NodeTypes
<1>3. f.name - 1 \in f.msgs /\ \A m \in f.msgs : m < f.name
  BY DEF Direction, LogOrdered
<1>4. \A m \in f.msgs : m \in Logged(n)
  BY LoggedIs
<1>5. Logged(n) \subseteq 1..now /\ now \in Nat /\ relay[n] \in 0..now
  BY <1>1, EventNumbers DEF NodeTypes
<1>6. relay[n] # 0 => \A m \in Logged(n) : m <= relay[n] /\ m # relay[n]
  BY DEF Direction, RelayOK
<1> QED
  BY <1>2, <1>3, <1>4, <1>5, <1>6

\* A pass that begins has to read everything that has not been sent.
LEMMA PassBegins ==
    ASSUME TypeOK, NEW n \in Nodes, Direction(n), SameLog(n), MoreKnown(n), now' = now,
           chan' = chan, link' = link, sync'[n] \in {"pass", "last"}, peerTs'[n] \in Nat,
           todo'[n] = PassFiles(n, peerTs'[n]),
           link => \A m \in Logged(n) :
                      Known(n, m) \/ m \in Events(chan[Peer(n)]) \/ m > peerTs'[n]
    PROVE  PassOK(n)'
<1>1. /\ Peer(n)' = Peer(n)
      /\ Events(chan[Peer(n)])' = Events(chan[Peer(n)])
      /\ Logged(n)' = Logged(n)
  BY DEF Peer, Events, Logged, SameLog
<1>2. now \in Nat
  BY TypesOfNode DEF NodeTypes
<1>3. ASSUME NEW g \in todo'[n]
      PROVE  /\ g.name <= now + 1
             /\ ~g.current => /\ \A m \in current[n] : g.name <= m
                              /\ relay[n] # 0 => g.name <= relay[n]
  <2>1. CASE g = [name |-> now + 1, current |-> TRUE]
    BY <1>2, <2>1
  <2>2. CASE \E f \in files[n] : g = [name |-> f.name, current |-> FALSE]
    <3>1. PICK f \in files[n] : g = [name |-> f.name, current |-> FALSE]
      BY <2>2
    <3>2. \A m \in current[n] : f.name <= m
      BY DEF Direction, LogOrdered
    <3> QED
      BY <3>1, <3>2, FileNames
  <2> QED
    BY <2>1, <2>2, PassFilesAre
<1>4. ASSUME NEW m \in Logged(n), m > peerTs'[n] PROVE Behind(n, m)'
  <2>1. ASSUME NEW f \in files[n], m \in f.msgs
        PROVE  [name |-> f.name, current |-> FALSE] \in todo'[n]
    <3>1. f.name \in Nat /\ m \in Nat /\ m < f.name
      BY <2>1, FileNames
    <3>2. f.name >= peerTs'[n]
      BY <1>4, <3>1
    <3> QED
      BY <3>2, PassFilesAre
  <2> QED
    BY <1>4, <2>1 DEF Behind, SameLog
<1>5. ASSUME link', NEW m \in Logged(n)
      PROVE  Known(n, m)' \/ m \in Events(chan[Peer(n)]) \/ Behind(n, m)'
  BY <1>4, <1>5, StaysKnown
<1>6. \A g \in todo'[n] : /\ g.name <= now' + 1
                          /\ ~g.current => /\ \A m \in current'[n] : g.name <= m
                                           /\ relay'[n] # 0 => g.name <= relay'[n]
  BY <1>3 DEF SameLog
<1> QED
  BY <1>1, <1>5, <1>6 DEF PassOK

\* SyncClient, and the beginning and the end of a pass
LEMMA SyncKeeps ==
    ASSUME IInv, TypeOK', NEW n \in Nodes,
           SyncClient(n) \/ ReplayBegin(n) \/ ReplayAgain(n) \/ ReplayEnd(n)
    PROVE  BrokenOK' /\ Direction(n)' /\ Direction(Peer(n))'
<1>1. TypeOK /\ Direction(n) /\ Direction(Peer(n)) /\ BrokenOK
  BY Peers DEF IInv
<1>2. PICK p \in Nodes : p = Peer(n) /\ p # n /\ Peer(p) = n /\ Nodes = {n, p}
  BY Peers
<1>3. /\ now' = now /\ link' = link /\ relay' = relay
      /\ current' = current /\ files' = files /\ localPos' = localPos
      /\ chan' = chan /\ dropped' = dropped /\ misplaced' = misplaced
      /\ remotePos' = remotePos /\ sent' = sent /\ handled' = handled
  BY DEF SyncClient, ReplayBegin, ReplayAgain, ReplayEnd, linkVars, logVars, excuses
<1>4. SameLog(n) /\ MoreKnown(n) /\ SameLog(p) /\ MoreKnown(p)
  BY <1>3 DEF SameLog, MoreKnown
<1>5. now \in Nat /\ now <= now' /\ peerTs[n] \in Nat /\ localPos[n] \in Nat
  BY <1>1, <1>3, TypesOfNode DEF NodeTypes
<1>6. sync'[p] = sync[p] /\ peerTs'[p] = peerTs[p] /\ todo'[p] = todo[p]
  <2>1. CASE SyncClient(n)
    BY <1>1, <1>2, <2>1 DEF SyncClient, TypeOK
  <2>2. CASE ReplayBegin(n)
    BY <1>1, <1>2, <2>2 DEF ReplayBegin, TypeOK
  <2>3. CASE ReplayAgain(n)
    BY <1>1, <1>2, <2>3 DEF ReplayAgain, TypeOK
  <2>4. CASE ReplayEnd(n)
    BY <1>1, <1>2, <2>4 DEF ReplayEnd, ForgetLocals, TypeOK
  <2> QED
    BY <2>1, <2>2, <2>3, <2>4
<1>7. Direction(p)'
  BY <1>1, <1>2, <1>3, <1>4, <1>5, <1>6, NothingHappens
<1>8. RelayOK(n)' /\ LogOrdered(n)'
  BY <1>1, <1>3, <1>4, LogStays DEF Direction
<1>9. AccountedFor(n)'
  BY <1>1, <1>3, <1>4, AccountStays DEF Direction
<1>10. InOrder(n)'
  BY <1>1, <1>3, <1>4, OrderQuiet DEF Direction
<1>11. ConfirmedOK(n)'
  BY <1>1, <1>3, <1>4, <1>5, ConfirmedStays DEF Direction
<1>12. PassOK(n)'
  <2>1. CASE SyncClient(n)
    <3>1. sync[n] = "queued" /\ sync'[n] = "config" /\ todo'[n] = todo[n] /\ peerTs'[n] = peerTs[n]
      BY <1>1, <2>1 DEF SyncClient, TypeOK
    <3>2. todo'[n] = {} /\ peerTs'[n] = 0
      BY <1>1, <3>1 DEF Direction, PassOK
    <3> QED
      BY <3>1, <3>2 DEF PassOK
  <2>2. CASE ReplayBegin(n)
    <3>1. sync'[n] = "pass" /\ peerTs'[n] = localPos[n] /\ todo'[n] = PassFiles(n, peerTs'[n])
      BY <1>1, <2>2 DEF ReplayBegin, TypeOK
    <3>2. ASSUME NEW m \in Logged(n)
          PROVE  Known(n, m) \/ m > localPos[n]
      <4>1. m \in sent[n] /\ m # relay[n]
        <5>1. m \in 1..now
          BY <1>1, EventNumbers
        <5> QED
          BY <1>1, <1>5, <5>1 DEF Direction, RelayOK
      <4> QED
        BY <1>1, <4>1 DEF Direction, AccountedFor
    <3> QED
      BY <1>1, <1>3, <1>4, <1>5, <3>1, <3>2, PassBegins
  <2>3. CASE ReplayAgain(n)
    <3>1. /\ sync[n] = "pass" /\ sync'[n] \in {"pass", "last"} /\ peerTs'[n] = peerTs[n]
          /\ todo'[n] = PassFiles(n, peerTs'[n])
      BY <1>1, <2>3 DEF ReplayAgain, TypeOK
    <3>2. link => \A m \in Logged(n) :
                     Known(n, m) \/ m \in Events(chan[Peer(n)]) \/ m > peerTs[n]
      BY <1>1, <3>1 DEF Direction, PassOK, Behind
    <3> QED
      BY <1>1, <1>3, <1>4, <1>5, <3>1, <3>2, PassBegins
  <2>4. CASE ReplayEnd(n)
    <3>1. sync'[n] = "idle" /\ todo'[n] = {} /\ peerTs'[n] = 0
      BY <1>1, <2>4 DEF ReplayEnd, ForgetLocals, TypeOK
    <3> QED
      BY <3>1 DEF PassOK
  <2> QED
    BY <2>1, <2>2, <2>3, <2>4
<1>13. BrokenOK'
  BY <1>1, <1>3 DEF BrokenOK
<1> QED
  BY <1>2, <1>7, <1>8, <1>9, <1>10, <1>11, <1>12, <1>13 DEF Direction

\* RelayForeign: the position of the peer moves, and what it did not get is given up.
LEMMA ForeignKeeps ==
    ASSUME IInv, TypeOK', NEW n \in Nodes, RelayForeign(n)
    PROVE  BrokenOK' /\ Direction(n)' /\ Direction(Peer(n))'
<1>1. TypeOK /\ Direction(n) /\ Direction(Peer(n)) /\ BrokenOK
  BY Peers DEF IInv
<1>2. PICK p \in Nodes : p = Peer(n) /\ p # n /\ Peer(p) = n /\ Nodes = {n, p}
  BY Peers
<1>3. /\ now' = now /\ link' = link /\ relay' = relay
      /\ current' = current /\ files' = files /\ sync' = sync /\ peerTs' = peerTs
      /\ todo' = todo /\ chan' = chan /\ dropped' = dropped
      /\ remotePos' = remotePos /\ sent' = sent /\ handled' = handled
  BY DEF RelayForeign, linkVars, logVars, syncVars
<1>4. PICK lost : lost = IF up[n] THEN Waiting(n) ELSE {}
  OBVIOUS
<1>5. misplaced' = [misplaced EXCEPT ![n] = @ \cup lost]
  BY <1>4 DEF RelayForeign, Misplace
<1>6. misplaced'[n] = misplaced[n] \cup lost /\ misplaced'[p] = misplaced[p]
      /\ localPos'[p] = localPos[p]
  BY <1>1, <1>2, <1>5 DEF TypeOK, RelayForeign
<1>7. SameLog(n) /\ MoreKnown(n) /\ SameLog(p) /\ MoreKnown(p)
  BY <1>3, <1>6 DEF SameLog, MoreKnown
<1>8. now \in Nat /\ now <= now'
  BY <1>1, <1>3, TypesOfNode DEF NodeTypes
<1>9. Direction(p)'
  BY <1>1, <1>2, <1>3, <1>6, <1>7, <1>8, NothingHappens
<1>10. RelayOK(n)' /\ LogOrdered(n)' /\ Logged(n)' = Logged(n)
  BY <1>1, <1>3, <1>7, LogStays DEF Direction
<1>11. AccountedFor(n)'
  <2>1. CASE ~up[n]
    <3>1. localPos' = localPos
      BY <2>1 DEF RelayForeign
    <3> QED
      BY <1>1, <1>3, <1>7, <3>1, AccountStays DEF Direction
  <2>2. CASE up[n]
    <3>1. Peer(n)' = Peer(n) /\ Events(chan[Peer(n)])' = Events(chan[p])
      BY <1>2, <1>3 DEF Peer, Events
    <3> SUFFICES ASSUME NEW m \in sent[n]
                 PROVE  Known(n, m)' \/ (m \in Events(chan[p]) /\ m \notin Logged(n))
      BY <1>3, <1>10, <3>1 DEF AccountedFor
    <3>2. m # relay[n] /\ m # 0
      BY <1>1, <1>8, TypesOfNode DEF NodeTypes, RelayForeign
    <3>3. CASE m \in Logged(n)
      <4>1. m \in handled[p] \/ m \in lost
        BY <1>2, <1>4, <2>2, <3>2, <3>3 DEF Waiting
      <4>2. m \in handled[p] => Known(n, m)
        BY <1>2 DEF Known
      <4>3. m \in lost => Known(n, m)'
        BY <1>6 DEF Known, Excused
      <4> QED
        BY <1>7, <4>1, <4>2, <4>3, StaysKnown
    <3>4. CASE m \notin Logged(n)
      BY <1>1, <1>2, <1>7, <3>2, <3>4, StaysKnown DEF Direction, AccountedFor
    <3> QED
      BY <3>3, <3>4
  <2> QED
    BY <2>1, <2>2
<1>12. InOrder(n)'
  BY <1>1, <1>3, <1>7, OrderQuiet DEF Direction
<1>13. ConfirmedOK(n)'
  BY <1>1, <1>3, <1>7, <1>8, ConfirmedStays DEF Direction
<1>14. PassOK(n)'
  BY <1>1, <1>3, <1>7, <1>8, PassStays DEF Direction
<1>15. BrokenOK'
  BY <1>1, <1>3 DEF BrokenOK
<1> QED
  BY <1>2, <1>9, <1>10, <1>11, <1>12, <1>13, <1>14, <1>15 DEF Direction

\* Connect: the replay has not begun.
LEMMA ConnectKeeps ==
    ASSUME IInv, TypeOK', Connect, NEW n \in Nodes
    PROVE  BrokenOK' /\ Direction(n)'
<1>1. TypeOK /\ Direction(n)
  BY DEF IInv
<1>2. /\ now' = now /\ relay' = relay /\ current' = current /\ files' = files
      /\ localPos' = localPos /\ peerTs' = peerTs /\ todo' = todo /\ chan' = chan
      /\ dropped' = dropped /\ misplaced' = misplaced
      /\ remotePos' = remotePos /\ sent' = sent /\ handled' = handled
  BY DEF Connect, logVars, excuses
<1>3. SameLog(n) /\ MoreKnown(n)
  BY <1>2 DEF SameLog, MoreKnown
<1>4. now \in Nat /\ now <= now'
  BY <1>1, <1>2, TypesOfNode DEF NodeTypes
<1>5. RelayOK(n)' /\ LogOrdered(n)'
  BY <1>1, <1>2, <1>3, LogStays DEF Direction
<1>6. AccountedFor(n)'
  BY <1>1, <1>2, <1>3, AccountStays DEF Direction
<1>7. InOrder(n)'
  BY <1>1, <1>2, <1>3, OrderQuiet DEF Direction
<1>8. ConfirmedOK(n)'
  BY <1>1, <1>2, <1>3, <1>4, ConfirmedStays DEF Direction
<1>9. PassOK(n)'
  <2>1. sync[n] = "idle" /\ sync'[n] \in {"queued", "idle"}
    BY DEF Connect
  <2>2. todo'[n] = {} /\ peerTs'[n] = 0
    BY <1>1, <1>2, <2>1 DEF Direction, PassOK
  <2> QED
    BY <2>1, <2>2 DEF PassOK
<1>10. BrokenOK'
  BY DEF Connect, BrokenOK
<1> QED
  BY <1>5, <1>6, <1>7, <1>8, <1>9, <1>10 DEF Direction

\* Break: what was on its way is logged, or given up.
LEMMA BreakKeeps ==
    ASSUME IInv, TypeOK', Break, NEW n \in Nodes
    PROVE  BrokenOK' /\ Direction(n)'
<1>1. TypeOK /\ Direction(n)
  BY DEF IInv
<1>2. /\ now' = now /\ relay' = relay /\ current' = current /\ files' = files /\ link' = FALSE
      /\ localPos' = localPos /\ peerTs' = peerTs /\ todo' = todo /\ sync' = sync
      /\ misplaced' = misplaced
      /\ remotePos' = remotePos /\ sent' = sent /\ handled' = handled
  BY DEF Break, logVars, syncVars
<1>3. dropped'[n] = dropped[n] \cup (Events(chan[Peer(n)]) \ (Logged(n) \cup {relay[n]}))
  BY DEF Break
<1>4. SameLog(n) /\ MoreKnown(n)
  BY <1>2, <1>3 DEF SameLog, MoreKnown
<1>5. now \in Nat /\ now <= now'
  BY <1>1, <1>2, TypesOfNode DEF NodeTypes
<1>6. \A m \in Nodes : chan'[m] = <<>> /\ DOMAIN chan'[m] = {}
  BY DEF Break
<1>7. RelayOK(n)' /\ LogOrdered(n)' /\ Logged(n)' = Logged(n)
  BY <1>1, <1>2, <1>4, LogStays DEF Direction
<1>8. AccountedFor(n)'
  <2> SUFFICES ASSUME NEW m \in sent[n]
               PROVE  \/ Known(n, m)'
                      \/ m \in Logged(n) /\ m > localPos[n]
                      \/ m = relay[n]
    BY <1>2, <1>7 DEF AccountedFor
  <2>1. CASE m \in Events(chan[Peer(n)]) /\ m \notin Logged(n) /\ m # relay[n]
    BY <1>3, <2>1 DEF Known, Excused
  <2> QED
    BY <1>1, <1>4, <2>1, StaysKnown DEF Direction, AccountedFor
<1>9. InOrder(n)'
  <2>1. Peer(n)' = Peer(n)
    BY DEF Peer
  <2> QED
    BY <1>6, <2>1, Peers DEF InOrder
<1>10. ConfirmedOK(n)'
  BY <1>1, <1>2, <1>4, <1>5, <1>6, ConfirmedStays DEF Direction
<1>11. PassOK(n)'
  BY <1>1, <1>2, <1>4, <1>5, PassStays DEF Direction
<1>12. BrokenOK'
  BY <1>6 DEF BrokenOK
<1> QED
  BY <1>7, <1>8, <1>9, <1>10, <1>11, <1>12 DEF Direction

\* Disconnect: nothing was on its way any more.
LEMMA DisconnectKeeps ==
    ASSUME IInv, TypeOK', NEW x \in Nodes, Disconnect(x), NEW n \in Nodes
    PROVE  BrokenOK' /\ Direction(n)'
<1>1. TypeOK /\ Direction(n) /\ BrokenOK
  BY DEF IInv
<1>2. /\ now' = now /\ relay' = relay /\ current' = current /\ files' = files /\ link' = link
      /\ localPos' = localPos /\ peerTs' = peerTs /\ todo' = todo /\ sync' = sync
      /\ misplaced' = misplaced /\ dropped' = dropped /\ chan' = chan
      /\ remotePos' = remotePos /\ sent' = sent /\ handled' = handled
  BY DEF Disconnect, logVars, syncVars, excuses
<1>3. SameLog(n) /\ MoreKnown(n)
  BY <1>2 DEF SameLog, MoreKnown
<1>4. now \in Nat /\ now <= now'
  BY <1>1, <1>2, TypesOfNode DEF NodeTypes
<1>5. Direction(n)'
  BY <1>1, <1>2, <1>3, <1>4, NothingHappens
<1> QED
  BY <1>1, <1>2, <1>5 DEF BrokenOK

\* ApiTimerHandler: every message of a file that is removed is known to the peer or given up,
\* and the peer is told a position up to which the same holds of its events.
LEMMA TimerKeeps ==
    ASSUME IInv, TypeOK', NEW n \in Nodes, ApiTimerHandler(n)
    PROVE  BrokenOK' /\ Direction(n)' /\ Direction(Peer(n))'
<1>1. TypeOK /\ Direction(n) /\ Direction(Peer(n)) /\ BrokenOK
  BY Peers DEF IInv
<1>2. PICK p \in Nodes : p = Peer(n) /\ p # n /\ Peer(p) = n /\ Nodes = {n, p}
  BY Peers
<1>3. /\ now' = now /\ link' = link /\ relay' = relay
      /\ current' = current /\ sync' = sync /\ peerTs' = peerTs /\ localPos' = localPos
      /\ todo' = todo /\ dropped' = dropped /\ misplaced' = misplaced
      /\ remotePos' = remotePos /\ sent' = sent /\ handled' = handled
  BY DEF ApiTimerHandler, linkVars, syncVars, excuses
<1>4. NodeTypes(n) /\ NodeTypes(p)
  BY <1>1, TypesOfNode
<1>5. now \in Nat /\ now <= now' /\ localPos[n] \in Nat /\ remotePos[n] \in 0..now
  BY <1>3, <1>4 DEF NodeTypes
<1>6. /\ files'[n] \subseteq files[n] /\ files'[p] = files[p]
      /\ \A f \in files[n] : f.name > localPos[n] => f \in files'[n]
  <2>1. PICK unneeded \in {UnneededFiles(n)} \cup (IF Others THEN {{}} ELSE {}) :
           files' = [files EXCEPT ![n] = @ \ unneeded]
    BY DEF ApiTimerHandler
  <2>2. files'[n] = files[n] \ unneeded /\ files'[p] = files[p]
    BY <1>1, <1>2, <2>1 DEF TypeOK
  <2>3. unneeded = {f \in files[n] : f.name <= localPos[n]} \/ unneeded = {}
    BY <2>1 DEF UnneededFiles
  <2>4. \A f \in files[n] : f.name \in Nat
    BY <1>1, FileNames
  <2> QED
    BY <1>5, <2>2, <2>3, <2>4
<1>7. PICK s \in Seq(Messages) :
         /\ chan'[p] = chan[p] \o s /\ chan'[n] = chan[n]
         /\ \A i \in DOMAIN s : s[i].type = "ack" /\ s[i].ts = remotePos[n]
         /\ ~link => chan' = chan
  <2>1. chan \in [Nodes -> Seq(Messages)] /\ chan[p] \in Seq(Messages)
    BY <1>1 DEF TypeOK
  <2>2. CASE Send(n, <<[type |-> "ack", ts |-> remotePos[n]]>>) /\ link
    <3>1. PICK s : s = <<[type |-> "ack", ts |-> remotePos[n]]>>
      OBVIOUS
    <3>2. remotePos[n] \in Times
      BY <1>4, Bounds DEF NodeTypes, Times
    <3>3. s \in Seq(Messages) /\ Send(n, s)
          /\ \A i \in DOMAIN s : s[i].type = "ack" /\ s[i].ts = remotePos[n]
      BY <2>2, <3>1, <3>2 DEF Messages
    <3> QED
      BY <1>1, <1>2, <2>2, <3>3, Sending
  <2>3. CASE chan' = chan
    <3>1. PICK s : s = <<>>
      OBVIOUS
    <3>2. s \in Seq(Messages) /\ \A i \in DOMAIN s : s[i].type = "ack" /\ s[i].ts = remotePos[n]
      BY <3>1
    <3>3. chan[p] \o s = chan[p]
      BY <2>1, <3>1
    <3> QED
      BY <2>3, <3>2, <3>3
  <2> QED
    BY <2>2, <2>3 DEF ApiTimerHandler, Send
<1>8. MoreKnown(n) /\ SameLog(p) /\ MoreKnown(p) /\ Peer(n)' = Peer(n)
      /\ \A m : Known(n, m) => Known(n, m)'
  <2>1. MoreKnown(n) /\ SameLog(p) /\ MoreKnown(p) /\ Peer(n)' = Peer(n)
    BY <1>3, <1>6 DEF SameLog, MoreKnown, Peer
  <2> QED
    BY <2>1, StaysKnown
<1>9. \A m : m \in Logged(n)' => m \in Logged(n)
  BY <1>3, <1>6 DEF Logged
<1>10. ASSUME NEW m \in Logged(n), m > localPos[n] PROVE m \in Logged(n)'
  <2>1. \A f \in files[n] : m \in f.msgs => f \in files'[n]
    <3> SUFFICES ASSUME NEW f \in files[n], m \in f.msgs PROVE f.name > localPos[n]
      BY <1>6
    <3> QED
      BY <1>1, <1>5, <1>10, FileNames
  <2> QED
    BY <1>3, <2>1 DEF Logged
<1>11. RelayOK(n)'
  BY <1>1, <1>3, <1>8, <1>9 DEF Direction, RelayOK
<1>12. LogOrdered(n)'
  BY <1>1, <1>3, <1>6 DEF Direction, LogOrdered
<1>13. InOrder(n)' /\ Events(chan[p]) \subseteq Events(chan'[p])
  <2>1. \A i \in DOMAIN s : s[i].type # "event"
    BY <1>7
  <2> QED
    BY <1>1, <1>2, <1>3, <1>7, <1>8, <2>1, OrderStays DEF Direction
<1>14. Events(chan[Peer(n)])' = Events(chan'[p])
  BY <1>2, <1>8 DEF Events
<1>15. AccountedFor(n)'
  <2> SUFFICES ASSUME NEW m \in sent[n]
               PROVE  \/ Known(n, m)'
                      \/ m \in Logged(n)' /\ m > localPos[n]
                      \/ m = relay[n]
                      \/ m \in Events(chan'[p]) /\ m \notin Logged(n)'
    BY <1>3, <1>14 DEF AccountedFor
  <2>1. \/ Known(n, m)
        \/ m \in Logged(n) /\ m > localPos[n]
        \/ m = relay[n]
        \/ m \in Events(chan[p]) /\ m \notin Logged(n)
    BY <1>1, <1>2 DEF Direction, AccountedFor
  <2> QED
    BY <1>8, <1>9, <1>10, <1>13, <2>1
<1>16. ConfirmedOK(n)'
  BY <1>1, <1>3, <1>5, <1>7, <1>8, ConfirmedStays DEF Direction
<1>17. PassOK(n)'
  <2>1. PassOK(n)
    BY <1>1 DEF Direction
  <2>2. \A m : Behind(n, m) => Behind(n, m)'
    BY <1>3, <1>6 DEF Behind
  <2>3. ASSUME link', sync'[n] \in {"pass", "last"}, NEW m, m \in Logged(n)'
        PROVE  Known(n, m)' \/ m \in Events(chan'[p]) \/ Behind(n, m)'
    <3>1. Known(n, m) \/ m \in Events(chan[p]) \/ Behind(n, m)
      BY <1>2, <1>3, <1>9, <2>1, <2>3 DEF PassOK
    <3> QED
      BY <1>8, <1>13, <2>2, <3>1
  <2> QED
    BY <1>3, <1>14, <2>1, <2>3 DEF PassOK
<1>18. Direction(p)'
  <2>1. chan[p] \in Seq(Messages)
    BY <1>4 DEF NodeTypes
  <2>2. \A i \in DOMAIN chan'[p] :
              \/ \E j \in DOMAIN chan[p] : chan'[p][i] = chan[p][j]
              \/ /\ chan'[p][i].ts <= now' + 1
                 /\ chan'[p][i].type = "ack" => chan'[p][i].ts <= remotePos[Peer(p)]
    <3> SUFFICES ASSUME NEW i \in DOMAIN chan'[p]
                 PROVE  \/ \E j \in DOMAIN chan[p] : chan'[p][i] = chan[p][j]
                        \/ chan'[p][i].ts = remotePos[n]
      BY <1>2, <1>3, <1>5
    <3>1. \/ i \in DOMAIN chan[p] /\ chan'[p][i] = chan[p][i]
          \/ \E j \in DOMAIN s : chan'[p][i] = s[j]
      <4>1. CASE i <= Len(chan[p])
        BY <1>7, <2>1, <4>1
      <4>2. CASE i > Len(chan[p])
        <5>1. i - Len(chan[p]) \in DOMAIN s /\ chan'[p][i] = s[i - Len(chan[p])]
          BY <1>7, <2>1, <4>2
        <5> QED
          BY <5>1
      <4> QED
        BY <1>7, <2>1, <4>1, <4>2
    <3> QED
      BY <1>7, <3>1
  <2> QED
    BY <1>1, <1>2, <1>3, <1>5, <1>7, <1>8, <2>2, NothingHappens
<1>19. BrokenOK'
  BY <1>1, <1>3, <1>7 DEF BrokenOK
<1> QED
  BY <1>2, <1>11, <1>12, <1>13, <1>15, <1>16, <1>17, <1>18, <1>19 DEF Direction

\* What is left of a channel when its first message has been handled
LEMMA Popped ==
    ASSUME NEW c \in Seq(Messages), c # <<>>, NEW d, d = Tail(c)
    PROVE  /\ 1 \in DOMAIN c /\ Head(c) = c[1] /\ c[1] \in Messages
           /\ \A i \in DOMAIN d : i + 1 \in DOMAIN c /\ d[i] = c[i + 1] /\ i \in Nat
           /\ \A i \in DOMAIN c : i = 1 \/ (i - 1 \in DOMAIN d /\ d[i - 1] = c[i])
<1>1. d \in Seq(Messages) /\ Len(d) = Len(c) - 1 /\ \A i \in 1..Len(d) : d[i] = c[i + 1]
  OBVIOUS
<1> QED
  BY <1>1

\* MessageHandler for the events of the node itself: a confirmation is true, and what a position
\* claims without being one is given up.
LEMMA HandlerOwn ==
    ASSUME IInv, TypeOK', NEW n \in Nodes, MessageHandler(n)
    PROVE  Direction(n)'
<1>1. TypeOK /\ Direction(n)
  BY DEF IInv
<1>2. PICK p \in Nodes : p = Peer(n) /\ p # n /\ Peer(p) = n /\ Nodes = {n, p}
  BY Peers
<1>3. /\ now' = now /\ link' = link /\ relay' = relay /\ current' = current /\ files' = files
      /\ sync' = sync /\ peerTs' = peerTs /\ todo' = todo /\ sent' = sent /\ dropped' = dropped
  BY DEF MessageHandler, linkVars, logVars, syncVars
<1>4. NodeTypes(n)
  BY <1>1, TypesOfNode
<1>5. now \in Nat /\ now <= now' /\ localPos[n] \in Nat /\ sent[n] \subseteq 1..now
  BY <1>3, <1>4 DEF NodeTypes
<1>6. PICK msg : msg = Head(chan[n])
  OBVIOUS
<1>7. /\ chan[n] \in Seq(Messages) /\ chan[n] # <<>>
      /\ chan'[n] = Tail(chan[n]) /\ chan'[p] = chan[p]
      /\ handled'[p] = handled[p] /\ remotePos'[p] = remotePos[p]
  BY <1>1, <1>2 DEF MessageHandler, TypeOK
<1>8. /\ 1 \in DOMAIN chan[n] /\ msg = chan[n][1] /\ msg \in Messages
      /\ \A i \in DOMAIN chan'[n] : i + 1 \in DOMAIN chan[n] /\ chan'[n][i] = chan[n][i + 1]
  BY <1>6, <1>7, Popped
<1>9. PICK lost : lost = IF msg.type = "position" THEN {m \in Waiting(n) : m <= msg.ts} ELSE {}
  OBVIOUS
<1>10. misplaced'[n] = misplaced[n] \cup lost
  <2>1. misplaced' = [misplaced EXCEPT ![n] = @ \cup lost]
    BY <1>6, <1>9 DEF MessageHandler, Misplace
  <2> QED
    BY <1>1, <2>1 DEF TypeOK
<1>11. /\ msg.ts \in Nat
       /\ localPos'[n] = localPos[n] \/ (localPos'[n] = msg.ts /\ msg.type # "event")
  BY <1>1, <1>4, <1>6, <1>8 DEF MessageHandler, TypeOK, NodeTypes
<1>12. SameLog(n) /\ MoreKnown(n)
  BY <1>2, <1>3, <1>7, <1>10 DEF SameLog, MoreKnown
<1>13. RelayOK(n)' /\ LogOrdered(n)' /\ Logged(n)' = Logged(n)
  BY <1>1, <1>2, <1>7, <1>12, LogStays DEF Direction
<1>14. AccountedFor(n)'
  <2>1. Peer(n)' = Peer(n) /\ Events(chan[Peer(n)])' = Events(chan[p])
    BY <1>2, <1>7 DEF Peer, Events
  <2> SUFFICES ASSUME NEW m \in sent[n]
               PROVE  \/ Known(n, m)'
                      \/ m \in Logged(n) /\ m > localPos'[n]
                      \/ m = relay[n]
                      \/ m \in Events(chan[p]) /\ m \notin Logged(n)
    BY <1>3, <1>13, <2>1 DEF AccountedFor
  <2>2. \/ Known(n, m)'
        \/ m \in Logged(n) /\ m > localPos[n]
        \/ m = relay[n]
        \/ m \in Events(chan[p]) /\ m \notin Logged(n)
    BY <1>1, <1>2, <1>12, StaysKnown DEF Direction, AccountedFor
  <2>3. CASE m \in Logged(n) /\ m > localPos[n] /\ ~(m > localPos'[n])
    <3>1. msg.type # "event" /\ m <= msg.ts /\ m \in Nat /\ m # 0
      BY <1>5, <1>11, <2>3
    <3>2. CASE msg.type = "ack"
      <4>1. Known(n, m)
        BY <1>1, <1>8, <3>1, <3>2 DEF Direction, ConfirmedOK
      <4> QED
        BY <1>12, <4>1, StaysKnown
    <3>3. CASE msg.type = "position"
      <4>1. m \in handled[p] \/ m \in lost
        BY <1>2, <1>9, <2>3, <3>1, <3>3 DEF Waiting
      <4>2. m \in handled[p] => Known(n, m)
        BY <1>2 DEF Known
      <4>3. m \in lost => Known(n, m)'
        BY <1>10 DEF Known, Excused
      <4> QED
        BY <1>12, <4>1, <4>2, <4>3, StaysKnown
    <3> QED
      BY <1>8, <3>1, <3>2, <3>3 DEF Messages
  <2> QED
    BY <2>2, <2>3
<1>15. InOrder(n)'
  BY <1>1, <1>2, <1>3, <1>7, <1>12, OrderQuiet DEF Direction
<1>16. ConfirmedOK(n)'
  BY <1>1, <1>2, <1>3, <1>5, <1>7, <1>8, <1>12, ConfirmedStays DEF Direction
<1>17. PassOK(n)'
  BY <1>1, <1>2, <1>3, <1>5, <1>7, <1>12, PassStays DEF Direction
<1> QED
  BY <1>13, <1>14, <1>15, <1>16, <1>17 DEF Direction

\* MessageHandler for the events of the peer: as they come in order, one that is too old has
\* been handled or given up, and so has everything before one that is handled now.
LEMMA HandlerOther ==
    ASSUME IInv, TypeOK', NEW n \in Nodes, MessageHandler(n)
    PROVE  Direction(Peer(n))'
<1>1. PICK p \in Nodes : p = Peer(n) /\ p # n /\ Peer(p) = n /\ Nodes = {n, p}
  BY Peers
<1>2. TypeOK /\ Direction(p)
  BY DEF IInv
<1>3. /\ now' = now /\ link' = link /\ relay' = relay /\ current' = current /\ files' = files
      /\ sync' = sync /\ peerTs' = peerTs /\ todo' = todo /\ sent' = sent /\ dropped' = dropped
  BY DEF MessageHandler, linkVars, logVars, syncVars
<1>4. NodeTypes(n) /\ NodeTypes(p)
  BY <1>2, TypesOfNode
<1>5. now \in Nat /\ sent[p] \subseteq 1..now /\ remotePos[n] \in 0..now
  BY <1>4 DEF NodeTypes
<1>6. PICK msg : msg = Head(chan[n])
  OBVIOUS
<1>7. PICK c : c = chan[n]
  OBVIOUS
<1>8. PICK d : d = chan'[n]
  OBVIOUS
<1>9. /\ c \in Seq(Messages) /\ c # <<>> /\ d = Tail(c) /\ chan'[p] = chan[p]
      /\ localPos'[p] = localPos[p] /\ misplaced'[p] = misplaced[p]
  BY <1>1, <1>2, <1>7, <1>8 DEF MessageHandler, Misplace, TypeOK
<1>10. /\ 1 \in DOMAIN c /\ msg = c[1] /\ msg \in Messages
       /\ \A i \in DOMAIN d : i + 1 \in DOMAIN c /\ d[i] = c[i + 1] /\ i \in Nat
       /\ \A i \in DOMAIN c : i = 1 \/ (i - 1 \in DOMAIN d /\ d[i - 1] = c[i])
  BY <1>6, <1>7, <1>9, Popped
<1>11. msg.ts \in Nat
  BY <1>4, <1>7, <1>10 DEF NodeTypes
<1>12. /\ msg.type = "event" /\ msg.ts >= remotePos[n] =>
             remotePos'[n] = msg.ts /\ handled'[n] = handled[n] \cup {msg.ts}
       /\ ~(msg.type = "event" /\ msg.ts >= remotePos[n]) =>
             remotePos'[n] = remotePos[n] /\ handled'[n] = handled[n]
  BY <1>2, <1>6 DEF MessageHandler, TypeOK
<1>13. SameLog(p) /\ MoreKnown(p) /\ Peer(p)' = Peer(p) /\ Logged(p)' = Logged(p)
  BY <1>1, <1>3, <1>9, <1>12 DEF SameLog, MoreKnown, Peer, Logged
<1>14. \A m : Known(p, m) => Known(p, m)'
  BY <1>13, StaysKnown
<1>15. /\ \A m \in sent[p] : m <= remotePos[n] => Known(p, m)
       /\ \A i \in DOMAIN c : c[i].type = "event" =>
             /\ c[i].ts \in sent[p]
             /\ \A m \in sent[p] : m < c[i].ts =>
                  Known(p, m) \/ \E j \in 1..(i - 1) : c[j] = [type |-> "event", ts |-> m]
  BY <1>1, <1>2, <1>7 DEF Direction, ConfirmedOK, InOrder
<1>16. ASSUME msg.type = "event" PROVE msg.ts \in sent[p] /\ Known(p, msg.ts)'
  <2>1. msg.ts \in sent[p]
    BY <1>10, <1>15, <1>16
  <2>2. CASE msg.ts >= remotePos[n]
    <3>1. msg.ts \in handled'[Peer(p)]
      BY <1>1, <1>12, <1>16, <2>2
    <3>2. msg.ts \in handled'[Peer(p)']
      BY <1>13, <3>1
    <3> QED
      BY <2>1, <3>2 DEF Known
  <2>3. CASE msg.ts < remotePos[n]
    <3>1. Known(p, msg.ts)
      BY <1>5, <1>11, <1>15, <2>1, <2>3
    <3> QED
      BY <1>14, <2>1, <3>1
  <2> QED
    BY <1>5, <1>11, <2>1, <2>2, <2>3
<1>17. \A m \in Events(c) : m \in Events(d) \/ Known(p, m)'
  <2> SUFFICES ASSUME NEW m \in Events(c), m \notin Events(d) PROVE Known(p, m)'
    OBVIOUS
  <2>1. PICK i \in DOMAIN c : c[i].type = "event" /\ c[i].ts = m
    BY EventsAre
  <2>2. i = 1
    BY <1>10, <2>1, EventsAre
  <2> QED
    BY <1>10, <1>16, <2>1, <2>2
<1>18. Events(chan[Peer(p)])' = Events(d)
  BY <1>1, <1>8, <1>13 DEF Events
<1>19. RelayOK(p)'
  <2>1. handled'[n] \subseteq sent[p]
    BY <1>1, <1>2, <1>12, <1>16 DEF Direction, RelayOK
  <2> QED
    BY <1>1, <1>2, <1>3, <1>13, <2>1 DEF Direction, RelayOK
<1>20. LogOrdered(p)'
  BY <1>2, <1>3 DEF Direction, LogOrdered
<1>21. AccountedFor(p)'
  <2> SUFFICES ASSUME NEW m \in sent[p]
               PROVE  \/ Known(p, m)'
                      \/ m \in Logged(p) /\ m > localPos[p]
                      \/ m = relay[p]
                      \/ m \in Events(d) /\ m \notin Logged(p)
    BY <1>3, <1>9, <1>13, <1>18 DEF AccountedFor
  <2>1. \/ Known(p, m)
        \/ m \in Logged(p) /\ m > localPos[p]
        \/ m = relay[p]
        \/ m \in Events(c) /\ m \notin Logged(p)
    BY <1>1, <1>2, <1>7 DEF Direction, AccountedFor
  <2> QED
    BY <1>14, <1>17, <2>1
<1>22. InOrder(p)'
  <2> SUFFICES ASSUME NEW i \in DOMAIN d, d[i].type = "event"
               PROVE  /\ d[i].ts \in sent[p]
                      /\ \A m \in sent[p] : m < d[i].ts =>
                           Known(p, m)' \/ \E j \in 1..(i - 1) : d[j] = [type |-> "event", ts |-> m]
    BY <1>1, <1>3, <1>8, <1>13 DEF InOrder
  <2>1. i \in Nat /\ i + 1 \in DOMAIN c /\ d[i] = c[i + 1]
    BY <1>10
  <2>2. /\ d[i].ts \in sent[p]
        /\ \A m \in sent[p] : m < d[i].ts =>
             Known(p, m) \/ \E j \in 1..i : c[j] = [type |-> "event", ts |-> m]
    BY <1>15, <2>1
  <2>3. ASSUME NEW m \in sent[p], NEW j \in 1..i, c[j] = [type |-> "event", ts |-> m]
        PROVE  Known(p, m)' \/ \E k \in 1..(i - 1) : d[k] = [type |-> "event", ts |-> m]
    <3>1. CASE j = 1
      BY <1>10, <1>16, <2>3, <3>1
    <3>2. CASE j # 1
      <4>1. j \in DOMAIN c
        BY <1>9, <2>1
      <4>2. j - 1 \in 1..(i - 1) /\ d[j - 1] = c[j]
        BY <1>10, <2>1, <3>2, <4>1
      <4> QED
        BY <2>3, <4>2
    <3> QED
      BY <3>1, <3>2
  <2> QED
    BY <1>14, <2>2, <2>3
<1>23. ConfirmedOK(p)'
  <2>1. ASSUME NEW m \in sent[p], m <= remotePos'[n] PROVE Known(p, m)'
    <3>1. CASE m <= remotePos[n]
      BY <1>14, <1>15, <3>1
    <3>2. CASE m > remotePos[n]
      <4>1. msg.type = "event" /\ remotePos'[n] = msg.ts
        BY <1>5, <1>12, <2>1, <3>2
      <4>2. CASE m = msg.ts
        BY <1>16, <4>1, <4>2
      <4>3. CASE m < msg.ts
        <5>1. Known(p, m) \/ \E j \in 1..(1 - 1) : c[j] = [type |-> "event", ts |-> m]
          BY <1>10, <1>15, <4>1, <4>3
        <5> QED
          BY <1>14, <5>1
      <4> QED
        BY <1>5, <1>11, <2>1, <4>1, <4>2, <4>3
    <3> QED
      BY <1>5, <3>1, <3>2
  <2>2. ASSUME NEW i \in DOMAIN chan[p]
        PROVE  /\ chan[p][i].ts <= now + 1
               /\ chan[p][i].type = "ack" =>
                     chan[p][i].ts <= now /\ \A m \in sent[p] : m <= chan[p][i].ts => Known(p, m)'
    BY <1>2, <1>14 DEF Direction, ConfirmedOK
  <2> QED
    BY <1>1, <1>3, <1>9, <1>13, <2>1, <2>2 DEF ConfirmedOK
<1>24. PassOK(p)'
  <2>1. PassOK(p)
    BY <1>2 DEF Direction
  <2>2. \A m : Behind(p, m)' <=> Behind(p, m)
    BY <1>3 DEF Behind
  <2>3. ASSUME link', sync'[p] \in {"pass", "last"}, NEW m \in Logged(p)
        PROVE  Known(p, m)' \/ m \in Events(d) \/ Behind(p, m)'
    <3>1. Known(p, m) \/ m \in Events(c) \/ Behind(p, m)
      BY <1>1, <1>3, <1>7, <2>1, <2>3 DEF PassOK
    <3> QED
      BY <1>14, <1>17, <2>2, <3>1
  <2> QED
    BY <1>3, <1>13, <1>18, <2>1, <2>3 DEF PassOK
<1> QED
  BY <1>1, <1>19, <1>20, <1>21, <1>22, <1>23, <1>24 DEF Direction

\* MessageHandler
LEMMA HandlerKeeps ==
    ASSUME IInv, TypeOK', NEW n \in Nodes, MessageHandler(n)
    PROVE  BrokenOK' /\ Direction(n)' /\ Direction(Peer(n))'
<1>1. link' = link /\ chan[n] # <<>>
  BY DEF MessageHandler, linkVars
<1>2. BrokenOK'
  BY <1>1 DEF IInv, BrokenOK
<1> QED
  BY <1>2, HandlerOwn, HandlerOther

\* The order of the replay: what is older than a message of the file that is sent is known to the
\* peer or given up, on its way, or earlier in the file.  It is in no other file: the older ones
\* were read before, and log/current and the newer ones have newer messages.
LEMMA OldestFirst ==
    ASSUME IInv, NEW n \in Nodes, link, NEW f, NEW msgs, NEW report, FileSent(n, f, msgs, report),
           NEW i \in DOMAIN msgs, NEW m \in sent[n], m < msgs[i]
    PROVE  \/ Known(n, m)' \/ m \in Events(chan[Peer(n)])
           \/ \E j \in 1..(i - 1) : msgs[j] = m
<1> USE DEF FileSent
<1>1. TypeOK /\ Direction(n)
  BY DEF IInv
<1>2. NodeTypes(n) /\ now \in Nat /\ sent[n] \subseteq 1..now
  BY <1>1, TypesOfNode DEF NodeTypes
<1>3. /\ msgs \in Seq(Times) /\ Len(msgs) \in Nat
      /\ \A k \in DOMAIN msgs : msgs[k] \in Content(n, f) /\ msgs[k] > peerTs[n]
      /\ \A q \in Content(n, f) : q > peerTs[n] => \E k \in DOMAIN msgs : msgs[k] = q
      /\ \A k, l \in DOMAIN msgs : k < l => msgs[k] < msgs[l]
      /\ \A q \in Content(n, f) : q \in Logged(n) /\ q \in 1..now
  BY <1>1, FileMessages
<1>4. DOMAIN msgs = 1..Len(msgs) /\ i \in 1..Len(msgs) /\ msgs[i] \in 1..now /\ msgs[i] \in Logged(n)
  BY <1>3
<1>5. PICK gone : gone = IF f.current /\ msgs # <<>>
                         THEN {q \in Missing(n) \ current[n] : q < msgs[Len(msgs)]} ELSE {}
  OBVIOUS
<1>6. dropped'[n] = dropped[n] \cup gone
  <2>1. dropped' = [dropped EXCEPT ![n] = @ \cup gone]
    BY <1>5 DEF Drop
  <2> QED
    BY <1>1, <2>1 DEF TypeOK
<1>7. MoreKnown(n) /\ \A q : Known(n, q) => Known(n, q)'
  <2>1. MoreKnown(n)
    BY <1>6 DEF MoreKnown
  <2> QED
    BY <2>1, StaysKnown
<1> SUFFICES ASSUME ~Known(n, m), m \notin Events(chan[Peer(n)])
             PROVE  Known(n, m)' \/ \E j \in 1..(i - 1) : msgs[j] = m
  BY <1>7
<1>8. m \in Logged(n)
  <2>1. m # relay[n]
    <3>1. relay[n] # 0 => msgs[i] <= relay[n]
      BY <1>1, <1>4 DEF Direction, RelayOK
    <3>2. relay[n] \in 0..now
      BY <1>2 DEF NodeTypes
    <3> QED
      BY <1>2, <1>4, <3>1, <3>2
  <2> QED
    BY <1>1, <2>1 DEF Direction, AccountedFor
<1>9. Behind(n, m)
  <2>1. sync[n] \in {"pass", "last"}
    BY <1>1 DEF Direction, PassOK
  <2> QED
    BY <1>1, <1>8, <2>1 DEF Direction, PassOK
<1>10. CASE m \in Content(n, f)
  <2>1. PICK j \in DOMAIN msgs : msgs[j] = m
    BY <1>3, <1>9, <1>10 DEF Behind
  <2>2. j < i
    <3>1. ~(i < j)
      BY <1>2, <1>3, <1>4, <2>1
    <3>2. i # j
      BY <1>2, <1>4, <2>1
    <3> QED
      BY <1>3, <1>4, <3>1, <3>2
  <2> QED
    BY <1>3, <1>4, <2>1, <2>2
<1>11. CASE m \notin Content(n, f) /\ f.current
  <2>1. m \notin current[n]
    BY <1>11 DEF Content
  <2>2. m \in Missing(n)
    BY <1>8 DEF Missing, Known
  <2>3. m < msgs[Len(msgs)]
    <3>1. Len(msgs) \in DOMAIN msgs /\ (i < Len(msgs) \/ i = Len(msgs))
      BY <1>4, <1>3
    <3>2. msgs[Len(msgs)] \in 1..now /\ (i < Len(msgs) => msgs[i] < msgs[Len(msgs)])
      BY <1>3, <3>1
    <3> QED
      BY <1>2, <1>4, <3>1, <3>2
  <2>4. msgs # <<>>
    BY <1>4
  <2>5. m \in gone
    BY <1>5, <1>11, <2>1, <2>2, <2>3, <2>4
  <2> QED
    BY <1>6, <2>5 DEF Known, Excused
<1>12. CASE m \notin Content(n, f) /\ ~f.current
  <2>1. PICK file \in files[n] : file.name = f.name /\ msgs[i] \in file.msgs
    BY <1>3, <1>12 DEF Content
  <2>2. file.name \in Nat /\ msgs[i] < file.name
    BY <1>1, <2>1, FileNames
  <2>3. m < f.name /\ f.name \in Nat /\ m \in Nat
    BY <1>2, <1>4, <2>1, <2>2
  <2>4. m \notin current[n]
    BY <1>1, <1>12, <2>3 DEF Direction, PassOK
  <2>5. PICK h \in files[n] : m \in h.msgs
    BY <1>8, <2>4, LoggedIs
  <2>6. h.name # f.name /\ h.name \in Nat
    BY <1>1, <1>12, <2>5, FileNames DEF Content
  <2>7. f.name < h.name
    <3>1. PICK g : g = [name |-> h.name, current |-> FALSE]
      OBVIOUS
    <3>2. g # f /\ g.name = h.name /\ ~g.current
      BY <2>6, <3>1
    <3>3. CASE g \in todo[n]
      BY <3>2, <3>3
    <3>4. CASE \A x \in todo[n] : x.current \/ x.name < h.name
      BY <1>12, <3>4
    <3> QED
      BY <1>9, <2>5, <3>1, <3>3, <3>4 DEF Behind
  <2>8. file.name <= m
    BY <1>1, <2>1, <2>5, <2>7 DEF Direction, LogOrdered
  <2> QED
    BY <2>1, <2>3, <2>8
<1> QED
  BY <1>10, <1>11, <1>12

\* ReplayFile: the events of a file go out in order, and the pass has the others still before it.
LEMMA FileKeeps ==
    ASSUME IInv, TypeOK', NEW n \in Nodes, ReplayFile(n)
    PROVE  BrokenOK' /\ Direction(n)' /\ Direction(Peer(n))'
<1>1. TypeOK /\ Direction(n) /\ Direction(Peer(n)) /\ BrokenOK
  BY Peers DEF IInv
<1>2. PICK f, msgs, report : FileSent(n, f, msgs, report)
  BY OneFile
<1>2a. /\ f \in todo[n] /\ msgs \in Ascending({m \in Content(n, f) : m > peerTs[n]})
       /\ report \in BOOLEAN /\ (report => msgs # <<>>)
       /\ todo' = [todo EXCEPT ![n] = @ \ {f}]
       /\ Send(n, Batch(msgs, f.name, report))
       /\ peerTs' = IF msgs # <<>> THEN [peerTs EXCEPT ![n] = msgs[Len(msgs)]] ELSE peerTs
       /\ Drop(n, IF f.current /\ msgs # <<>>
                  THEN {m \in Missing(n) \ current[n] : m < msgs[Len(msgs)]} ELSE {})
       /\ now' = now /\ link' = link /\ relay' = relay /\ current' = current /\ files' = files
       /\ localPos' = localPos /\ sync' = sync /\ misplaced' = misplaced
       /\ remotePos' = remotePos /\ sent' = sent /\ handled' = handled
  BY <1>2, Zenon DEF FileSent
<1>3. PICK p \in Nodes : p = Peer(n) /\ p # n /\ Peer(p) = n /\ Nodes = {n, p}
  BY Peers
<1>4. /\ msgs \in Seq(Times) /\ Len(msgs) \in Nat /\ now \in Nat
      /\ \A k \in DOMAIN msgs : msgs[k] \in Content(n, f) /\ msgs[k] > peerTs[n]
      /\ \A q \in Content(n, f) : q > peerTs[n] => \E k \in DOMAIN msgs : msgs[k] = q
      /\ \A q \in Content(n, f) : q \in Logged(n) /\ q \in 1..now
  BY <1>2a, <1>1, FileMessages
<1>5. f.name \in Times /\ f.name <= now + 1
  BY <1>2a, <1>1 DEF TypeOK, Direction, PassOK
<1>6. PICK batch : batch = Batch(msgs, f.name, report)
  OBVIOUS
<1>7. /\ batch \in Seq(Messages)
      /\ \A k \in DOMAIN batch : batch[k].type = "event" =>
            AfterOlder(batch, k, msgs)
      /\ \A k \in DOMAIN batch : batch[k].type # "event" =>
            batch[k].type = "position" /\ batch[k].ts = f.name
      /\ \A i \in DOMAIN msgs : \E k \in DOMAIN batch : batch[k] = [type |-> "event", ts |-> msgs[i]]
  <2>1. msgs \in Seq(Times) /\ f.name \in Times /\ report \in BOOLEAN /\ (report => msgs # <<>>)
    BY <1>2a, <1>4, <1>5
  <2>2. PICK name : name = f.name
    OBVIOUS
  <2>3. name \in Times /\ batch = Batch(msgs, name, report)
    BY <1>6, <2>1, <2>2
  <2>4. batch \in Seq(Messages)
    BY <2>1, <2>3, BatchIs
  <2>5. \A k \in DOMAIN batch : batch[k].type = "event" =>
            AfterOlder(batch, k, msgs)
    BY <2>1, <2>3, BatchIs
  <2>6. \A k \in DOMAIN batch : batch[k].type # "event" =>
            batch[k].type = "position" /\ batch[k].ts = f.name
    BY <2>1, <2>2, <2>3, BatchIs
  <2>7. \A i \in DOMAIN msgs : \E k \in DOMAIN batch : batch[k] = [type |-> "event", ts |-> msgs[i]]
    BY <2>1, <2>3, BatchIs
  <2> QED
    BY <2>4, <2>5, <2>6, <2>7
<1>8. /\ chan'[n] = chan[n]
      /\ link => chan'[p] = chan[p] \o batch
      /\ ~link => chan' = chan
  BY <1>2a, <1>1, <1>3, <1>6, <1>7, Sending
<1>9. PICK gone : dropped' = [dropped EXCEPT ![n] = @ \cup gone]
  BY <1>2a DEF Drop
<1>10. dropped'[n] = dropped[n] \cup gone /\ dropped'[p] = dropped[p]
       /\ todo'[n] = todo[n] \ {f} /\ todo'[p] = todo[p]
       /\ peerTs'[n] = (IF msgs # <<>> THEN msgs[Len(msgs)] ELSE peerTs[n])
       /\ peerTs'[p] = peerTs[p]
  BY <1>2a, <1>1, <1>3, <1>9 DEF TypeOK
<1>11. MoreKnown(n) /\ SameLog(n) /\ MoreKnown(p) /\ SameLog(p) /\ now <= now'
  BY <1>2a, <1>4, <1>10 DEF MoreKnown, SameLog
<1>12. Peer(n)' = Peer(n) /\ \A m : Known(n, m) => Known(n, m)'
  BY <1>11, StaysKnown DEF Peer
<1>13. PICK c : c = chan[p]
  OBVIOUS
<1>14. PICK d : d = chan'[p]
  OBVIOUS
<1>15. c \in Seq(Messages) /\ Len(c) \in Nat
  <2>1. c \in Seq(Messages)
    BY <1>1, <1>13 DEF TypeOK
  <2> QED
    BY <2>1
<1>16. /\ \A i \in DOMAIN c : i \in DOMAIN d /\ d[i] = c[i]
       /\ \A i \in DOMAIN c : \A j \in 1..(i - 1) : d[j] = c[j]
       /\ \A i \in DOMAIN d : \/ i \in DOMAIN c
                              \/ link /\ i - Len(c) \in DOMAIN batch /\ d[i] = batch[i - Len(c)]
       /\ link => \A k \in DOMAIN batch : Len(c) + k \in DOMAIN d /\ d[Len(c) + k] = batch[k]
  <2>1. CASE link
    <3>1. d = c \o batch
      BY <1>8, <1>13, <1>14, <2>1
    <3> QED
      BY <1>7, <1>15, <2>1, <3>1
  <2>2. CASE ~link
    BY <1>8, <1>13, <1>14, <1>15, <2>2
  <2> QED
    BY <2>1, <2>2
<1>17. \A m \in Events(c) : m \in Events(d)
  BY <1>16, EventsAre
<1>18. ASSUME link, NEW i \in DOMAIN msgs PROVE msgs[i] \in Events(d)
  <2>1. PICK k \in DOMAIN batch : batch[k] = [type |-> "event", ts |-> msgs[i]]
    BY <1>7
  <2>2. Len(c) + k \in DOMAIN d /\ d[Len(c) + k].type = "event" /\ d[Len(c) + k].ts = msgs[i]
    BY <1>16, <1>18, <2>1
  <2> QED
    BY <2>2, EventsAre
<1>19. RelayOK(n)' /\ LogOrdered(n)' /\ Logged(n)' = Logged(n)
  BY <1>2a, <1>1, <1>11, LogStays DEF Direction
<1>20. AccountedFor(n)'
  BY <1>2a, <1>1, <1>3, <1>11, <1>13, <1>14, <1>17, AccountStays DEF Direction
<1>21. InOrder(n)'
  <2> SUFFICES ASSUME NEW i \in DOMAIN d, d[i].type = "event"
               PROVE  /\ d[i].ts \in sent[n]
                      /\ \A m \in sent[n] : m < d[i].ts =>
                           Known(n, m)' \/ \E j \in 1..(i - 1) : d[j] = [type |-> "event", ts |-> m]
    BY <1>2a, <1>3, <1>12, <1>14 DEF InOrder
  <2>1. CASE i \in DOMAIN c
    <3>1. /\ c[i].ts \in sent[n]
          /\ \A m \in sent[n] : m < c[i].ts =>
               Known(n, m) \/ \E j \in 1..(i - 1) : c[j] = [type |-> "event", ts |-> m]
      BY <1>1, <1>3, <1>13, <1>16, <2>1 DEF Direction, InOrder
    <3> QED
      BY <1>12, <1>16, <2>1, <3>1
  <2>2. CASE i \notin DOMAIN c
    <3>1. PICK k : k = i - Len(c)
      OBVIOUS
    <3>2. link /\ k \in DOMAIN batch /\ d[i] = batch[k] /\ i = Len(c) + k /\ k \in Nat /\ i \in Nat
      <4>1. link /\ k \in DOMAIN batch /\ d[i] = batch[k]
        BY <1>16, <2>2, <3>1
      <4>2. i \in Nat
        BY <1>3, <1>14, TypesAfter DEF NodeTypes
      <4>3. k \in Nat
        BY <1>7, <4>1
      <4> QED
        BY <1>15, <3>1, <4>1, <4>2, <4>3
    <3>3. PICK q \in DOMAIN msgs : /\ batch[k].ts = msgs[q]
                                   /\ \A j \in 1..(q - 1) : \E l \in 1..(k - 1) :
                                         batch[l] = [type |-> "event", ts |-> msgs[j]]
      BY <1>7, <3>2 DEF AfterOlder
    <3>4. d[i].ts = msgs[q] /\ msgs[q] \in sent[n]
      BY <1>1, <1>4, <3>2, <3>3 DEF Direction, RelayOK
    <3>5. ASSUME NEW m \in sent[n], m < msgs[q]
          PROVE  Known(n, m)' \/ \E j \in 1..(i - 1) : d[j] = [type |-> "event", ts |-> m]
      <4>1. \/ Known(n, m)' \/ m \in Events(c)
            \/ \E j \in 1..(q - 1) : msgs[j] = m
        BY <1>2, <1>3, <1>13, <3>2, <3>5, OldestFirst
      <4>2. CASE m \in Events(c)
        <5>1. PICK j \in DOMAIN c : c[j] = [type |-> "event", ts |-> m]
          BY <1>1, <1>13, <4>2, OnItsWay
        <5>2. j \in 1..(i - 1) /\ d[j] = c[j]
          BY <1>7, <1>15, <1>16, <3>2, <5>1
        <5> QED
          BY <5>1, <5>2
      <4>3. CASE \E j \in 1..(q - 1) : msgs[j] = m
        <5>1. PICK l \in 1..(k - 1) : batch[l] = [type |-> "event", ts |-> m]
          BY <3>3, <4>3
        <5>2. l \in DOMAIN batch /\ Len(c) + l \in 1..(i - 1)
          BY <1>7, <1>15, <3>2, <5>1
        <5>3. d[Len(c) + l] = batch[l]
          BY <1>16, <3>2, <5>2
        <5> QED
          BY <5>1, <5>2, <5>3
      <4> QED
        BY <4>1, <4>2, <4>3
    <3> QED
      BY <3>4, <3>5
  <2> QED
    BY <2>1, <2>2
<1>22. ConfirmedOK(n)'
  BY <1>2a, <1>1, <1>8, <1>11, ConfirmedStays DEF Direction
<1>23. PassOK(n)'
  <2>1. PassOK(n) /\ f \in todo[n]
    BY <1>2a, <1>1 DEF Direction
  <2>2. sync[n] \in {"pass", "last"}
    BY <2>1 DEF PassOK
  <2>3. Events(chan[Peer(n)])' = Events(d)
    BY <1>3, <1>12, <1>14 DEF Events
  <2>4. ASSUME link, NEW m \in Logged(n)
        PROVE  Known(n, m)' \/ m \in Events(d) \/ Behind(n, m)'
    <3>1. Known(n, m) \/ m \in Events(c) \/ Behind(n, m)
      BY <1>3, <1>13, <2>1, <2>2, <2>4 DEF PassOK
    <3> SUFFICES ASSUME ~Known(n, m)', m \notin Events(d) PROVE Behind(n, m)'
      OBVIOUS
    <3>2. Behind(n, m)
      BY <1>12, <1>17, <3>1
    <3>3. m \notin Content(n, f)
      <4>1. m \in Content(n, f) => \E k \in DOMAIN msgs : msgs[k] = m
        BY <1>4, <3>2 DEF Behind
      <4> QED
        BY <1>18, <2>4, <4>1
    <3>4. m > peerTs'[n]
      <4>1. CASE msgs = <<>>
        BY <1>10, <3>2, <4>1 DEF Behind
      <4>2. CASE msgs # <<>>
        <5>1. Len(msgs) \in DOMAIN msgs /\ peerTs'[n] = msgs[Len(msgs)]
          BY <1>4, <1>10, <4>2
        <5>2. m # msgs[Len(msgs)] /\ msgs[Len(msgs)] \in 1..now
          BY <1>4, <3>3, <5>1
        <5>3. m \in sent[n] /\ m \in 1..now
          BY <1>1, <2>4, EventNumbers DEF Direction, RelayOK
        <5>4. ~(m < msgs[Len(msgs)])
          <6>1. ASSUME m < msgs[Len(msgs)] PROVE FALSE
            <7>1. \E j \in 1..(Len(msgs) - 1) : msgs[j] = m
              BY <1>2, <1>3, <1>13, <1>17, <2>4, <5>1, <5>3, <6>1, OldestFirst
            <7>2. PICK j \in 1..(Len(msgs) - 1) : msgs[j] = m
              BY <7>1
            <7>3. j \in DOMAIN msgs
              BY <1>4, <7>2
            <7> QED
              BY <1>4, <3>3, <7>2, <7>3
          <6> QED
            BY <6>1
        <5> QED
          BY <1>4, <5>1, <5>2, <5>3, <5>4
      <4> QED
        BY <4>1, <4>2
    <3>5. ASSUME NEW h \in files[n], m \in h.msgs
          PROVE  \/ [name |-> h.name, current |-> FALSE] \in todo'[n]
                 \/ \A g \in todo'[n] : g.current \/ g.name < h.name
      <4>1. [name |-> h.name, current |-> FALSE] # f
        BY <3>3, <3>5 DEF Content
      <4> QED
        BY <1>10, <3>2, <3>5, <4>1 DEF Behind
    <3> QED
      BY <1>2a, <3>4, <3>5 DEF Behind
  <2>5. \A g \in todo'[n] : /\ g.name <= now' + 1
                            /\ ~g.current => /\ \A m \in current'[n] : g.name <= m
                                             /\ relay'[n] # 0 => g.name <= relay'[n]
    BY <1>2a, <1>10, <2>1 DEF PassOK
  <2> QED
    BY <1>2a, <1>19, <2>2, <2>3, <2>4, <2>5 DEF PassOK
<1>24. Direction(p)'
  <2>1. \A i \in DOMAIN chan'[p] :
              \/ \E j \in DOMAIN chan[p] : chan'[p][i] = chan[p][j]
              \/ /\ chan'[p][i].ts <= now' + 1
                 /\ chan'[p][i].type = "ack" => chan'[p][i].ts <= remotePos[Peer(p)]
    <3>1. \A k \in DOMAIN batch : batch[k].ts <= now + 1 /\ batch[k].type # "ack"
      <4>1. \A k \in DOMAIN batch : batch[k].type = "event" => \E i \in DOMAIN msgs : batch[k].ts = msgs[i]
        BY <1>7 DEF AfterOlder
      <4> QED
        BY <1>4, <1>5, <1>7, <4>1
    <3> QED
      BY <1>2a, <1>13, <1>14, <1>16, <3>1
  <2> QED
    BY <1>2a, <1>1, <1>3, <1>8, <1>10, <1>11, <2>1, NothingHappens
<1>25. BrokenOK'
  BY <1>2a, <1>1, <1>8 DEF BrokenOK
<1> QED
  BY <1>3, <1>19, <1>20, <1>21, <1>22, <1>23, <1>24, <1>25 DEF Direction

-----------------------------------------------------------------------------
(* The theorems                                                              *)

\* The state Init describes satisfies the invariant: nothing was sent yet.
LEMMA InitOK == Init => IInv
<1> SUFFICES ASSUME Init PROVE IInv
  OBVIOUS
<1> USE DEF Init
<1>1. TypeOK
  <2>1. MaxTime \in Nat /\ MaxConnections \in Nat
    BY ReplayLogAssumption
  <2>2. 0 \in Times /\ 0 \in 0..MaxTime /\ 0 \in 0..MaxConnections /\ 0 \in 0..now
    BY <2>1 DEF Times
  <2>3. PICK none : none = <<>>
    OBVIOUS
  <2>4. none \in Seq(Messages) /\ chan = [n \in Nodes |-> none]
    BY <2>3
  <2>5. chan \in [Nodes -> Seq(Messages)]
    BY <2>4
  <2>6. /\ now \in 0..MaxTime /\ connections \in 0..MaxConnections
        /\ link \in BOOLEAN /\ up \in [Nodes -> BOOLEAN] /\ foreign \in [Nodes -> BOOLEAN]
        /\ syncing \in [Nodes -> BOOLEAN] /\ sync \in [Nodes -> SyncPcs]
        /\ \A n \in Nodes : syncing[n] <=> sync[n] \notin {"idle", "queued"}
    BY <2>2 DEF SyncPcs
  <2>7. relay \in [Nodes -> 0..now] /\ remotePos \in [Nodes -> 0..now]
    BY <2>2
  <2>8. localPos \in [Nodes -> 0..(now + 1)]
    OBVIOUS
  <2>9. peerTs \in [Nodes -> Times] /\ logposTs \in [Nodes -> Times] /\ count \in [Nodes -> Nat]
    BY <2>2
  <2>10. /\ current \in [Nodes -> SUBSET (1..now)] /\ sent \in [Nodes -> SUBSET (1..now)]
         /\ handled \in [Nodes -> SUBSET (1..now)] /\ dropped \in [Nodes -> SUBSET (1..now)]
         /\ misplaced \in [Nodes -> SUBSET (1..now)]
    OBVIOUS
  <2>11. /\ files \in [Nodes -> SUBSET [name: Times, msgs: SUBSET (1..now)]]
         /\ todo \in [Nodes -> SUBSET [name: Times, current: BOOLEAN]]
    OBVIOUS
  <2> HIDE DEF Init
  <2> QED
    BY <2>5, <2>6, <2>7, <2>8, <2>9, <2>10, <2>11 DEF TypeOK
<1>2. BrokenOK
  BY DEF BrokenOK
<1>3. ASSUME NEW n \in Nodes PROVE Direction(n)
  <2>1. Peer(n) \in Nodes
    BY Peers
  <2>2. /\ sent[n] = {} /\ handled[Peer(n)] = {} /\ relay[n] = 0 /\ current[n] = {} /\ files[n] = {}
        /\ sync[n] = "idle" /\ todo[n] = {} /\ peerTs[n] = 0 /\ link = FALSE
    BY <2>1
  <2>3. DOMAIN chan[n] = {} /\ DOMAIN chan[Peer(n)] = {}
    BY <2>1
  <2>4. Logged(n) = {}
    BY <2>2 DEF Logged
  <2> QED
    BY <2>2, <2>3, <2>4
    DEF Direction, RelayOK, LogOrdered, AccountedFor, InOrder, ConfirmedOK, PassOK
<1> QED
  BY <1>1, <1>2, <1>3 DEF IInv

\* Every step keeps the types.
LEMMA TypesStay == IInv /\ [Next]_vars => TypeOK'
<1> SUFFICES ASSUME IInv, [Next]_vars PROVE TypeOK'
  OBVIOUS
<1>1. CASE UNCHANGED vars
  BY <1>1 DEF IInv, TypeOK, vars, excuses
<1>2. CASE Connect \/ Break
  BY <1>2, LinkTypes
<1>3. ASSUME NEW n \in Nodes,
             \/ Relay(n) \/ PersistMessage(n) \/ RelayForeign(n)
             \/ SyncClient(n) \/ ReplayBegin(n) \/ ReplayFile(n) \/ ReplayAgain(n) \/ ReplayEnd(n)
             \/ Disconnect(n) \/ MessageHandler(n) \/ ApiTimerHandler(n)
      PROVE  TypeOK'
  BY <1>3, RelayTypes, PersistTypes, ForeignTypes, SyncTypes, FileTypes, LinkTypes, HandlerTypes,
     TimerTypes
<1> QED
  BY <1>1, <1>2, <1>3 DEF Next

\* The invariant is inductive.
LEMMA Inductive == IInv /\ [Next]_vars => IInv'
<1> SUFFICES ASSUME IInv, [Next]_vars PROVE IInv'
  OBVIOUS
<1>1. TypeOK'
  BY TypesStay
<1>2. CASE UNCHANGED vars
  <2>1. ASSUME NEW n \in Nodes PROVE Direction(n)'
    <3>1. TypeOK /\ Direction(n)
      BY DEF IInv
    <3>2. SameLog(n) /\ MoreKnown(n)
      BY <1>2 DEF SameLog, MoreKnown, vars, excuses
    <3>3. now \in Nat /\ now <= now'
      BY <1>2, <3>1, TypesOfNode DEF NodeTypes, vars
    <3>4. /\ link' = link /\ chan' = chan /\ localPos' = localPos /\ handled' = handled
          /\ remotePos' = remotePos /\ sync' = sync /\ peerTs' = peerTs /\ todo' = todo
      BY <1>2 DEF vars
    <3> QED
      BY <1>1, <3>1, <3>2, <3>3, <3>4, NothingHappens
  <2>2. BrokenOK'
    BY <1>2 DEF IInv, BrokenOK, vars
  <2> QED
    BY <1>1, <2>1, <2>2 DEF IInv
<1>3. CASE Connect
  BY <1>1, <1>3, ConnectKeeps, Peers DEF IInv, Connect, BrokenOK
<1>4. CASE Break
  BY <1>1, <1>4, BreakKeeps DEF IInv, Break, BrokenOK
<1>5. ASSUME NEW n \in Nodes,
             \/ Relay(n) \/ PersistMessage(n) \/ RelayForeign(n)
             \/ SyncClient(n) \/ ReplayBegin(n) \/ ReplayFile(n) \/ ReplayAgain(n) \/ ReplayEnd(n)
             \/ MessageHandler(n) \/ ApiTimerHandler(n)
      PROVE  IInv'
  <2>1. BrokenOK' /\ Direction(n)' /\ Direction(Peer(n))'
    BY <1>1, <1>5, RelayKeeps, PersistKeeps, ForeignKeeps, SyncKeeps, FileKeeps, HandlerKeeps,
       TimerKeeps
  <2>2. \A m \in Nodes : m = n \/ m = Peer(n)
    BY Peers
  <2>3. \A m \in Nodes : Direction(m)'
    BY <2>1, <2>2
  <2> QED
    BY <1>1, <2>1, <2>3 DEF IInv
<1>6. ASSUME NEW n \in Nodes, Disconnect(n) PROVE IInv'
  BY <1>1, <1>6, DisconnectKeeps DEF IInv
<1> QED
  BY <1>2, <1>3, <1>4, <1>5, <1>6 DEF Next

\* The invariant accounts for every event.
LEMMA AccountedFollows == IInv => Accounted
<1> SUFFICES ASSUME IInv, NEW n \in Nodes, NEW m \in sent[n]
             PROVE  \/ m \in handled[Peer(n)] \cup Events(chan[Peer(n)]) \cup {relay[n]}
                    \/ m \in Logged(n) /\ m > localPos[n]
                    \/ m \in Excused(n)
  BY DEF Accounted
<1> QED
  BY DEF IInv, Direction, AccountedFor, Known

\* In every state of the specification the types hold.
THEOREM TypeCorrect == Spec => []TypeOK
<1>1. IInv => TypeOK
  BY DEF IInv
<1> QED
  BY <1>1, InitOK, Inductive, PTL DEF Spec

\* ApiListener loses no event that it does not knowingly give up: whatever the order of relaying,
\* logging, rotating, replaying, confirming and removing, and wherever the connection breaks, an
\* event reached the peer, is on its way, or waits in the log behind the confirmed position.
THEOREM EventsAccounted == Spec => []Accounted
BY InitOK, Inductive, AccountedFollows, PTL DEF Spec
=============================================================================

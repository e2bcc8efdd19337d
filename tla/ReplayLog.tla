------------------------------- MODULE ReplayLog -------------------------------
(* The replay log of the two endpoints of a zone: ApiListener relays an event   *)
(* over the connection or persists it, and replays the log when the peer is     *)
(* connected again (lib/remote/apilistener.cpp); JsonRpcConnection handles      *)
(* events and log positions (lib/remote/jsonrpcconnection.cpp).                 *)
(*                                                                              *)
(* Per node: the thread of m_RelayQueue, the SyncClient callback of the current *)
(* connection, the ApiTimerHandler and the coroutine that reads messages.  The  *)
(* clock is the number of events so far, so every event has its own time.       *)
EXTENDS Naturals, Sequences, FiniteSets

CONSTANTS Nodes,           \* the two endpoints
          Senders,         \* those that have events of their own
          Others,          \* another endpoint may be disconnected or behind
          MaxLogMessages,  \* messages in a log file before it is rotated (50000)
          ReplayBatch,     \* messages that call for one more pass (50000)
          PositionSlack,   \* seconds between two positions of a replay (10)
          MaxTime,         \* bound: number of events
          MaxConnections   \* bound: number of connections

ASSUME ReplayLogAssumption ==
    /\ \E a, b \in Nodes : a # b /\ Nodes = {a, b}
    /\ Senders \subseteq Nodes
    /\ Others \in BOOLEAN
    /\ {MaxLogMessages, ReplayBatch, PositionSlack, MaxTime, MaxConnections} \subseteq Nat

Peer(n) == CHOOSE p \in Nodes : p # n

Times == 0..(MaxTime + 1)
Messages == [type: {"event", "ack", "position"}, ts: Times]

VARIABLES
    now,                  \* the time of the last event
    connections,          \* connections so far
    link,                 \* the connection carries messages
    up,                   \* Endpoint: GetConnected() of the peer
    chan,                 \* messages on their way to each node
    relay,                \* the event that waits for PersistMessage, or 0
    foreign,              \* m_RelayQueue holds an event of the peer
    current, files,       \* log/current and the rotated files, [name, msgs]
    localPos, remotePos,  \* local_log_position, remote_log_position of the peer
    syncing,              \* Endpoint: syncing
    sync,                 \* the SyncClient callback
    peerTs, logposTs, count, \* locals of ReplayLog
    todo,                 \* the files the current pass still has to read
    sent, handled,        \* history: the events of each node, and those it got
    dropped, misplaced    \* history: the events it may fail to deliver

excuses == <<dropped, misplaced>>
linkVars == <<connections, link, up>>
logVars == <<current, files>>
syncVars == <<syncing, sync, peerTs, logposTs, count, todo>>
vars == <<now, connections, link, up, chan, relay, foreign, current, files,
          localPos, remotePos, syncing, sync, peerTs, logposTs, count, todo,
          sent, handled, excuses>>

SyncPcs == {"idle", "queued", "config", "pass", "last"}

TypeOK ==
    /\ now \in 0..MaxTime
    /\ connections \in 0..MaxConnections
    /\ link \in BOOLEAN
    /\ up \in [Nodes -> BOOLEAN]
    /\ chan \in [Nodes -> Seq(Messages)]
    /\ relay \in [Nodes -> 0..now]
    /\ foreign \in [Nodes -> BOOLEAN]
    /\ current \in [Nodes -> SUBSET (1..now)]
    /\ files \in [Nodes -> SUBSET [name: Times, msgs: SUBSET (1..now)]]
    /\ localPos \in [Nodes -> 0..(now + 1)]
    /\ remotePos \in [Nodes -> 0..now]
    /\ syncing \in [Nodes -> BOOLEAN]
    /\ sync \in [Nodes -> SyncPcs]
    /\ \A n \in Nodes : syncing[n] <=> sync[n] \notin {"idle", "queued"}
    /\ peerTs \in [Nodes -> Times]
    /\ logposTs \in [Nodes -> Times]
    /\ count \in [Nodes -> Nat]
    /\ todo \in [Nodes -> SUBSET [name: Times, current: BOOLEAN]]
    /\ sent \in [Nodes -> SUBSET (1..now)]
    /\ handled \in [Nodes -> SUBSET (1..now)]
    /\ dropped \in [Nodes -> SUBSET (1..now)]
    /\ misplaced \in [Nodes -> SUBSET (1..now)]

\* Both nodes run, and were never connected.
Init ==
    /\ now = 0 /\ connections = 0
    /\ link = FALSE
    /\ up = [n \in Nodes |-> FALSE]
    /\ chan = [n \in Nodes |-> <<>>]
    /\ relay = [n \in Nodes |-> 0]
    /\ foreign = [n \in Nodes |-> FALSE]
    /\ current = [n \in Nodes |-> {}]
    /\ files = [n \in Nodes |-> {}]
    /\ localPos = [n \in Nodes |-> 0]
    /\ remotePos = [n \in Nodes |-> 0]
    /\ syncing = [n \in Nodes |-> FALSE]
    /\ sync = [n \in Nodes |-> "idle"]
    /\ peerTs = [n \in Nodes |-> 0]
    /\ logposTs = [n \in Nodes |-> 0]
    /\ count = [n \in Nodes |-> 0]
    /\ todo = [n \in Nodes |-> {}]
    /\ sent = [n \in Nodes |-> {}]
    /\ handled = [n \in Nodes |-> {}]
    /\ dropped = [n \in Nodes |-> {}]
    /\ misplaced = [n \in Nodes |-> {}]

-----------------------------------------------------------------------------
Logged(n) == current[n] \cup UNION {f.msgs : f \in files[n]}

Events(c) == {c[i].ts : i \in {j \in DOMAIN c : c[j].type = "event"}}

\* Logged events that neither reached the peer nor are on their way to it
Missing(n) == Logged(n) \ (handled[Peer(n)] \cup Events(chan[Peer(n)]))

\* Events that are or will be logged and have not reached the peer
Waiting(n) == ((Logged(n) \cup {relay[n]}) \ {0}) \ handled[Peer(n)]

\* JsonRpcConnection::SendMessage: nothing arrives over a broken connection.
Send(n, msgs) ==
    chan' = IF link THEN [chan EXCEPT ![Peer(n)] = @ \o msgs] ELSE chan

\* Events the code gives up: sent over a broken connection or during a replay and
\* not logged, still logged when a newer one is sent live, logged after the last
\* pass, or in a file that was rotated during a pass.
Drop(n, msgs) == dropped' = [dropped EXCEPT ![n] = @ \cup msgs]

\* Events that a position which the peer did not confirm takes for delivered
Misplace(n, msgs) == misplaced' = [misplaced EXCEPT ![n] = @ \cup msgs]

-----------------------------------------------------------------------------
(* The thread of m_RelayQueue                                                 *)

\* SyncRelayMessage for an event of this node: RelayMessageOne sends it unless
\* the peer is not connected or (SyncSendMessage) a replay is in progress, and
\* asks for PersistMessage if the peer, or another endpoint, is not connected.
Relay(n) ==
    LET ts == now + 1
        live == up[n] /\ ~syncing[n]
    IN
    /\ n \in Senders
    /\ relay[n] = 0
    /\ now < MaxTime
    /\ now' = ts
    /\ sent' = [sent EXCEPT ![n] = @ \cup {ts}]
    /\ IF live THEN Send(n, <<[type |-> "event", ts |-> ts]>>) ELSE UNCHANGED chan
    /\ \E otherDown \in {FALSE, Others} :
        LET log == ~up[n] \/ otherDown IN
        /\ relay' = IF log THEN [relay EXCEPT ![n] = ts] ELSE relay
        /\ Drop(n, (IF live THEN Missing(n) ELSE {})
                   \cup (IF log \/ (live /\ link) THEN {} ELSE {ts}))
    /\ UNCHANGED <<linkVars, foreign, logVars, localPos, remotePos, syncVars, handled,
                   misplaced>>

\* RotateLogFile: log/current becomes a file named after its last message.
RotateLogFile(ts, msgs) == [name |-> ts + 1, msgs |-> msgs]

\* Mutation of PersistMessage: m_LogLock is not taken.
PersistUnlocked(n) ==
    LET written == current[n] \cup {relay[n]}
        full == Cardinality(written) > MaxLogMessages
    IN
    /\ relay[n] # 0
    /\ current' = [current EXCEPT ![n] = IF full THEN {} ELSE written]
    /\ files' = [files EXCEPT ![n] =
          IF full THEN @ \cup {RotateLogFile(relay[n], written)} ELSE @]
    /\ relay' = [relay EXCEPT ![n] = 0]
    /\ Drop(n, IF up[n] /\ sync[n] = "idle"
               THEN {relay[n]} \ (Events(chan[Peer(n)]) \cup handled[Peer(n)]) ELSE {})
    /\ Misplace(n, {m \in {relay[n]} : m <= localPos[n] \/ m <= peerTs[n]})
    /\ UNCHANGED <<now, linkVars, chan, foreign, localPos, remotePos, syncVars, sent, handled>>

\* PersistMessage, with the rotation of a full file; needs m_LogLock.  A position that
\* the peer has sent may be ahead of the clock, also the one a replay began with.
PersistMessage(n) ==
    LET written == current[n] \cup {relay[n]}
        full == Cardinality(written) > MaxLogMessages
    IN
    /\ relay[n] # 0
    /\ sync[n] # "last"
    /\ current' = [current EXCEPT ![n] = IF full THEN {} ELSE written]
    /\ files' = [files EXCEPT ![n] =
          IF full THEN @ \cup {RotateLogFile(relay[n], written)} ELSE @]
    /\ relay' = [relay EXCEPT ![n] = 0]
    /\ Drop(n, IF up[n] /\ sync[n] = "idle"
               THEN {relay[n]} \ (Events(chan[Peer(n)]) \cup handled[Peer(n)]) ELSE {})
    /\ Misplace(n, {m \in {relay[n]} : m <= localPos[n] \/ m <= peerTs[n]})
    /\ UNCHANGED <<now, linkVars, chan, foreign, localPos, remotePos, syncVars, sent, handled>>

\* An event of the peer is relayed in turn.  The peer is skipped as its origin,
\* and its log position is set to the time of the relayed message.  (That it is
\* logged if the peer is gone or another endpoint is down is left out: it is no
\* event of this node.)
RelayForeign(n) ==
    /\ relay[n] = 0
    /\ foreign[n]
    /\ foreign' = [foreign EXCEPT ![n] = FALSE]
    /\ localPos' = IF up[n] THEN [localPos EXCEPT ![n] = now] ELSE localPos
    /\ Misplace(n, IF up[n] THEN Waiting(n) ELSE {})
    /\ UNCHANGED <<now, linkVars, chan, relay, logVars, remotePos, syncVars, sent, handled,
                   dropped>>

-----------------------------------------------------------------------------
(* SyncClient and ReplayLog                                                   *)

\* SetSyncing(true); the certificate requests and the config updates follow.
SyncClient(n) ==
    /\ sync[n] = "queued"
    /\ sync' = [sync EXCEPT ![n] = "config"]
    /\ syncing' = [syncing EXCEPT ![n] = TRUE]
    /\ UNCHANGED <<now, linkVars, chan, relay, foreign, logVars, localPos, remotePos,
                   peerTs, logposTs, count, todo, sent, handled, excuses>>

\* The files a pass reads, given the position of the peer
PassFiles(n, ts) ==
    {[name |-> f.name, current |-> FALSE] : f \in {g \in files[n] : g.name >= ts}}
    \cup {[name |-> now + 1, current |-> TRUE]}

\* The first pass; m_LogLock is released before the files are read.
ReplayBegin(n) ==
    /\ sync[n] = "config"
    /\ sync' = [sync EXCEPT ![n] = "pass"]
    /\ peerTs' = [peerTs EXCEPT ![n] = localPos[n]]
    /\ logposTs' = [logposTs EXCEPT ![n] = localPos[n]]
    /\ count' = [count EXCEPT ![n] = 0]
    /\ todo' = [todo EXCEPT ![n] = PassFiles(n, localPos[n])]
    /\ UNCHANGED <<now, linkVars, chan, relay, foreign, logVars, localPos, remotePos,
                   syncing, sent, handled, excuses>>

Content(n, f) ==
    IF f.current THEN current[n] ELSE UNION {g.msgs : g \in {h \in files[n] : h.name = f.name}}

\* Messages in the order of a file
Ascending(msgs) ==
    {s \in [1..Cardinality(msgs) -> msgs] :
        /\ \A m \in msgs : \E i \in DOMAIN s : s[i] = m
        /\ \A i, j \in DOMAIN s : i < j => s[i] < s[j]}

\* What is sent of a file: the position comes after the first event.
Batch(msgs, name, report) ==
    LET events == [i \in DOMAIN msgs |-> [type |-> "event", ts |-> msgs[i]]]
    IN IF report THEN <<Head(events), [type |-> "position", ts |-> name]>> \o Tail(events)
                 ELSE events

\* One file, the oldest first: its events after peer_ts, and after the first of them the position
\* of the file if it is far enough from the last one.  What went from log/current
\* to a file since the pass began is skipped once a newer event is sent.
ReplayFile(n) ==
    \E f \in todo[n] : \E msgs \in Ascending({m \in Content(n, f) : m > peerTs[n]}) :
        LET report == msgs # <<>> /\ f.name > logposTs[n] + PositionSlack
            last == msgs[Len(msgs)]
        IN
        /\ \A g \in todo[n] \ {f} : ~f.current /\ (g.current \/ f.name < g.name)
        /\ todo' = [todo EXCEPT ![n] = @ \ {f}]
        /\ Send(n, Batch(msgs, f.name, report))
        /\ logposTs' = IF report THEN [logposTs EXCEPT ![n] = f.name] ELSE logposTs
        /\ peerTs' = IF msgs # <<>> THEN [peerTs EXCEPT ![n] = last] ELSE peerTs
        /\ count' = [count EXCEPT ![n] = @ + Len(msgs)]
        /\ Drop(n, IF f.current /\ msgs # <<>>
                   THEN {m \in Missing(n) \ current[n] : m < last} ELSE {})
        /\ UNCHANGED <<now, linkVars, relay, foreign, logVars, localPos, remotePos, syncing,
                       sync, sent, handled, misplaced>>

\* Another pass after many messages; otherwise the last one, under m_LogLock.
ReplayAgain(n) ==
    /\ sync[n] = "pass"
    /\ todo[n] = {}
    /\ sync' = [sync EXCEPT ![n] = IF count[n] > ReplayBatch THEN "pass" ELSE "last"]
    /\ count' = [count EXCEPT ![n] = 0]
    /\ todo' = [todo EXCEPT ![n] = PassFiles(n, peerTs[n])]
    /\ UNCHANGED <<now, linkVars, chan, relay, foreign, logVars, localPos, remotePos,
                   syncing, peerTs, logposTs, sent, handled, excuses>>

ForgetLocals(n) ==
    /\ peerTs' = [peerTs EXCEPT ![n] = 0]
    /\ logposTs' = [logposTs EXCEPT ![n] = 0]
    /\ count' = [count EXCEPT ![n] = 0]
    /\ todo' = [todo EXCEPT ![n] = {}]

\* Done, or sending failed: resetEndpointSyncing.
ReplayEnd(n) ==
    /\ sync[n] \in {"pass", "last"}
    /\ (sync[n] = "last" /\ todo[n] = {}) \/ ~link
    /\ sync' = [sync EXCEPT ![n] = "idle"]
    /\ syncing' = [syncing EXCEPT ![n] = FALSE]
    /\ ForgetLocals(n)
    /\ UNCHANGED <<now, linkVars, chan, relay, foreign, logVars, localPos, remotePos,
                   sent, handled, excuses>>

-----------------------------------------------------------------------------
(* The connection and its messages                                            *)

\* NewClientHandler on both ends: AddClient, and SyncClient is queued.  (The
\* callback of the previous connection has ended before, a simplification; as a
\* bound, an endpoint that never has events skips the replay of its empty log.)
Connect ==
    /\ connections < MaxConnections
    /\ ~link
    /\ \A n \in Nodes : ~up[n] /\ sync[n] = "idle"
    /\ link' = TRUE
    /\ connections' = connections + 1
    /\ up' = [n \in Nodes |-> TRUE]
    /\ sync' = [n \in Nodes |-> IF n \in Senders THEN "queued" ELSE "idle"]
    /\ UNCHANGED <<now, chan, relay, foreign, logVars, localPos, remotePos, syncing,
                   peerTs, logposTs, count, todo, sent, handled, excuses>>

\* The connection breaks and takes the messages on their way with it.
Break ==
    /\ link
    /\ link' = FALSE
    /\ chan' = [n \in Nodes |-> <<>>]
    /\ dropped' = [n \in Nodes |->
          dropped[n] \cup (Events(chan[Peer(n)]) \ (Logged(n) \cup {relay[n]}))]
    /\ UNCHANGED <<now, connections, up, relay, foreign, logVars, localPos, remotePos,
                   syncVars, sent, handled, misplaced>>

\* An end notices: JsonRpcConnection::Disconnect, RemoveClient.
Disconnect(n) ==
    /\ up[n] /\ ~link
    /\ up' = [up EXCEPT ![n] = FALSE]
    /\ UNCHANGED <<now, connections, link, chan, relay, foreign, logVars, localPos,
                   remotePos, syncVars, sent, handled, excuses>>

\* JsonRpcConnection::MessageHandler: an old event is ignored, any other one is
\* handled and relayed in turn; a position goes to SetLogPositionHandler.
MessageHandler(n) ==
    LET msg == Head(chan[n])
        fresh == msg.type = "event" /\ msg.ts >= remotePos[n]
        further == msg.type # "event" /\ msg.ts > localPos[n]
    IN
    /\ chan[n] # <<>>
    /\ chan' = [chan EXCEPT ![n] = Tail(@)]
    /\ remotePos' = IF fresh THEN [remotePos EXCEPT ![n] = msg.ts] ELSE remotePos
    /\ handled' = IF fresh THEN [handled EXCEPT ![n] = @ \cup {msg.ts}] ELSE handled
    /\ foreign' = IF fresh THEN [foreign EXCEPT ![n] = TRUE] ELSE foreign
    /\ localPos' = IF further THEN [localPos EXCEPT ![n] = msg.ts] ELSE localPos
    /\ Misplace(n, IF msg.type = "position" THEN {m \in Waiting(n) : m <= msg.ts} ELSE {})
    /\ UNCHANGED <<now, linkVars, relay, logVars, syncVars, sent, dropped>>

\* Mutation of UnneededFiles: a file goes when its first messages are confirmed.
UnneededFilesEarly(n) == {f \in files[n] : \E m \in f.msgs : m <= localPos[n]}

\* The files no endpoint needs any more
UnneededFiles(n) == {f \in files[n] : f.name <= localPos[n]}

\* ApiTimerHandler: log files that are not needed are removed and the peer is
\* told how far its events have been handled.  (Others may need a file longer.
\* As a bound, one such message is on its way at a time, and none that tells
\* the peer nothing new.)
ApiTimerHandler(n) ==
    /\ \E unneeded \in {UnneededFiles(n)} \cup (IF Others THEN {{}} ELSE {}) :
        files' = [files EXCEPT ![n] = @ \ unneeded]
    /\ IF /\ up[n] /\ remotePos[n] # 0
          /\ remotePos[n] > localPos[Peer(n)]
          /\ \A i \in DOMAIN chan[Peer(n)] : chan[Peer(n)][i].type # "ack"
       THEN Send(n, <<[type |-> "ack", ts |-> remotePos[n]]>>)
       ELSE UNCHANGED chan
    /\ UNCHANGED <<now, linkVars, relay, foreign, current, localPos, remotePos, syncVars,
                   sent, handled, excuses>>

Next ==
    \/ Connect
    \/ Break
    \/ \E n \in Nodes :
        \/ Relay(n) \/ PersistMessage(n) \/ RelayForeign(n)
        \/ SyncClient(n) \/ ReplayBegin(n) \/ ReplayFile(n) \/ ReplayAgain(n) \/ ReplayEnd(n)
        \/ Disconnect(n) \/ MessageHandler(n) \/ ApiTimerHandler(n)

Spec == Init /\ [][Next]_vars

\* Threads run and messages arrive; nothing makes events or connections happen.
Fairness ==
    \A n \in Nodes :
        /\ WF_vars(PersistMessage(n)) /\ WF_vars(RelayForeign(n))
        /\ WF_vars(SyncClient(n)) /\ WF_vars(ReplayBegin(n)) /\ WF_vars(ReplayFile(n))
        /\ WF_vars(ReplayAgain(n)) /\ WF_vars(ReplayEnd(n))
        /\ WF_vars(Disconnect(n)) /\ WF_vars(MessageHandler(n))

LiveSpec == Spec /\ Fairness

-----------------------------------------------------------------------------
(* Properties                                                                *)

Excused(n) == dropped[n] \cup misplaced[n]

\* Every event that the code does not give up (see Drop, Misplace) reached the
\* peer, is on its way or waits in the log behind the confirmed position: no
\* order of confirmations, replays, rotations, removals and breaks loses one.
Accounted ==
    \A n \in Nodes : \A m \in sent[n] :
        \/ m \in handled[Peer(n)] \cup Events(chan[Peer(n)]) \cup {relay[n]}
        \/ m \in Logged(n) /\ m > localPos[n]
        \/ m \in Excused(n)

\* If the connection lasts in the end, the peer gets every event that is not
\* excused: the replay ends, and none slips through between it and live sending.
EventuallyInSync ==
    <>[]link => <>[](\A n \in Nodes : sent[n] \ Excused(n) \subseteq handled[Peer(n)])

\* Nothing is going on any more.
Settled ==
    /\ link
    /\ \A n \in Nodes :
        sync[n] = "idle" /\ chan[n] = <<>> /\ relay[n] = 0 /\ ~foreign[n]

\* doc/06-distributed-monitoring.md: "The replay log is a built-in mechanism to
\* ensure that nodes in a distributed setup keep the same history (check results,
\* notifications, etc.) when nodes are temporarily disconnected and then
\* reconnect."  Whatever was logged and could be replayed has to arrive.
SameHistory ==
    Settled => \A n \in Nodes : sent[n] \ dropped[n] \subseteq handled[Peer(n)]
=============================================================================

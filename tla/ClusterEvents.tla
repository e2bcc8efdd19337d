--------------------------- MODULE ClusterEvents ---------------------------
(***************************************************************************)
(* How an event of one node reaches the rest of the cluster: the handlers  *)
(* of lib/icinga/clusterevents.cpp and the relay of lib/remote's           *)
(* ApiListener (RelayMessage, SyncRelayMessage, RelayMessageOne), on a tree *)
(* of zones whose connections are any subset of the possible ones. One     *)
(* event travels at a time; every pair of a *Handler() and its *APIHandler() *)
(* is a policy: for which object the event is relayed, which zones may send *)
(* it, and whether the receiver's own state may make it useless.            *)
(* The execute-command action sends four messages: "Pending" and "Done"     *)
(* update the executions of the checkable, "Execute" carries the command to *)
(* its endpoint and "Executed" the result back.                             *)
(* What is replayed after a reconnect is the subject of ReplayLog.          *)
(***************************************************************************)
EXTENDS Naturals, Sequences, FiniteSets, SequencesExt

CONSTANTS Zones,      \* zones with endpoints
          Global,     \* the global zone
          NoZone,
          NoNode,
          Parent,     \* Zones -> Zones \cup {NoZone}
          Endpoints,  \* Zones -> sequence of nodes: endpoints of the zone, as configured
          Agent,      \* the command_endpoint of the checkables
          Requests    \* execute-command requests: <<node, zone of the object, endpoint>>

Nodes == UNION {ToSet(Endpoints[z]) : z \in Zones}
ZoneOf == [n \in Nodes |-> CHOOSE z \in Zones : n \in ToSet(Endpoints[z])]

\* Nodes are numbers, in the order of their names.
ASSUME TreeAssumption == /\ Nodes \subseteq Nat /\ Agent \in Nodes
                         /\ Parent \in [Zones -> Zones \cup {NoZone}]
                         /\ \A y, z \in Zones : y # z =>
                               ToSet(Endpoints[y]) \cap ToSet(Endpoints[z]) = {}

VARIABLES links,    \* the connections: sets of two endpoints, Endpoint::GetConnected()
          event,    \* the event that travels, or NoEvent
          active,   \* the node that has the authority over the object
          relayQ,   \* m_RelayQueue of every node
          chan,     \* messages on their way, per connection and direction
          handled,  \* ghost: how often a node accepted a message
          execution, \* what a node knows of the execution: none, Pending, Done
          running,  \* commands that run: <<node, client that asked>>
          logged,   \* nodes that persisted a message in the replay log
          refused,  \* nodes whose own state made the event useless
          unable    \* ghost: nodes that found an endpoint on the way not capable

clusterVars ==
    <<links, event, active, relayQ, chan, handled, execution, running, logged, refused,
      unable>>

Methods == {"Event", "Pending", "Done", "Execute", "Executed"}
NoEvent == [kind |-> "none"]
----------------------------------------------------------------------------
\* Zone::IsChildOf() holds for the zone itself and the zones above it.
AllParents[z \in Zones \cup {Global}] ==
    {z} \cup IF z = Global THEN {} ELSE IF Parent[z] = NoZone THEN {} ELSE AllParents[Parent[z]]
IsChildOf(z, above) == above \in AllParents[z]

CanAccessObject(zone, objectZone) == objectZone = Global \/ IsChildOf(objectZone, zone)

\* A node has the objects of its zone, of the zones below it and of the global zone.
HasObject(n) == CanAccessObject(ZoneOf[n], event.object)

Connected(n, e) == {n, e} \in links
GetMaster(n) == LET up == {e \in ToSet(Endpoints[ZoneOf[n]]) : e = n \/ Connected(n, e)}
                IN CHOOSE e \in up : \A f \in up : e <= f

PossibleLinks ==
    {{a, b} : <<a, b>> \in {p \in Nodes \X Nodes :
        /\ p[1] # p[2]
        /\ \/ ZoneOf[p[1]] = ZoneOf[p[2]]
           \/ Parent[ZoneOf[p[1]]] = ZoneOf[p[2]]}}

\* An entry of the relay queue: the message, its origin, and the zone of secobj.
Item(method, fromClient, fromZone, secobj) ==
    [method |-> method, fromClient |-> fromClient, fromZone |-> fromZone, secobj |-> secobj]
Local(method, secobj) == Item(method, NoNode, NoZone, secobj)

ClusterInit ==
    /\ links \in SUBSET PossibleLinks
    /\ event = NoEvent
    /\ active = NoNode
    /\ relayQ = [n \in Nodes |-> <<>>]
    /\ chan = [p \in Nodes \X Nodes |-> <<>>]
    /\ handled = [n \in Nodes |-> [m \in Methods |-> 0]]
    /\ execution = [n \in Nodes |-> "none"]
    /\ running = {}
    /\ logged = {} /\ refused = {} /\ unable = {}
----------------------------------------------------------------------------
\* The endpoints of zone z, in their order, that node n is asked to tell.
Others(n, z) == SelectSeq(Endpoints[z], LAMBDA e : e # n)

\* Mutation of Eligible: every member of a zone relays to all others.
EligibleAnyMember(n, z, item, e) ==
    /\ Connected(n, e)
    /\ e # item.fromClient
    /\ z # item.fromZone

Eligible(n, z, item, e) ==
    /\ Connected(n, e)
    /\ e # item.fromClient
    /\ z # item.fromZone
    /\ GetMaster(n) \in {n, e}

\* The own zone is told through every eligible endpoint, another through the first.
SendTo(n, z, item) ==
    LET eligible == SelectSeq(Others(n, z), LAMBDA e : Eligible(n, z, item, e))
    IN IF z = ZoneOf[n] \/ eligible = <<>> THEN ToSet(eligible) ELSE {Head(eligible)}

\* A zone needs the replay log if none of its endpoints is connected; for the own
\* zone the last one in the list decides.
NeedsReplay(n, z) ==
    LET others == Others(n, z)
    IN /\ others # <<>>
       /\ IF z = ZoneOf[n] THEN ~Connected(n, Last(others))
                           ELSE \A e \in ToSet(others) : ~Connected(n, e)

\* Of the target zone and the zones above it, a node relays to its own zone, the
\* parent and direct children; for the global zone, to its own and the children.
AllTargetZones(n, secobj) ==
    LET target == IF secobj = NoZone THEN ZoneOf[n] ELSE secobj
        children == {z \in Zones : Parent[z] = ZoneOf[n]}
    IN IF target = Global THEN {ZoneOf[n]} \cup children
       ELSE AllParents[target] \cap (children \cup {ZoneOf[n], Parent[ZoneOf[n]]})

Receivers(n, item) == UNION {SendTo(n, z, item) : z \in AllTargetZones(n, item.secobj)}

SyncRelayMessage(n) ==
    /\ relayQ[n] # <<>>
    /\ LET item == Head(relayQ[n])
           msg == [method |-> item.method, originZone |-> item.fromZone]
           receivers == Receivers(n, item)
       IN /\ chan' = [p \in DOMAIN chan |->
                        IF p[1] = n /\ p[2] \in receivers
                        THEN Append(chan[p], msg) ELSE chan[p]]
          /\ logged' = IF \E z \in AllTargetZones(n, item.secobj) : NeedsReplay(n, z)
                       THEN logged \cup {n} ELSE logged
    /\ relayQ' = [relayQ EXCEPT ![n] = Tail(@)]
    /\ UNCHANGED <<links, event, active, handled, execution, running, refused, unable>>
----------------------------------------------------------------------------
\* Node n accepts a message and relays what its handler relays.
Handle(n, method, items) ==
    /\ handled' = [handled EXCEPT ![n][method] = @ + 1]
    /\ relayQ' = [relayQ EXCEPT ![n] = @ \o items]

Discard == UNCHANGED <<handled, relayQ, execution, running>>

Take(a, n) == chan' = [chan EXCEPT ![<<a, n>>] = Tail(@)]

\* JsonRpcConnection::MessageHandler() trusts its own zone to name the origin.
FromZone(a, n) == IF ZoneOf[a] # ZoneOf[n] THEN ZoneOf[a] ELSE Head(chan[<<a, n>>]).originZone

\* Which zones a handler listens to, besides the node itself.
Listens(n, from) ==
    CASE event.accepts \in {"access", "agent"} -> CanAccessObject(from, event.object)
      [] event.accepts = "zone" -> from = ZoneOf[n]
      [] event.accepts = "above" -> IsChildOf(ZoneOf[n], from)

SecObj == IF event.secobj = "none" THEN NoZone ELSE event.object

\* A check result of the command endpoint is accepted from nobody else outside the
\* object's zones, and treated as an own one by the node that schedules the check.
EventHandler(a, n, from) ==
    LET ofAgent == event.accepts = "agent" /\ a = Agent
        item == IF ofAgent /\ n = active THEN Local("Event", SecObj)
                                         ELSE Item("Event", a, from, SecObj)
    IN /\ UNCHANGED <<execution, running, unable>>
       /\ IF HasObject(n) /\ (from = NoZone \/ Listens(n, from) \/ ofAgent)
          THEN \/ Handle(n, "Event", <<item>>) /\ UNCHANGED refused
               \/ event.refuse /\ refused' = refused \cup {n} /\ Discard
          ELSE Discard /\ UNCHANGED refused

\* UpdateExecutionsAPIHandler()
UpdateExecutions(a, n, from, method) ==
    /\ UNCHANGED <<refused, unable>>
    /\ IF ~HasObject(n) \/ (from # NoZone /\ ~CanAccessObject(from, event.object))
       THEN Discard
       ELSE /\ Handle(n, method, <<Item(method, a, from, event.object)>>)
            /\ execution' = [execution EXCEPT ![n] = method]
            /\ UNCHANGED running

\* ExecutedCommandAPIHandler(), called directly if the command ran here.
ExecutedCommand(n, from) ==
    /\ UNCHANGED <<running, refused, unable>>
    /\ IF \/ ~HasObject(n) \/ execution[n] = "none"
          \/ from # NoZone /\ ~IsChildOf(ZoneOf[event.target], from)
       THEN Discard
       ELSE /\ Handle(n, "Executed", <<Local("Done", event.object)>>)
            /\ execution' = [execution EXCEPT ![n] = "Done"]

\* The child zones of node n on the way to the endpoint.
Through(n, target) ==
    {z \in Zones : Parent[z] = ZoneOf[n] /\ CanAccessObject(z, ZoneOf[target])}

\* ExecuteCommandAPIHandler(): run it here, pass it on, or report that an endpoint on
\* the way is not capable or that its zone does not know the checkable. A node learns
\* the capabilities of another from its Hello: never if it is too old or was never
\* connected, and at any time otherwise.
ExecuteCommand(a, n, from) ==
    LET target == event.target
        through == Through(n, target)
        PassOn(item) == Handle(n, "Execute", <<item>>)
    IN /\ UNCHANGED <<execution, refused>>
       /\ IF ZoneOf[a] \notin {ZoneOf[n], Parent[ZoneOf[n]]} THEN Discard /\ UNCHANGED unable
          ELSE IF target = n
          THEN /\ Handle(n, "Execute", <<>>)
               /\ running' = IF from # NoZone /\ ~IsChildOf(ZoneOf[n], from) THEN running
                             ELSE running \cup {<<n, a>>}
               /\ UNCHANGED unable
          ELSE /\ UNCHANGED running
               /\ IF ~IsChildOf(ZoneOf[target], ZoneOf[n]) THEN Discard /\ UNCHANGED unable
                  ELSE \/ /\ through # {}
                          /\ unable' = unable \cup {n}
                          /\ PassOn(Local("Executed", NoZone))
                       \/ /\ UNCHANGED unable
                          /\ IF through # {} /\ ~HasObject(n) THEN Discard
                             ELSE PassOn(IF \E z \in through : /\ z # ZoneOf[target]
                                                              /\ ~CanAccessObject(z, event.object)
                                         THEN Local("Executed", NoZone)
                                         ELSE Item("Execute", a, from, ZoneOf[target]))

Receive(a, n) ==
    /\ chan[<<a, n>>] # <<>>
    /\ Take(a, n)
    /\ LET method == Head(chan[<<a, n>>]).method
           from == FromZone(a, n)
       IN CASE method = "Event" -> EventHandler(a, n, from)
            [] method \in {"Pending", "Done"} -> UpdateExecutions(a, n, from, method)
            [] method = "Executed" -> ExecutedCommand(n, from)
            [] method = "Execute" -> ExecuteCommand(a, n, from)
    /\ UNCHANGED <<links, event, active, logged>>
----------------------------------------------------------------------------
Policy(secobj, accepts, refuse) == [secobj |-> secobj, accepts |-> accepts, refuse |-> refuse]

\* The *Handler() and *APIHandler() of every signal.
CheckResult == Policy("object", "access", TRUE)
NextCheckChanged == Policy("object", "access", TRUE)
LastCheckStartedChanged == Policy("object", "access", FALSE)
StateBeforeSuppressionChanged == Policy("none", "zone", FALSE)
SuppressedNotificationsChanged == Policy("none", "zone", FALSE)
SuppressedNotificationTypesChanged == Policy("none", "zone", FALSE)
NextNotificationChanged == Policy("object", "access", TRUE)
LastNotifiedStatePerUserUpdated == Policy("object", "zone", FALSE)
LastNotifiedStatePerUserCleared == Policy("object", "zone", FALSE)
ForceNextCheckChanged == Policy("object", "access", FALSE)
ForceNextNotificationChanged == Policy("object", "access", FALSE)
AcknowledgementSet == Policy("object", "access", TRUE)
AcknowledgementCleared == Policy("object", "access", FALSE)
SendNotifications == Policy("none", "zone", FALSE)
NotificationSentUser == Policy("none", "zone", FALSE)
NotificationSentToAllUsers == Policy("none", "zone", FALSE)
SetRemovalInfo == Policy("object", "above", FALSE)

Policies ==
    {CheckResult, NextCheckChanged, LastCheckStartedChanged, StateBeforeSuppressionChanged,
     SuppressedNotificationsChanged, SuppressedNotificationTypesChanged,
     NextNotificationChanged, LastNotifiedStatePerUserUpdated,
     LastNotifiedStatePerUserCleared, ForceNextCheckChanged, ForceNextNotificationChanged,
     AcknowledgementSet, AcknowledgementCleared, SendNotifications, NotificationSentUser,
     NotificationSentToAllUsers, SetRemovalInfo}

NewEvent(n, object, policy) ==
    [kind |-> "Event", node |-> n, object |-> object, secobj |-> policy.secobj,
     accepts |-> policy.accepts, refuse |-> policy.refuse]

\* A signal fires on node n.
RaiseEvent(n, policy, object) ==
    /\ event = NoEvent
    /\ CanAccessObject(ZoneOf[n], object)
    /\ event' = NewEvent(n, object, policy)
    /\ Handle(n, "Event", <<Local("Event", IF policy.secobj = "none" THEN NoZone ELSE object)>>)
    /\ UNCHANGED <<links, active, chan, execution, running, logged, refused, unable>>

\* A remote check: the answer goes to the endpoint that asked for it, which may
\* have lost the authority over the object since.
AgentAnswers(n, scheduler) ==
    /\ event = NoEvent
    /\ ZoneOf[n] = Parent[ZoneOf[Agent]] /\ ZoneOf[scheduler] = ZoneOf[n]
    /\ Connected(n, Agent)
    /\ event' = NewEvent(n, ZoneOf[n], Policy("object", "agent", FALSE))
    /\ active' = scheduler
    /\ chan' = [chan EXCEPT ![<<Agent, n>>] =
                    Append(@, [method |-> "Event", originZone |-> NoZone])]
    /\ UNCHANGED <<links, relayQ, handled, execution, running, logged, refused, unable>>

\* The API action execute-command on node n.
ExecuteCommandAction(n, object, target) ==
    /\ event = NoEvent
    /\ CanAccessObject(ZoneOf[n], object)
    /\ target = Agent \/ CanAccessObject(ZoneOf[target], object)
    /\ event' = [kind |-> "Execution", node |-> n, object |-> object, target |-> target]
    /\ execution' = [execution EXCEPT ![n] = "Pending"]
    /\ Handle(n, "Pending", <<Local("Pending", object)>> \o
           (IF target = n THEN <<>> ELSE <<Local("Execute", ZoneOf[target])>>))
    /\ running' = IF target = n THEN {<<n, NoNode>>} ELSE {}
    /\ UNCHANGED <<links, active, chan, logged, refused, unable>>

\* The same action if an endpoint on the way is not capable: the execution is done, and
\* its update is relayed again. Both updates hold the same dictionary: the first may be
\* encoded after the change.
ExecuteCommandFails(n, object, target) ==
    /\ event = NoEvent
    /\ CanAccessObject(ZoneOf[n], object)
    /\ target = Agent \/ CanAccessObject(ZoneOf[target], object)
    /\ target # n /\ Through(n, target) # {}
    /\ event' = [kind |-> "Execution", node |-> n, object |-> object, target |-> target]
    /\ execution' = [execution EXCEPT ![n] = "Done"]
    /\ \E first \in {"Pending", "Done"} :
          Handle(n, "Done", <<Local(first, object), Local("Done", object)>>)
    /\ unable' = {n}
    /\ UNCHANGED <<links, active, chan, running, logged, refused>>

\* The command ends; SendEventExecutedCommand() answers the endpoint that asked.
CommandFinished(n, source) ==
    /\ <<n, source>> \in running
    /\ running' = running \ {<<n, source>>}
    /\ IF source = NoNode
       THEN /\ Handle(n, "Executed", <<Local("Done", event.object)>>)
            /\ execution' = [execution EXCEPT ![n] = "Done"]
            /\ UNCHANGED chan
       ELSE /\ chan' = [chan EXCEPT ![<<n, source>>] =
                           Append(@, [method |-> "Executed", originZone |-> NoZone])]
            /\ UNCHANGED <<handled, relayQ, execution>>
    /\ UNCHANGED <<links, event, active, logged, refused, unable>>

ClusterNext ==
    \/ \E n \in Nodes, policy \in Policies, object \in Zones \cup {Global} :
          RaiseEvent(n, policy, object)
    \/ \E n, scheduler \in Nodes : AgentAnswers(n, scheduler)
    \/ \E r \in Requests : \/ ExecuteCommandAction(r[1], r[2], r[3])
                          \/ ExecuteCommandFails(r[1], r[2], r[3])
    \/ \E n \in Nodes : SyncRelayMessage(n)
    \/ \E a, n \in Nodes : Receive(a, n)
    \/ \E n \in Nodes, source \in Nodes \cup {NoNode} : CommandFinished(n, source)

ClusterTypeOK ==
    /\ links \subseteq PossibleLinks
    /\ active \in Nodes \cup {NoNode}
    /\ \A n \in Nodes : \A i \in DOMAIN relayQ[n] : relayQ[n][i].method \in Methods
    /\ \A p \in Nodes \X Nodes : \A i \in DOMAIN chan[p] :
          /\ Connected(p[1], p[2])
          /\ chan[p][i].originZone \in Zones \cup {NoZone}
    /\ handled \in [Nodes -> [Methods -> Nat]]
    /\ execution \in [Nodes -> {"none", "Pending", "Done"}]
    /\ running \subseteq Nodes \X (Nodes \cup {NoNode})
    /\ logged \subseteq Nodes /\ refused \subseteq Nodes /\ unable \subseteq Nodes
----------------------------------------------------------------------------
\* A node accepts a message of an event at most once. A node that finds an endpoint on
\* the way not capable answers an execution by itself, whoever else does: of answers
\* and of the updates they cause a node may then accept one for each such node more.
NoRoutingLoop ==
    \A n \in Nodes, m \in Methods :
       handled[n][m] <= 1 + IF m \in {"Executed", "Done"} THEN Cardinality(unable) ELSE 0

\* Who has to hear of the event: everyone who has the object; for a notification the
\* own zone only, for a removal or a global object the own zone and those below.
Audience ==
    {n \in Nodes :
       /\ HasObject(n)
       /\ event.kind = "Event" =>
             /\ event.accepts = "zone" => ZoneOf[n] = ZoneOf[event.node]
             /\ event.accepts = "above" => IsChildOf(ZoneOf[n], ZoneOf[event.node])
       /\ event.object = Global => IsChildOf(ZoneOf[n], ZoneOf[event.node])}

\* A node knows the result of an execution once it was told; an update that overtook
\* it on another path may overwrite it.
Knows(n) == IF event.kind = "Execution" THEN handled[n]["Done"] + handled[n]["Executed"] > 0
            ELSE handled[n]["Event"] > 0

\* An execution reaches endpoints below the node that asks for it; an agent's answer
\* is shared if the node that receives it still schedules the check.
Deliverable ==
    IF event.kind = "Execution" THEN IsChildOf(ZoneOf[event.target], ZoneOf[event.node])
    ELSE event.accepts = "agent" => event.node = active

ClusterQuiet == /\ event # NoEvent /\ running = {}
         /\ \A n \in Nodes : relayQ[n] = <<>>
         /\ \A p \in Nodes \X Nodes : chan[p] = <<>>

\* Whichever connections are up, an event gets to a node at most once, without routing
\* loops and duplicates, and to its audience only (an answer to an execution once more
\* for every node that gives one because an endpoint is not capable). When all messages
\* have been handled, a member of the audience has missed it only if some node has put
\* it into its replay log or had no use for it.
ReachesItsAudience ==
    /\ NoRoutingLoop
    /\ event # NoEvent =>
        /\ \A n \in Nodes : Knows(n) => n \in Audience
        /\ ClusterQuiet /\ Deliverable /\ logged = {} /\ refused = {} => \A n \in Audience : Knows(n)
=============================================================================

------------------------------ MODULE Downtime ------------------------------
(***************************************************************************)
(* Downtimes (lib/icinga/downtime.cpp, checkable-downtime.cpp): scheduled by *)
(* the API or an external command together with those of the children,      *)
(* triggered by check results, by the start timer and by other downtimes,   *)
(* and removed by users, by their parents or, once expired, by a cleanup    *)
(* timer of their own.                                                      *)
(*                                                                          *)
(* TriggerDowntime has no lock of its own. A thread that is in it is a       *)
(* stack of calls, and its steps interleave with those of the others:        *)
(* ProcessCheckResult (one thread per checkable, under the checkable's       *)
(* lock), DowntimesStartTimerHandler, and the request that creates           *)
(* downtimes, which holds the ObjectLock of the one it starts.               *)
(***************************************************************************)
EXTENDS Integers, Sequences, FiniteSets

CONSTANTS
    Names,        \* the names of the downtimes that are ever created
    NoName,
    Checkables,
    Children,     \* [Checkables -> set of checkables], GetAllChildren()
    Windows,      \* what is scheduled: records with start, end, fixed, duration
    Options,      \* the child options that requests use
    MaxScheduled, \* bound: requests to schedule downtimes
    MaxThreads,   \* bound: threads that trigger downtimes at the same time
    MaxNow        \* bound: the clock stops here

ASSUME DowntimeAssumption ==
    /\ NoName \notin Names
    /\ Checkables # {} /\ {"timer", "request"} \cap Checkables = {}
    /\ Children \in [Checkables -> SUBSET Checkables]
    /\ Windows # {}
    /\ \A w \in Windows : /\ {w.start, w.end, w.duration} \subseteq Nat
                          /\ w.start > 0 /\ w.end > 0 /\ w.fixed \in BOOLEAN
    /\ Options \subseteq {"DowntimeNoChildren", "DowntimeTriggeredChildren",
                          "DowntimeNonTriggeredChildren"}
    /\ {MaxScheduled, MaxThreads, MaxNow} \subseteq Nat /\ MaxNow > 0

VARIABLES
    now,
    downtimes,    \* [Names -> downtime], see DowntimeRecord
    triggers,     \* [Names -> set of names], a downtime's triggers
    cleanup,      \* [Names -> timer], m_CleanupTimer
    calls,        \* [Threads -> stack of calls of TriggerDowntime]
    triggerTime,  \* [Threads -> time], the argument of these calls
    request,      \* the request that is being executed
    scheduled,    \* how many requests there have been
    announced,    \* [Names -> notifications requested], for start and end
    unannounced,  \* fixed downtimes that were first triggered by something else
    overrun,      \* downtimes whose timer was set while its callback ran
    late          \* downtimes added to the triggers of one that was triggered before

downtimeVars == <<now, downtimes, triggers, cleanup, calls, triggerTime,
                  request, scheduled, announced, unannounced, overrun, late>>

\* What a thread in TriggerDowntime has, what a request has, and the history
threadVars == <<calls, triggerTime>>
requestVars == <<request, scheduled>>
historyVars == <<announced, unannounced, overrun, late>>

Threads == Checkables \cup {"timer", "request"}

\* Where an object is in its life. It is active from "starting" on, and whoever
\* starts it holds its ObjectLock until it is "started". All that entry_time is
\* used for is the later of it and start_time.
DowntimeRecord ==
    [life: {"none", "starting", "started", "removed"},
     on: Checkables, window: Windows, earliest: Nat, trigger: Nat,
     parent: Names \cup {NoName}, paused: BOOLEAN]

\* A call of TriggerDowntime, or with NoName of TriggerDowntimes
CallRecord == [name: Names \cup {NoName}, pc: {"set", "setup", "each"}, todo: SUBSET Names]

RequestRecord ==
    [pc: {"idle", "trigger", "started", "children"}, name: Names \cup {NoName},
     first: Names \cup {NoName}, trigger: Names \cup {NoName},
     children: SUBSET Checkables, option: Options \cup {"DowntimeNoChildren"}]

\* The cleanup timer is not registered, or its callback runs, or it is registered
\* for a time.
NotRegistered == 0
Running == -1

Idle == [pc |-> "idle", name |-> NoName, first |-> NoName, trigger |-> NoName,
         children |-> {}, option |-> "DowntimeNoChildren"]

DowntimeInit ==
    /\ now = 1
    /\ downtimes = [d \in Names |->
          [life |-> "none", on |-> CHOOSE c \in Checkables : TRUE,
           window |-> CHOOSE w \in Windows : TRUE, earliest |-> 0, trigger |-> 0,
           parent |-> NoName, paused |-> TRUE]]
    /\ triggers = [d \in Names |-> {}]
    /\ cleanup = [d \in Names |-> NotRegistered]
    /\ calls = [t \in Threads |-> <<>>]
    /\ triggerTime = [t \in Threads |-> 0]
    /\ request = Idle
    /\ scheduled = 0
    /\ announced = [d \in Names |-> {}]
    /\ unannounced = {}
    /\ overrun = {}
    /\ late = {}

-----------------------------------------------------------------------------
(* What a downtime says of itself                                           *)

Registered(d) == downtimes[d].life \in {"starting", "started"}

IsInEffect(d) ==
    LET r == downtimes[d] IN
    IF r.window.fixed THEN now >= r.window.start /\ now < r.window.end
    ELSE r.trigger # 0 /\ now < r.trigger + r.window.duration

IsTriggered(d) == downtimes[d].trigger > 0 /\ downtimes[d].trigger <= now

IsExpired(d) ==
    LET r == downtimes[d] IN
    IF r.window.fixed THEN r.window.end < now
    ELSE \/ IsTriggered(d) /\ ~IsInEffect(d)
         \/ ~IsTriggered(d) /\ r.window.end < now

CanBeTriggered(d) ==
    /\ ~(IsInEffect(d) /\ IsTriggered(d))
    /\ ~IsExpired(d)
    /\ now >= downtimes[d].window.start /\ now <= downtimes[d].window.end

Later(a, b) == IF a > b THEN a ELSE b

-----------------------------------------------------------------------------
(* The cleanup timer, as Timer::Reschedule and Timer::Start leave it: while   *)
(* its callback runs it is not registered, and it has no interval that would  *)
(* register it afterwards.                                                    *)

\* The time of the cleanup, apart from the tenth of a second that is added
CleanupTime(d) ==
    LET r == downtimes[d] IN
    IF r.window.fixed \/ r.trigger = 0 THEN r.window.end ELSE r.trigger + r.window.duration

SetupCleanupTimer(d) ==
    /\ cleanup' = [cleanup EXCEPT ![d] = IF @ = Running THEN @ ELSE CleanupTime(d)]
    /\ overrun' = IF cleanup[d] = Running THEN overrun \cup {d} ELSE overrun

\* The callback starts.
CleanupBegin(d) ==
    /\ cleanup[d] \notin {NotRegistered, Running}
    /\ now > cleanup[d]
    /\ cleanup' = [cleanup EXCEPT ![d] = Running]
    /\ UNCHANGED <<now, downtimes, triggers, threadVars, requestVars, historyVars>>

-----------------------------------------------------------------------------
(* Stop, as a part of the deletion of the object                             *)

\* Mutation of NotifyDowntimeEnd: whether or not it was triggered, its end is announced.
EndAlways(d) == {"end"}

\* NotifyDowntimeEnd
NotifyDowntimeEnd(d) == IF IsTriggered(d) THEN {"end"} ELSE {}

\* DeleteObject of started downtimes: Deactivate waits for the ObjectLock of those
\* that are being started.
Remove(ds) ==
    /\ downtimes' = [d \in Names |-> IF d \in ds
                        THEN [downtimes[d] EXCEPT !.life = "removed", !.paused = TRUE]
                        ELSE downtimes[d]]
    /\ announced' = [d \in Names |-> IF d \in ds THEN announced[d] \cup NotifyDowntimeEnd(d)
                                     ELSE announced[d]]

\* Pause stops the timer, without waiting for the callback. Deactivate pauses what
\* is not paused yet.
Halted(d) == IF cleanup[d] = Running \/ downtimes[d].paused THEN cleanup[d] ELSE NotRegistered

\* The callback removes the downtime if it has expired; the timer that has no
\* interval is not registered again.
CleanupEnd(d) ==
    /\ cleanup[d] = Running
    /\ cleanup' = [cleanup EXCEPT ![d] = NotRegistered]
    /\ \/ /\ Registered(d) /\ IsExpired(d) /\ downtimes[d].life = "started"
          /\ Remove({d})
       \/ /\ ~(Registered(d) /\ IsExpired(d))
          /\ UNCHANGED <<downtimes, announced>>
    /\ UNCHANGED <<now, triggers, threadVars, requestVars, unannounced, overrun, late>>

\* RemoveDowntime: the API includes the children, one after the other and before
\* the downtime itself; external commands do not.
RemoveDowntime(d, includeChildren) ==
    LET ds == {d} \cup IF includeChildren
                         THEN {e \in Names : Registered(e) /\ downtimes[e].parent = d}
                         ELSE {}
    IN /\ \A e \in ds : downtimes[e].life = "started"
       /\ Remove(ds)
       /\ cleanup' = [e \in Names |-> IF e \in ds THEN Halted(e) ELSE cleanup[e]]
       /\ UNCHANGED <<now, triggers, threadVars, requestVars, unannounced, overrun, late>>

-----------------------------------------------------------------------------
(* TriggerDowntime: a call that passed the test is at "set", "setup" or       *)
(* "each" with the triggers that are still to come.                           *)

Call(d, pc, todo) == [name |-> d, pc |-> pc, todo |-> todo]
Top(t) == calls[t][Len(calls[t])]
Below(t) == SubSeq(calls[t], 1, Len(calls[t]) - 1)
AtTop(t, pc) == calls[t] # <<>> /\ Top(t).pc = pc

\* A call, which returns at once unless the downtime can be triggered
Trigger(stack, d) ==
    IF CanBeTriggered(d) THEN Append(stack, Call(d, "set", {})) ELSE stack

SetTriggerTime(t) ==
    /\ AtTop(t, "set")
    /\ LET d == Top(t).name IN
       /\ \/ /\ downtimes[d].trigger = 0
             /\ downtimes' = [downtimes EXCEPT ![d].trigger = triggerTime[t]]
             /\ unannounced' = IF downtimes[d].window.fixed /\ "start" \notin announced[d]
                               THEN unannounced \cup {d} ELSE unannounced
          \/ /\ downtimes[d].trigger # 0
             /\ UNCHANGED <<downtimes, unannounced>>
       /\ calls' = [calls EXCEPT ![t] = Append(Below(t), Call(d, "setup", {}))]
    /\ UNCHANGED <<now, triggers, cleanup, triggerTime, requestVars, announced, overrun, late>>

\* Mutation of SetupAndLock: the cleanup timer keeps the end of the window.
LockOnly(t) ==
    /\ AtTop(t, "setup")
    /\ LET d == Top(t).name IN
       /\ downtimes[d].life = "starting" => t = "request"
       /\ calls' = [calls EXCEPT ![t] = Append(Below(t), Call(d, "each", triggers[d]))]
    /\ UNCHANGED <<now, downtimes, triggers, cleanup, triggerTime, requestVars, historyVars>>

\* The ObjectLock for the timer, then the lock of the triggers, which nobody
\* changes until all were called.
SetupAndLock(t) ==
    /\ AtTop(t, "setup")
    /\ LET d == Top(t).name IN
       /\ downtimes[d].life = "starting" => t = "request"
       /\ SetupCleanupTimer(d)
       /\ calls' = [calls EXCEPT ![t] = Append(Below(t), Call(d, "each", triggers[d]))]
    /\ UNCHANGED <<now, downtimes, triggers, triggerTime, requestVars, announced, unannounced, late>>

\* Mutation of TriggerNext: the triggers are dropped.
TriggerNoOthers(t) ==
    /\ AtTop(t, "each")
    /\ \E d \in Top(t).todo :
          LET rest == Append(Below(t), Call(Top(t).name, "each", Top(t).todo \ {d}))
          IN calls' = [calls EXCEPT ![t] = IF Top(t).name = NoName THEN Trigger(rest, d) ELSE rest]
    /\ UNCHANGED <<now, downtimes, triggers, cleanup, triggerTime, requestVars, historyVars>>

\* The next of the downtimes of the checkable, or of the triggers, which are names
\* of downtimes that may be gone
TriggerNext(t) ==
    /\ AtTop(t, "each")
    /\ \E d \in Top(t).todo :
          LET rest == Append(Below(t), Call(Top(t).name, "each", Top(t).todo \ {d}))
          IN calls' = [calls EXCEPT ![t] = IF Top(t).name = NoName \/ Registered(d)
                                           THEN Trigger(rest, d) ELSE rest]
    /\ UNCHANGED <<now, downtimes, triggers, cleanup, triggerTime, requestVars, historyVars>>

\* OnDowntimeTriggered, of which NotifyFlexibleDowntimeStart announces the
\* flexible ones; or TriggerDowntimes returns.
TriggerReturn(t) ==
    /\ AtTop(t, "each")
    /\ Top(t).todo = {}
    /\ LET d == Top(t).name IN
       announced' = IF d = NoName \/ downtimes[d].window.fixed THEN announced
                    ELSE [announced EXCEPT ![d] = @ \cup {"start"}]
    /\ calls' = [calls EXCEPT ![t] = Below(t)]
    /\ triggerTime' = IF Below(t) = <<>> THEN [triggerTime EXCEPT ![t] = 0] ELSE triggerTime
    /\ UNCHANGED <<now, downtimes, triggers, cleanup, requestVars, unannounced, overrun, late>>

-----------------------------------------------------------------------------
(* Who calls it                                                              *)

\* Bound: other threads only start when few are under way.
Room(t) == /\ calls[t] = <<>>
           /\ Cardinality({u \in Threads : calls[u] # <<>>}) < MaxThreads

\* ProcessCheckResult: a result that is not OK triggers all downtimes of the
\* checkable. Other results have no influence on downtimes.
ProcessBadResult(c) ==
    LET ds == {d \in Names : Registered(d) /\ downtimes[d].on = c} IN
    /\ Room(c)
    /\ ds # {}
    /\ calls' = [calls EXCEPT ![c] = <<Call(NoName, "each", ds)>>]
    /\ triggerTime' = [triggerTime EXCEPT ![c] = now]
    /\ UNCHANGED <<now, downtimes, triggers, cleanup, requestVars, historyVars>>

\* OnDowntimeStarted announces a fixed downtime, then it is triggered.
StartFixed(t, d) ==
    /\ announced' = [announced EXCEPT ![d] = @ \cup {"start"}]
    /\ triggerTime' = [triggerTime EXCEPT ![t] = downtimes[d].earliest]
    /\ calls' = [calls EXCEPT ![t] = Trigger(<<>>, d)]

\* The DowntimesStartTimerHandler comes to a downtime.
DowntimesStartTimerHandler(d) ==
    /\ Room("timer")
    /\ Registered(d) /\ downtimes[d].window.fixed /\ CanBeTriggered(d)
    /\ StartFixed("timer", d)
    /\ UNCHANGED <<now, downtimes, triggers, cleanup, requestVars, unannounced, overrun, late>>

-----------------------------------------------------------------------------
(* ScheduleDowntime and AddDowntime                                          *)

\* CreateObject: the object is active and can be found, and Start registers it
\* with its checkable.
Create(d, c, w, parent) ==
    downtimes' = [downtimes EXCEPT ![d] =
        [life |-> "starting", on |-> c, window |-> w, earliest |-> Later(w.start, now),
         trigger |-> 0, parent |-> parent, paused |-> TRUE]]

Unused == {d \in Names : downtimes[d].life = "none"}

\* The request for a checkable, with or without its children. The names suffice
\* for all it creates.
ScheduleDowntime(c, w, option) ==
    LET children == IF option = "DowntimeNoChildren" THEN {} ELSE Children[c] IN
    /\ request.pc = "idle"
    /\ Cardinality(Unused) > Cardinality(children)
    /\ scheduled < MaxScheduled
    /\ scheduled' = scheduled + 1
    /\ \E d \in Unused :
          /\ Create(d, c, w, NoName)
          /\ request' = [pc |-> "trigger", name |-> d, first |-> d, trigger |-> NoName,
                         children |-> children, option |-> option]
    /\ UNCHANGED <<now, triggers, cleanup, threadVars, historyVars>>

\* It is triggered if it is flexible and the checkable has a problem, or if it is
\* fixed and its time has come. The checkable may have any state and any
\* last_state_change.
StartTrigger ==
    LET d == request.name
        r == downtimes[d]
    IN /\ request.pc = "trigger"
       /\ request' = [request EXCEPT !.pc = "started"]
       /\ \/ /\ ~r.window.fixed
             /\ \E changed \in 0 .. now :
                    triggerTime' = [triggerTime EXCEPT !["request"] =
                        IF CanBeTriggered(d) THEN Later(r.earliest, changed) ELSE 0]
             /\ calls' = [calls EXCEPT !["request"] = Trigger(<<>>, d)]
             /\ UNCHANGED announced
          \/ /\ r.window.fixed /\ CanBeTriggered(d)
             /\ StartFixed("request", d)
          \/ /\ ~(r.window.fixed /\ CanBeTriggered(d))
             /\ UNCHANGED <<announced, triggerTime, calls>>
       /\ UNCHANGED <<now, downtimes, triggers, cleanup, scheduled, unannounced, overrun, late>>

\* Start returns, and with it the ObjectLock. The name is added to the triggers
\* of the other downtime last, under their lock.
Locked(p) == \E t \in Threads : \E i \in DOMAIN calls[t] :
                calls[t][i].name = p /\ calls[t][i].pc = "each"

StartReturn ==
    LET p == request.trigger IN
    /\ request.pc = "started"
    /\ calls["request"] = <<>>
    /\ downtimes' = [downtimes EXCEPT ![request.name].life = "started"]
    /\ \/ p = NoName /\ UNCHANGED <<triggers, late>>
       \/ /\ p # NoName /\ ~Locked(p)
          /\ triggers' = [triggers EXCEPT ![p] = @ \cup {request.name}]
          /\ late' = IF downtimes[p].trigger # 0 THEN late \cup {request.name} ELSE late
    /\ request' = IF request.children = {} THEN Idle ELSE [request EXCEPT !.pc = "children"]
    /\ UNCHANGED <<now, cleanup, threadVars, scheduled, announced, unannounced, overrun>>

\* The next child, with the same window; with DowntimeTriggeredChildren it is
\* triggered by the first downtime, which is its parent in any case.
ScheduleChild ==
    /\ request.pc = "children"
    /\ \E c \in request.children, d \in Unused :
          /\ Create(d, c, downtimes[request.first].window, request.first)
          /\ request' = [request EXCEPT !.pc = "trigger", !.name = d, !.children = @ \ {c},
                !.trigger = IF request.option = "DowntimeTriggeredChildren"
                            THEN request.first ELSE @]
    /\ UNCHANGED <<now, triggers, cleanup, threadVars, scheduled, historyVars>>

-----------------------------------------------------------------------------
(* Authority and time                                                        *)

\* UpdateObjectAuthority comes to the downtime.
Resume(d) ==
    /\ downtimes[d].life = "started" /\ downtimes[d].paused
    /\ SetupCleanupTimer(d)
    /\ downtimes' = [downtimes EXCEPT ![d].paused = FALSE]
    /\ UNCHANGED <<now, triggers, threadVars, requestVars, announced, unannounced, late>>

Pause(d) ==
    /\ downtimes[d].life = "started" /\ ~downtimes[d].paused
    /\ cleanup' = [cleanup EXCEPT ![d] = Halted(d)]
    /\ downtimes' = [downtimes EXCEPT ![d].paused = TRUE]
    /\ UNCHANGED <<now, triggers, threadVars, requestVars, historyVars>>

Tick ==
    /\ now < MaxNow
    /\ now' = now + 1
    /\ UNCHANGED <<downtimes, triggers, cleanup, threadVars, requestVars, historyVars>>

-----------------------------------------------------------------------------
ThreadStep(t) == SetTriggerTime(t) \/ SetupAndLock(t) \/ TriggerNext(t) \/ TriggerReturn(t)

RequestStep == StartTrigger \/ StartReturn \/ ScheduleChild

DowntimeNext ==
    \/ \E c \in Checkables : ProcessBadResult(c)
    \/ \E d \in Names : \/ DowntimesStartTimerHandler(d)
                        \/ CleanupBegin(d) \/ CleanupEnd(d)
                        \/ Resume(d) \/ Pause(d)
                        \/ \E includeChildren \in BOOLEAN : RemoveDowntime(d, includeChildren)
    \/ \E t \in Threads : ThreadStep(t)
    \/ \E c \in Checkables, w \in Windows, o \in Options : ScheduleDowntime(c, w, o)
    \/ RequestStep
    \/ Tick

DowntimeSpec == DowntimeInit /\ [][DowntimeNext]_downtimeVars

-----------------------------------------------------------------------------
\* Every variable has its type.
DowntimeTypeOK ==
    /\ now \in Nat \ {0}
    /\ downtimes \in [Names -> DowntimeRecord]
    /\ triggers \in [Names -> SUBSET Names]
    /\ cleanup \in [Names -> Int]
    /\ calls \in [Threads -> Seq(CallRecord)]
    /\ triggerTime \in [Threads -> Nat]
    /\ request \in RequestRecord
    /\ announced \in [Names -> SUBSET {"start", "end"}]
    /\ unannounced \subseteq Names /\ overrun \subseteq Names /\ late \subseteq Names

\* A thread is triggering the downtime.
Busy(d) == \E t \in Threads : \E i \in DOMAIN calls[t] : calls[t][i].name = d

\* Nobody is told of the end of a downtime without having been told of its start
\* (OnDowntimeRemoved against OnDowntimeStarted and OnDowntimeTriggered), whichever
\* threads trigger, expire and remove it at the same time. A fixed downtime that a
\* check result or another downtime triggers before the start timer gets to it is
\* never announced; and the removal may precede the return of the trigger.
EndFollowsStart ==
    \A d \in Names :
        "end" \in announced[d] => \/ "start" \in announced[d]
                                  \/ d \in unannounced
                                  \/ Busy(d)

\* An expired downtime does not stay: its cleanup timer, which fires once, is always
\* set to the time at which it will have expired, also if it is triggered at the very
\* end of its window while the callback is due, or if the authority changes. Only a
\* trigger that sets the timer while its callback runs is forgotten.
CleanupComes ==
    \A d \in Names : downtimes[d].life = "started" /\ ~downtimes[d].paused =>
        \/ cleanup[d] \in {CleanupTime(d), Running}
        \/ \E t \in Threads : AtTop(t, "setup") /\ Top(t).name = d
        \/ d \in overrun

\* A downtime that triggers others takes them with it ("`DowntimeTriggeredChildren`
\* schedules child downtimes triggered by this downtime"): when nothing is under way and
\* it is in effect, so are the ones it triggers with the same window, whatever triggers,
\* expires and removes them meanwhile. AddDowntime links a child only after its parent
\* has been started: if that or a check result triggered the parent at once, the link is
\* too late and the child stays behind.
ChildrenFollow ==
    request = Idle /\ (\A t \in Threads : calls[t] = <<>>) =>
        \A p \in Names : \A d \in triggers[p] :
            /\ Registered(p) /\ IsInEffect(p)
            /\ Registered(d) /\ downtimes[d].window = downtimes[p].window
            => IsInEffect(d) \/ IsExpired(d) \/ d \in late

=============================================================================

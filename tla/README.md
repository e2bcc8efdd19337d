# TLA+ models of Icinga 2

Icinga 2 is a monitoring daemon. It schedules checks of hosts and services
("checkables"), turns their results into soft and hard states, decides who is
notified of what, and shares all of this between the nodes of a cluster. These
modules model the parts of `lib/` that decide *when something happens*: they
keep every state change, guard and early return of the code and abstract
outputs, names, messages and wall-clock times to what the properties tell apart.

`PROJECT.json` lists the components, the source lines behind every definition,
the TLC runs, one mutation of the model per property, the hazards of the code
and the theorems. To repeat a run: `tlc -config <cfg> <module>`; to repeat the
proofs: `tlapm <module>` for `CheckerProofs`, `CheckableProofs`,
`DowntimeProofs`, `FilterProofs`, `RuntimeProofs`, `ReplayLogProofs`,
`ClusterProofs` and `IcingaDBProofs`.

## Inventory of the system

| Part | State | Operations | What is hard |
| --- | --- | --- | --- |
| Check scheduler, `lib/checker` | idle and pending sets, the scheduler thread | pick, skip, dispatch, return, object and next-check handlers, stop | several threads, one mutex that does not cover the objects, sleeping on a condition variable |
| Check results, `lib/icinga/checkable-check.cpp` | state, state type, attempt, last hard state, last result | `ProcessCheckResult`, `ExecuteCheck` | late and passive results, soft/hard transitions, what is notified or suppressed |
| Suppressed notifications, `checkable-notification.cpp` | `suppressed_notifications`, `state_before_suppression` | `FireSuppressedNotifications` | state read before a lock and used after it, downtimes and results in between |
| Flapping, `checkable-flapping.cpp` | 20-bit ring buffer, flapping flag | `UpdateFlappingStatus` | weights, hysteresis |
| Acknowledgements and comments, `checkable.cpp`, `comment.cpp` | acknowledgement, expiry, comments | `AcknowledgeProblem`, `ClearAcknowledgement` | expiry evaluated lazily, messages of peers |
| Notifications, `notification.cpp`, `lib/notification` | type and state last sent, next and last time, notified users, stash | `BeginExecuteNotification`, the timer | filters with side effects, reminders, time periods, cold startup |
| Downtimes, `downtime.cpp`, `scheduleddowntime.cpp` | trigger time, start and end, children, cleanup timer | schedule, start, trigger, remove, expire | timers racing with removals, trigger chains without a lock |
| Dependencies, `dependency*.cpp` | dependency groups in a registry, cached states | `IsReachable`, cycle check, add and remove at runtime | groups shared by several children, recursion over a graph that changes |
| Time periods, `timeperiod.cpp` | segments, valid range | update, purge, include and exclude | interval arithmetic, copies of other periods that may be stale |
| Work queue, timers, CPU slots, `lib/base` | task heap, threads, condition variables, semaphore | enqueue, work, join, stop, acquire, release | missed wake-ups, limits |
| Config objects, `lib/base/configobject.cpp` | active, paused | activate, deactivate, `SetAuthority` | callbacks without the lock that guards the flag |
| Cluster: authority, `apilistener-authority.cpp` | connected endpoints, authority of objects | `UpdateObjectAuthority` | nodes decide from different views |
| Cluster: events, `clusterevents*.cpp` | one message per event, zones and endpoints | relay, accept, execute a command | who relays to whom, without loops and duplicates |
| Cluster: replay log, `apilistener.cpp` | log files, log positions, `syncing` | relay, persist, rotate, replay, confirm, clean up | disconnects at any point, positions of two directions, three threads per node |
| Cluster: connections, `jsonrpcconnection.cpp` | clients of an endpoint, outgoing queue | connect, send, disconnect, liveness timeout | duplicate connections |
| Remote checks, `clusterevents-check.cpp` | request queue, slot counter | enqueue, execute | a limit shared with the scheduler |
| Configuration sync, `apilistener-filesync.cpp`, `apilistener-configsync.cpp` | stages, versions, deletions | stage, validate, activate, update, delete | updates and deletions in either order, crash while copying |
| Icinga DB, `lib/icingadb` | queue of pending items, dump | enqueue, merge, process, dump, reconnect | merging of pending changes, changes during the dump |
| Daemon, `lib/cli/daemoncommand.cpp` | umbrella process, workers, signal flags | start, reload, terminate | signals at any moment, two workers during a reload |
| IDO, `lib/db_ido*`; metric writers, `lib/perfdata` | queues to external services | write, reconnect | |
| Configuration compiler, `lib/config`; CLI, `lib/cli`; plugins, `lib/methods` | syntax trees, processes | parse, evaluate, execute | sequential |

How they interact: the scheduler calls `ExecuteCheck`; a plugin process, a
remote node or a user delivers a result to `ProcessCheckResult`, which raises
`OnNotificationsRequested` at once or records it as suppressed; a timer fires
suppressed notifications later. `SendNotifications` passes the request to every
notification object of the checkable, which filters, withholds or sends it; its
own timer sends reminders and what was withheld. Downtimes, reachability,
flapping and time periods decide what is withheld. All of these raise cluster
events, which `ApiListener` relays over connections or keeps in the replay log,
and changes that Icinga DB writes to Redis. Authority (which node runs an
object) pauses and resumes objects underneath. Work queues, timers, CPU slots
and the umbrella process are what everything runs on.

What makes each part correct: the scheduler neither loses nor duplicates an
object and wakes up in time; the hard state follows the results; users end up
knowing the hard state whatever withheld the news; events reach the other nodes
once they are connected; objects, authority and Redis converge once changes end;
no thread waits for what has already happened.

## Modules

| Module | Models | Checked by | Proved in |
| --- | --- | --- | --- |
| `CheckerComponent` | `checkercomponent.cpp`, `ExecuteCheck`, `ExecuteRemoteCheck`, the remote check thread | `checker_schedule`, `checker_live`; `MCSlots`: `checker_slots` | `CheckerProofs` |
| `Checkable` | `ProcessCheckResult`, `FireSuppressedNotifications`, acknowledgements | `MCObjects`: `objects`; `checkable_race` | `CheckableProofs` |
| `Downtime` | `downtime.cpp`, `checkable-downtime.cpp`, the actions that schedule and remove | `MCDowntime` in `MCObjects`: `objects` | `DowntimeProofs` |
| `Notification` | `SendNotifications`, `BeginExecuteNotification`, the notification timer | `MCNotification` in `MCFilters`: `notification`, `notification_neutralized` | `FilterProofs` |
| `Dependency` | `dependency*.cpp`, `checkable-dependency.cpp`: the groups | `MCFilters`: `notification` | `FilterProofs` |
| `Reachability` | `IsReachable` and the states of the groups | `MCFilters`: `notification` | |
| `Flapping` | `checkable-flapping.cpp` | `MCFilters`: `notification` | `FilterProofs` |
| `TimePeriod` | `timeperiod.cpp`, the update function of `legacytimeperiod.cpp` | `MCFilters`: `notification` | `FilterProofs` |
| `WorkQueue`, `TaskPool` | `workqueue.cpp`, and what its users rely on | `MCRuntime`: `runtime` | `RuntimeProofs` |
| `CpuBoundWork` | the slots and the condition variable of `io-engine.cpp` | `MCRuntime`: `runtime` | `RuntimeProofs` |
| `Timer` | `timer.cpp` | `MCRuntime`: `runtime` | `RuntimeProofs` |
| `Daemon` | the umbrella process and its workers, the lock of config objects | `MCRuntime`: `runtime` | `RuntimeProofs` |
| `ReplayLog` | relay, log, replay, confirmations between two endpoints | `replay_log`, `replay_log_both` | `ReplayLogProofs` |
| `ClusterEvents` | `clusterevents.cpp`, relaying between zones, execute-command | `MCSystem`: `system` | |
| `ConfigSync` | `apilistener-configsync.cpp`, `configobjectutility.cpp`, the API handlers | `MCSystem`: `system`; `config_sync` | `ClusterProofs` |
| `ObjectAuthority` | `apilistener-authority.cpp` | `MCSystem`: `system` | `ClusterProofs` |
| `FileSync` | `apilistener-filesync.cpp`, the reload that follows | `MCSystem`: `system` | `ClusterProofs` |
| `IcingaDB` | `icingadb-worker.cpp`, the handlers and the dump of `icingadb-objects.cpp` | `MCSystem`: `system` | `IcingaDBProofs` |

Parts that share no state are checked in one run: a variable `part`, chosen by
the initial state, says which one runs while the variables of the others keep
their initial values. Such a run is the sum of the behaviours of its parts, not
their product. `MCFilters` has two notification objects, the second by `INSTANCE` with
constants and variables of its own. `WorkQueue` is shown to implement `TaskPool`
with a refinement mapping.

The parts of a sum are connected by what they promise one another. `Checkable`
takes flapping, downtime and reachability as flags that change at any time,
`Notification` takes a hard state that changes and is reported at once or later
and periods that open and close at any time, `Downtime` takes a result that is
not OK. So what is shown of `Checkable` and `Notification` holds for whatever
`Flapping`, `Downtime`, `Reachability` and `TimePeriod` do to their flags.

Most modules state a type invariant; those of `CheckerComponent`, `Checkable`,
`Notification` and `ReplayLog` are theorems of their own, the others part of the
invariants that are proved. Operators whose comment says "Mutation of X" are
variants of X with a plausible mistake. No specification uses them; they exist to
show that each property notices a mistake.

Variables called history or ghost influence no action. Many record *excuses*:
situations in which the code really breaks the rule a property states. The
property then says that nothing else breaks it, and the section on the module
names the situations.

### The check scheduler: `CheckerComponent`

`m_IdleCheckables` is the pair `idle`, `idleAt` (the objects, and the sort key
each was inserted with), `m_PendingCheckables` is `pending`. The scheduler
thread, the queued `ExecuteCheckHelper` callbacks, the plugin processes, the
remote check thread, API threads, authority changes and `Stop()` are separate
processes; a step is one critical section of `m_Mutex` or the code between two.
A setter of `next_check` and its `OnNextCheckChanged` handler are two steps, so
is a change of `paused` and its handler. Times are relative to now; `Tick` stops
while an idle check is overdue by `MaxOverdue`, which bounds how far the
scheduler may lag.

A check of this node is not the only source of results. `PassiveResult` is one of
a user and needs `enable_passive_checks`; `PeerResult` and `PeerNextCheck` are
`event::CheckResult` and `event::SetNextCheck` of the other endpoint of an HA zone
(`PeerChecked`), which need nothing of the kind; `EndpointResult` is the answer of
a command endpoint. All of them clear `m_CheckRunning`; the history variable
`disowned` has the helpers whose mark was cleared before their check was over. An
object in `EndpointChecks` goes through the branches of `ExecuteCheck` for a command
endpoint: the check is sent (`HelperRemote`), the endpoint is not connected
(`HelperUnconnected`), or it is not for more than five minutes after the start and
an UNKNOWN result is processed (`HelperComplain`). Before that its macros are
resolved by `Execute`, which may fail (`HelperMacroError`): the handler of the
finished process is then called, processes a result and decreases the counter of
pending checks, which was not increased. `leaked` counts these, up to `MaxLeaks`.

* `checker_schedule`: two checkables, one of them checked by another endpoint,
  are paused, resumed, removed and rescheduled while they are checked; objects get
  their authority once all are activated (`ActivationFirst`). No object
  is lost or doubled (`Responsibility`), the sort key is fresh up to a handler on
  its way (`IndexFresh`), and the scheduler never sleeps past a due check
  (`NoMissedWakeup`).
* `checker_slots`: processes outlive their callback; two helpers compete for one
  object, or a helper, remote checks and failing executions for two slots
  (state constraints of `MCSlots`: states with both, with a removed object that has
  a command endpoint, or with a forced check have no successors; helpers are
  interchangeable). `m_CheckRunning` keeps a second process
  of the object away, unless a result that is not of its check has cleared the mark
  of one of the two (`NoOverlap`); the counter of pending checks is exact but for
  the leaks (`SlotAccounting`); and at most one check more than the limit runs, and
  one for each leak (`ConcurrencyBound`). The proofs have no state constraint.
* `checker_live`: under fairness `Stop()` returns (`StopReturns`), nothing is
  processed afterwards (`QuietAfterStop`), and a forced check is dispatched
  (`ForcedCheckRuns`).

One helper callback suffices for the runs without processes because an object
has one callback at a time; the run about processes has two so that two may
overlap. Two checkables are needed for the order of the idle set.

### The state of a checkable: `Checkable`

`ProcessCheckResult` is one action because it holds the `ObjectLock`; its pieces
(`NewStateType`, `NewAttempt`, `NewAcknowledgement`, `Withheld`, ...) are
operators on the state before the result. `FireSuppressedNotifications` takes
the lock only at its end and is two actions. Downtimes, reachability and flapping
are inputs. History variables: `told`, the state the last request reported;
`lost`, the reasons that excuse a lost notification; `streak`, `everOK`.

* `objects`: a service with soft states, three attempts, flapping and a peer. When
  nothing waits the users were told the hard state (`NothingLost`), are told
  nothing twice (`OnlyNews`), and a problem is hard only after enough results
  (`HardAfterRechecks`). Hosts and volatile objects are covered by the theorems.
* `checkable_race` (finding): between the two halves of
  `FireSuppressedNotifications` a result sees the pending types, withholds its
  own notification, and the subtraction clears it unsent.

The model is finite without bounds except for the `streak` history, which counts
up to `MaxCheckAttempts`. Three attempts are the first value with a soft state
that is neither the first nor the last.

### Downtimes: `Downtime`

`TriggerDowntime` has no lock around its test and its assignment, so a thread in
it is a stack of calls, one step per setter, timer change and signal. Check
results, the start timer, requests that schedule a downtime with those of its
children, removals, the one-shot cleanup timer and changes of authority
interleave with it. Time is a clock that starts at 1 and ends at `MaxNow`; 0 is
the trigger time of a downtime that was not triggered. In `objects` a host and its
child have a flexible and a fixed window, and two names are reused.

* `CleanupComes`: an expired downtime has its cleanup timer set to the right time.
* `EndFollowsStart`: nobody hears of an end without the start.
* `ChildrenFollow`: a downtime in effect takes along what it triggers.

Excuses: `Timer::Reschedule` is lost while the callback of the timer runs, so a
downtime triggered at that moment is never removed (`overrun`); a fixed downtime
that a result triggers between its start and the next run of the 5-second start
timer is never announced as started (`unannounced`); a child that is linked after
its parent was triggered stays behind (`late`), although
`doc/12-icinga2-api.md:1446` speaks of "child downtimes triggered by this
downtime". Two threads may both pass `CanBeTriggered`, and then the
start is announced twice. The removal of a downtime's children is one step.
Not modelled: restarts (`triggers` is not synchronised to peers), the peer of an
HA pair, scheduled downtimes and the orphan timer.

### A notification object: `Notification`

The service is what `Checkable` promises: it changes its hard state and reports
the change at once or, if held back, later. The record `n` is the notification
object. `NotificationTimerHandler` is one action (the handler holds the
checkable's lock): stashed requests, withheld ones, reminders. Time is reduced
to whether `times.begin` and `times.end` are reached, whether the next reminder
is due and whether a period is open. `n.lost` records the reasons that excuse a
missing notification: neutralization outside the period, a stashed request
executed in another state, and a withheld one fired before a later change was
reported.

* `notification`, part "periods": a period, `times.begin`, reminders, the cold
  startup stash and all reasons that hold the service back, for a user without
  filters and one who only wants critical problems. Once nothing is on its way the
  users know the state (`UsersKnow`, `RecoveryFollows`), and a state that lasts
  reaches them (`EventuallyKnow`).
* part "filters": state filters, `times.end`, a user period and flapping, no
  reminders: nobody is told the same problem twice in a row (`NoRepeat`).
* `notification_neutralized` (finding): a problem and a recovery withheld outside
  the period neutralize each other although an earlier problem was sent.

The stash holds two requests, enough for one that contradicts the one before.

### Dependencies: `Dependency`, `Reachability`

A dependency group is its name and the composite keys of its members, which is
how the registry compares groups. Creating a dependency searches for cycles,
then registers: its child's dependencies leave one group and enter another under
the child's mutex, with the registry's mutex taken for each of the two steps.
`DependencyStateChecker` evaluates in one step; its cache and the value it
assumes for what is being evaluated are explicit, and the recursion is over the
graph of the moment (`RECURSIVE`, so this module is for TLC only).

In the run a host behind two routers and a service of it have four dependencies,
one of which shares a group with another and one of which would close a cycle;
two requests change them at a time.

* `GroupsMatch`: the registry and the objects agree on who is in which group.
* `ReachabilityRight`: the evaluation returns what the dependencies, read
  directly, say.

Excuse: nothing serialises the search for cycles with the registration, so two
requests may close a cycle together (`raced`). Not modelled: an evaluation that
holds a group which its object leaves finds no dependencies in it;
`RemoveDependency` ignores pending ones; beyond 256 levels a cached answer
depends on the path that was taken.

### Flapping: `Flapping`

The ring buffer, the index and both thresholds; a history variable is the window
of the last changes. `FlappingFollows` says that the flag is what the weighted
window and the flag before imply. The number of bits is a parameter, 8 in the
run instead of 20, and the weights are integers, not doubles: rounding at a
threshold is not modelled. A result whose state is ignored enters the window as
no change, as in the code.

### Time periods: `TimePeriod`

`AddSegment`, `RemoveSegment`, `PurgeSegments`, `Merge`, `UpdateRegion`, the
timer, the start of the periods and a restart (segments and the valid region are
state attributes). Days have four units, weeks two days; the initial state
chooses the ranges. `InsideRight` compares `IsInside` with the configuration for
a period that includes one and excludes another, over three days.

Excuses: `RemoveSegment` (152-158) keeps a segment whole if the removed range
shares its begin or end, so a range like the 00:00-09:00 of
`doc/08-advanced-topics.md` ("weekends-excluded") is not excluded from a segment
that begins at midnight; and periods that are not started or not updated when
they are merged are missed until the next update that is not trivial, up to a
day later. Every update adds whole days again, so segments that were cut come
twice until they are purged, without harm. `FindNextTransition` is not modelled.

Not modelled either (`TimePeriodAssumption`): a range that goes past midnight, such
as the 22:00-06:00 of `doc/08-advanced-topics.md`. `ScriptFunc` (582-606) begins with
the day of the region's begin, so after a start at 03:00 the rest of such a range
of the day before is missing.

### Work queue: `WorkQueue`, `TaskPool`

One mutex and the condition variables `m_CVEmpty`, `m_CVFull` and `m_CVStarved`.
Everything between taking the mutex and waiting or releasing it is one action. A
thread is asleep, awake (notified) or busy; spurious wake-ups change nothing.
`TaskPool` is the promise: a bag of tasks, each started once, most urgent and
oldest first, all of them finished in the end.

In `runtime` two producers and two workers share a queue with a limit of one;
a task enqueues two others, one of them `allowInterleaved`, and one throws.

* `ImplementsTaskPool`: the refinement, its fairness included.
* `NoLostWakeup`: nobody sleeps although what they wait for has happened.
* `JoinWaits`: when `Join` returns, what was there when it was called is done.

### CPU slots, timers, daemon

`CpuBoundWork` has the atomic counter, the list of subscribers and the posted
wake-ups. Three coroutines and two slots are the least with one waiting while
two finish. `NoForgottenWaiter`: no coroutine is subscribed while a slot is free
unless somebody is about to take the subscriptions, and slots add up.

`Timer` has the thread, `Start`, `Stop` with and without waiting, `SetInterval`,
`Reschedule`, callbacks in pool threads and `AdjustTimers` after the clock was set;
the start and the end of the thread with the first and the last timer, and the early
return of `Stop` while it ends (`timer.cpp:181`), are left out. `NoOversleep`: the
thread never sleeps past a timer. `StopIsFinal`: nothing runs after `Stop(true)` has
returned. `TimerStopReturns`: it returns, which depends on other timers, because the
callback of a stopped timer notifies nobody.

`Daemon` has the umbrella process, the workers, the signals between them and the
lock that API requests share with a reload. `Handover`: at most one worker
works, and it knows every object the API has created. `SignalsAreObeyed`: what
is asked by a signal happens. Excuses: a termination that was forwarded just
before a reload replaces the worker is forgotten (`Forgotten`), and a worker that
crashes with the shared lock blocks the umbrella (`Abandoned`). A second
SIGTERM ends the umbrella and leaves the worker alone. Cluster updates of objects
do not take the shared lock; re-opening log files is left out.

### The replay log: `ReplayLog`

Two endpoints of a zone; per node the relay thread (`Relay`, `PersistMessage`,
`RelayForeign`), the `SyncClient` callback with the passes of `ReplayLog`
(`SyncClient`, `ReplayBegin`, `ReplayFile`, `ReplayAgain`, `ReplayEnd`), the
message handler and the timer. Deciding that an event must be logged and logging
it are two steps, and the last pass holds `m_LogLock`, so `PersistMessage` waits.
The clock counts events; the name of a rotated file is the time of its last
message plus one, as in the code. `todo` is the set of files a pass still has to
read, taken in the order of their names. `Others` stands for endpoints of other zones
that may be down, which makes a node log events it also sends.

`dropped` and `misplaced` record the events the code gives up:

* an event relayed while the endpoint is syncing is neither sent
  (`apilistener.cpp:1237`) nor, if nobody else is disconnected, logged (1326);
* an event sent live between `AddClient` (907) and `SetSyncing` (941) overtakes
  the log, whose older events the receiver ignores (`jsonrpcconnection.cpp:340`);
* an event whose logging (1435) comes after the last pass of a replay, or while a
  replay runs that began with a later position: `log::SetLogPosition` and
  `RelayMessageOne` (1396) may set one that is ahead of the events still to be
  logged, and the pass skips what is not newer (1599);
* a file rotated during a pass without the lock (1556): if the pass then sends a
  newer event of `log/current`, `peer_ts` skips the file for good (1599, 1626);
* a position that the peer did not confirm (1396 and 1628-1640).

Every other event is accounted for:

* `replay_log`: whatever the order of breaks, replays, rotations, confirmations
  and removals, such an event was handled, is on its way or is logged behind the
  confirmed position (`Accounted`), and if the connection lasts it arrives
  (`EventuallyInSync`). Three events, two connections and files of two messages
  are the smallest numbers with a rotation during a replay and a second replay.
* `replay_log_both` (finding): both nodes have logged. The first replay moves the
  other node's position past its own log, which is never replayed; the property
  (`SameHistory`) is what the documentation says of the replay log.

Left out: a new connection before the old callback has ended, an event of the
peer that is logged when it is relayed in turn, `log_duration`, access checks,
more than two endpoints, restarts.

### Events in the cluster: `ClusterEvents`

Every pair of a `*Handler` and its `*APIHandler` is a policy: for which object the
event is relayed, who may send it, and when the receiver has no use for it.
`RelayMessageOne` is modelled on a tree of zones, here two masters, two
satellites and an agent, with any subset of the connections. An event is
followed until all its messages are handled. `ReachesItsAudience`: no node gets
it twice, nobody gets it who must not, and whoever misses it is owed it by a
replay log. `execute-command` has its four messages. A node that has to pass a
command on to a zone with an endpoint that lacks the capability, as far as it has
been told by a Hello, does not: the API action marks the execution as done
(`ExecuteCommandFails`), a node on the way answers with an error
(`ExecuteCommand`). Both masters may do so for one request, and the command may get
through elsewhere; the ghost `unable` has the nodes that did, and of the answers
and the updates that follow a node may accept one for each of them more than one.
Other messages are accepted once at most. `Requests` has executions from one and two
levels above their target, from the target itself, and from below it.

Seen on the way, and not excluded by the property: in a zone of three endpoints
the last one decides whether a message is logged (1320, needs a larger zone than
the run has); a slow "pending" update of an execution may overwrite "done"; the
result of an agent that reaches a node without authority is discarded by its
partner; a command for an endpoint above is accepted and never executed;
acknowledgements set on two nodes at once leave them different.

### Runtime objects: `ConfigSync`

One object, created, modified and deleted by requests on either node and by the
updates and deletions they send each other. Requests and updates look at the
clock or at the deletion before they get the lock of the name; what is under the
lock is one step. A connection starts with all objects, deletions are replayed.

* `Converges`: what one node has the other has in the same version, or has
  deleted. `DeletedStaysDeleted`: a deletion is not undone by older updates. The
  excuses are updates that come up while `SyncClient` runs (`missed`) and a
  request that decided before it had the lock (`raced`): a creation may survive
  a deletion that got the lock first, and a deletion that looked up an object
  which was re-created meanwhile removes the new one silently.
* `config_sync` (finding): an object that is new to a node takes over the version
  of an update, but not the modified attributes that come with it.

The bounds (three clock values, two requests, one break) admit a creation, a
modification and a deletion on different sides of a break. `LogDuration` is not 0,
since `ReplayLog` returns early then (`apilistener.cpp:1519`) and deletions are not
replayed. Left out: an update or deletion that is relayed moves the position of the
endpoint it came from (1396), which `ReplayLog` has; and restoring an attribute that
was not modified does nothing, whereas the code empties it and raises the version
once another attribute has an original value (`configobject.cpp:227-323`), which
for the versions is one more modification.

### Configuration files: `FileSync`

One global zone with two files, on a master, a satellite and an agent. `production`
is `api/zones` of a node, with its `.timestamp`; a directory may exist without
it. Each connection begins with a `config::Update` made from the production directory of the
node above as it is at that moment. A detached thread handles an update behind
`m_ConfigSyncStageLock` (`handler`); the purge of the production directory and the
copy of each file are steps of their own, `.timestamp` being the first. A
restart goes through `m_RequestRestart`, SIGHUP to the umbrella process, a new
worker that loads the files, and the end of the old one with all its threads.

`FilesInSync`: once all nodes are connected and nothing is on its way, a node has
the files of the one above and has loaded them. Excuses: the last validation or
copy failed (`failed`, which the API shows); threads of two updates got the lock
in the wrong order (`outdated`), or did so above, and the node above went back to
an older version than this one has; the purge or the copy was cut off and left
`.timestamp` (`Torn`): `HandleConfigUpdate` looks at the checksums only if the
received timestamp is newer, so the same update does not heal the directory; the
node above is in that state or has no directory; and files were changed without a
request to restart (`forgotten`). That happens when the old worker ends with the
request or in the middle of the purge or the copy, and when a file cannot be
written: if the next update has exactly the files that are there, it is no change
(`apilistener-filesync.cpp:539`), and the process goes on with the files it had
loaded before, until the next reload.

`MaxEvents` is two: two deployments of which the second replaces, removes or adds
a file, or one with a crash, a broken connection, a write error or a reload by
hand. Reading a directory that is being purged and a file that is cut off within
are not modelled, nor are parents before 2.11, whose updates have no checksums
(`apilistener-filesync.cpp:440-468`), and an exception of the purge (612).
`SyncLocalZoneDir` returns early when `zones.d` has no files
left, so the last ones stay in production everywhere; the model follows the code.

### Authority: `ObjectAuthority`

Each call of `UpdateObjectAuthority` reads the connected endpoints and sets the
authority later, and calls overlap. Nodes stop, start and change between
this release and its predecessor, which hashes names differently (external:
`NameHash`). `OneRuns`: once connections, versions and calls are settled, exactly
one member of every connected set runs the object. A break of a connection calls
nothing; the timer heals it.

### Icinga DB: `IcingaDB`

The pending items in their order, their merging, the worker, the dump after a
connect and one host that is deleted and re-created, with a group and a
dependency on a parent that stays. Nothing keeps the objects still while they are
read. The dump lists the objects (`DumpList`), reads them one by one in any order
(`DumpReadParent`, `DumpReadHost`) and writes at the end; the worker takes an item
(`WorkerTake`), reads the objects (`WorkerRead`) and sends its queries
(`WorkerSend`). Both give the dependency group its identifier only after they have
read the dependency (`DumpReadEnd`, `WorkerSerialize`). Handlers run between any two
of these steps. The dump and the worker never run at the same time, because the
worker waits for the end of the first complete dump and there is no second.

`RedisInSync`: once nothing is pending, Redis has what the objects say. Excuses:

* an update merged into an older item while the deletion of the same entry is
  pending behind it, as when a group is left and joined again within 300 ms
  (`overtaken`);
* a registration cancelled while the identifier is empty. The code takes the
  dependency for one that "was never serialized to Redis in the first place"
  (`icingadb-worker.cpp:352`) and deletes nothing, but the node of the parent may be
  in Redis or read, and the worker or the dump may have read the edge already and be
  about to set the identifier (`NotDeleted`, kept in `leftover` until something
  deletes it or a new dump begins);
* a change while disconnected that no dump makes up for (`unsent`);
* a check result processed, or an object read by the dump, while the host is deleted
  (`late`).

Two creations of the host, one group and one break are the least with each of these,
and four changes admit a dependency that is removed and created again. In `system`
either the host is created twice or, once the host is there, the dependency
(`OneIsRecreated`); the proof has no such restriction. Left out: redundancy groups
and dependency groups that keep other children (`removeGroup` false), services, the
minimum age of items, runtime updates and the history.

## Fairness

Threads run, plugins end (they are killed at their timeout), timers fire,
messages arrive while the connection is up, and time passes: weak fairness of
the actions of these processes. Nothing forces users, peers, results, a shutdown
or a connection to happen. `Disconnect` is fair because a broken connection is
noticed by the liveness timer at the latest. In `runtime` the worker threads,
awakened producers, coroutines, the timer thread, its callbacks, the clock, the
umbrella and the workers are fair; who enqueues tasks, asks for slots, stops
timers or sends signals is not; the fairness of a part asks nothing of a
behaviour in which another part runs. In `notification` fairness is that of the
notification object with periods only.

## What is proved

For every value of the constants that their assumptions admit, by induction;
`IInv` (in `ClusterProofs` `SyncInv`, `FilesInv`, and `AuthorityTypes` with
`HelloTells`; in `IcingaDBProofs` `DBInv`; in
`RuntimeProofs` `QueueInv`, `SlotInv`, `TimerInv` and `DaemonInv`; in
`FilterProofs` also `FlappingInv`, `NotificationInv` and `TimePeriodInv`) is the inductive
invariant of a proof. The assumptions say that intervals, limits
and numbers of attempts are numbers in the ranges the configuration accepts, and
that helpers and members of a zone are finitely many.

`CheckerProofs` (from `CheckerAssumption`):

* `TypeCorrect`, and `SchedulesItsOwn` (`Responsibility`, `IdleOrPending`).
* `IndexIsSorted` (`IndexFresh`) and `WakesUp` (`NoMissedWakeup`). The second
  needs the first, because the time to sleep is taken from the index and not from
  the object.
* `OneProcessPerObject` (`NoOverlap`), with results of users, peers and endpoints at
  any time. A process in flight says nothing about the flag; `Ownership` adds that
  from the guard to the processed result `m_CheckRunning` is set and has one owner
  among the helpers that are not disowned, `NotStarted` that a callback has no
  process before the guard. Pausing and resuming never make two processes overlap by
  themselves.
* `SlotsAddUp` (`SlotAccounting`) and `LimitHolds` (`ConcurrencyBound`). The
  limit is tested before a check is counted, so the bound is on more than the
  counter: `SlotsClaimed` counts, up to the leaks, the running checks, the callbacks that are on
  their way, the remote check thread that has tested the limit and the scheduler
  that is about to dispatch, and says that together they are at most one above it.
* `StopIsQuiet` (`QuietAfterStop`) from `StopOrder`: the wait group was joined
  before the thread.

`CheckableProofs` (from `CheckableAssumption`): `TypeCorrect`,
`NobodyIsLeftBehind` (`NothingLost`), `ServicesHearNews` (`OnlyNews`, for a
service that is not volatile), `HardStateFollows` (`HardStateRecorded`),
`HardNeedsAttempts` (`HardAfterRechecks`) and `AcknowledgementsEnd`
(`AckOnlyForProblems`, without peers). The core is `Known`: the users know the
hard state if nothing waits or what waited was just reported, and the state
before the suppression otherwise. It needs that the two state types are
subtracted together (`FiringWhole`) and that a soft state is a problem
(`SoftIsProblem`); the attempt count needs `AttemptsCounted`.

`DowntimeProofs` (from `DowntimeAssumption`), for any number of threads where the
run has one that calls `TriggerDowntime`:

* `StartIsHeard` (`EndFollowsStart`): the start of a triggered downtime was
  announced, recorded as never announced, or is about to be by a call under way
  (`Heard`).
* `ExpiredIsRemoved` (`CleanupComes`), with `CallbackInTime`: a cleanup callback
  that runs finds its downtime expired, or whoever sets the timer meanwhile is
  about to be recorded as overrun.
* `ChildrenAreTaken` (`ChildrenFollow`): what a triggered downtime triggers is
  triggered, past its window, removed, or still to be reached by a call on the
  stack of a thread (`TakenAlong`); a stack is seen as the set of its frames.

`FilterProofs`, on what decides whether and when users are told:

* `GroupsAgree` (`GroupsMatch`, from `DependencyAssumption`), for any dependencies
  and any number of concurrent changes. The invariant speaks of pairs of a child
  and a key: a pair in change holds its dependencies outside of the groups
  (`ChangesOK`), of every other pair the group follows from the dependencies alone
  (`GroupsOK`), and the registry has these groups and no others (`RegistryOK`).
  That two keys of a child never lead to the same group needs that the name of a
  redundancy group is no object: the key is a variant of a pointer and a string
  (`checkable-dependency.cpp:52`).
* `FlapsAsDocumented` (`FlappingFollows`, from `FlappingAssumption`), for any length
  of the ring buffer and any thresholds with the low one not above the high one;
  otherwise an object between the two would start and stop flapping with every
  result. `RingOK`: read from the index on, around the end, the buffer is the
  window of the last results. The total of a window is a recursive function; that
  it is a number at all is an induction over the window.
* `UsersAreTold` (`UsersKnow`), `RecoveryIsTold` (`RecoveryFollows`) and
  `NothingTwice` (every step is a `TellsNews`, which is what `NoRepeat` asks of the
  second object), from `NotificationAssumption`, for any users, states, filters of
  users, holds and lengths of the stash. `Told` and `Recovered` say of the state
  reported last that it is known or that its notification is delayed or withheld;
  they need that the last stashed request is about that state (`LastStashed`), that
  whoever was told of a problem is still among the notified (`ToldIsNotified`) and
  that opposite types are never withheld together. `NothingTwice` needs the
  converse of what the code remembers: what was told is remembered (`Known`), and
  before the stash is worked off nobody was told anything (`Untold`). The stash is
  executed by a recursive function; what holds after it is shown for each prefix.
* Their hypotheses are the situations of the run, and necessary. `UsersAreTold`
  (`Unfiltered`) has no filters in the notification object, no `times.end` and no
  flapping: after the end a problem is dropped for good, and when the state
  changes while notifications are held back and then returns, nothing is reported.
  `RecoveryIsTold` has no flapping, since changes while flapping are not reported.
  `NothingTwice` (`Forgets`) has no period, since a recovery withheld outside of it
  forgets the states without telling anyone, and lets the ends of problems through.
* `InsideIsRight` (`InsideRight`, from `TimePeriodAssumption`), for any time periods,
  ranges, lengths of days and of what is kept behind, and any starts and restarts.
  Segments are seen as the times they cover (`Covers`): `AddSegment` is a union
  (`AddIsUnion`), `RemoveSegment` a difference but for shared ends
  (`RemoveIsDifference`), `ScriptFunc` the own ranges of all days of the region
  (`ScriptFacts`). `TimePeriodInv` looks ahead: from now to the end of the valid
  region a period has what it should (`AsMeant`); what it has of its own and does
  not exclude is there (`KeepsOwn`) and nothing foreign is (`OnlyOwn`), which is what
  others rely on when they merge it; and no segment ends after the last day of the
  region (`Bounded`), since `Start` clears the segments but not the valid region and
  only fills it up to that day. The hypothesis `Flat`: included and excluded periods
  have no includes and excludes of their own; for others the configuration does not
  say what is meant, since it depends on the order of the updates.

`RuntimeProofs` (from the assumptions of `WorkQueue`, `CpuBoundWork`, `Timer` and
`Daemon`):

* `NobodySleepsThroughIt` (`NoLostWakeup`), `JoinIsComplete` (`JoinWaits`) of
  `WorkQueue`, and `QueueImplementsPool`: the initial state is one of `TaskPool` and
  every step is a step of `TaskPool` or leaves its variables alone. The invariant
  says that each task is in one place (`EachOnce`), that what is queued is there to
  be taken (`ItemsKept`), that children are enqueued by their parent only
  (`ChildrenEnqueued`) and that the counters match (`Counted`).
* `NobodyIsForgotten` (`NoForgottenWaiter`), for any number of coroutines and
  slots.
* `StoppedStaysStopped` (`StopIsFinal`) and `ThreadIsInTime` (`NoOversleep`).
  `RegistrationOK` says which phases a timer can be in while it is registered,
  running or stopped; `TimesOK` bounds every time by `Latest`, the furthest a
  timer can be set when the clock jumps `MaxSet` times by up to `MaxJump`.
* `WorkersHandOver` (`Handover`). Workers are forked in order (`ForkedInOrder`),
  only the last but one or the last works (`OnlyCurrentWorks`, `StartingOK`), the
  lock is held by who the API or the umbrella says (`LockHeld`), and what was
  created is on disk before a worker that could miss it reads the disk
  (`ObjectsKnown`).

`ReplayLogProofs` (from the assumption of `ReplayLog`): `TypeCorrect` and
`EventsAccounted` (`Accounted`), for any number of events, connections, files and
passes, in both directions at once. `AccountedFor` is stronger than `Accounted`: an
event that is logged is behind the position even while it is on its way, or a break
would lose it. The position the peer confirms is the time of the last event it
handled, so it must speak for all older events: they are on the way in order and
without gaps (`InOrder`), and what the peer remembers or confirms it knows
completely (`ConfirmedOK`). A replay keeps the order because the files are ordered
by their names (`LogOrdered`), an event waiting for the log is the newest
(`RelayOK`), and a pass has sent, or still has before it, whatever is logged
(`PassOK`). The proof attempt showed the excuse of the position ahead of the events to be
logged, which the run with one sending node does not reach.

`ClusterProofs` (from `ConfigAssumption`, `AuthorityAssumption` and
`FileSyncAssumption`):

* `NothingComesBack` (`DeletedStaysDeleted`) and `NodesConverge` (`Converges`) of
  `ConfigSync`. The invariant has two halves: what a node has announced to the
  other it has or has deleted (`AnnouncedIsKnown`), and what a node has is known
  to the other, on its way, cut off by a break, about to be synced, or recorded
  as missed (`ExistsIsAnnounced`). `Unconfirmed` keeps the part of the log that a
  replay sends: the prefix up to the confirmed position is skipped.
* `OneMemberRuns` (`OneRuns`, for zones of any finite size whose connections are
  transitive, `Meshed`) and `OneOfTwoRuns` (two members, without that
  condition). The position of a member among the sorted names of a connected set
  takes every value below its size once, so exactly one member finds the hash at
  its own. Without `Meshed` the sets of two members overlap and differ; the code
  warns of zones with more than two endpoints (`zone.cpp:150`).
* `FilesArrive` (`FilesInSync`) of `FileSync`, for
  any number of levels, files, deployments and faults. A directory holds nothing
  but what was published with its timestamp (`AuthenticHere`), while it is copied
  the stage without the rest (`CopyOK`), and it can be loaded unless it was cut off
  (`LoadableOK`). The rest is a chain along the levels: the last update of a
  connection is what the node above has, or that node is about to end the
  connection (`SentOK`); what the update has led to is in production, under way or
  recorded as failed (`ReceivedOK`); and what is in production is loaded or a
  restart is due (`LoadedOK`). The proof showed two excuses that `system` with two
  events does not reach, a cut off copy that equals the next update and a node
  above that went back to an older version; TLC confirmed both with more events.

`IcingaDBProofs` (from `IcingaDBAssumption`: finitely many groups, none of them
mistaken for another relation of the host): `RedisFollows` (`RedisInSync`), for any
number of creations of the host and of the dependency, any groups, changes and
broken connections. The invariant `DBInv` looks ahead to what the pending items will
make of what Redis has or a dump is going to write (`Base`): whatever should not be
there one of them deletes (`Sound`), whatever should be there is not deleted any more
or is written by an item that no deletion follows (`Complete`, `Kept`), and whatever
is outdated is written again (`Fresh`). What an item does depends on the objects at
the time it is processed, so each handler has to show that the items enqueued before
it still do what is needed. That takes the order of the queue: items about hosts that
are gone delete and are in front of that of the host there is (`OfTheirTime`,
`HostLast`). `Extends` says what enqueueing any number of items does to the queue:
the items keep their places, and an update and a deletion of the same object cancel
each other. `Rest` says what cancelling a registration leaves of it. What the
worker has taken counts as the first of the items, as queries once it has read the
objects (`TakenD`, `TakenW`): these write what was there at that time, so a handler
that runs in between must have enqueued the deletion behind them. A dump under way
counts for the objects it has still to read (`ToRead`, `Present`). `Earlier` is why
a cancelled registration needs no deletion of the edge: if the dependency group has
no identifier yet, an edge in Redis is of an earlier group and its deletion is
pending, and an edge of this group has been read only by whoever is about to set the
identifier. That does not hold for the latter edge and for the node of the parent,
which are the excuse `leftover`.

Only model-checked: everything about liveness (`StopReturns`, `ForcedCheckRuns`,
`EventuallyKnow`, `EventuallyInSync`, `TimerStopReturns`, `SignalsAreObeyed`, the
fairness of `TaskPool`), since fairness is out of the prover's reach;
`ReachabilityRight`, because `Reachability` recurses over the graph with `RECURSIVE`
operators; and `ReachesItsAudience` of `ClusterEvents`, which depends on the
tree of zones that the run gives.

## Where code and documentation differ

The four runs that expect a violation are described above. While modelling,
these were seen too, besides the excuses of the modules; the models follow the
code:

* `checkable-check.cpp:582` "don't run another check if there is one pending": any
  result clears `m_CheckRunning` (109) while a process still runs, a passive one as
  well as one that the HA peer sends (`clusterevents.cpp:179-182`), hence `NoOverlap`
  excepts processes that have lost their mark that way.
* `checkercomponent.cpp:123` tests the limit of concurrent checks and the check is
  counted later, hence `ConcurrencyBound` is the limit plus one.
* `pluginchecktask.cpp:60` does not count an execution that only resolves the macros
  for a command endpoint, but if that fails (`pluginutility.cpp:27-46`) the handler
  takes it off the counter (69-70). The counter never recovers: each failure
  raises the number of checks that may run at once by one for good.
* `icingadb-worker.cpp:352` "was never serialized to Redis in the first place": see
  `leftover` of `IcingaDB`.
* An object that was never OK is hard one result early, because the initial
  UNKNOWN counts as a problem (`checkable-check.cpp:241`).
* For hosts `checkable-notification.cpp:206` compares plugin states, so a
  withheld notification may repeat a host state (`OnlyNews` is proved for
  services).
* `notification.cpp:480` may take a problem that was stashed in the cold startup
  for a duplicate.

## Not modelled

The implementation has about 111,000 lines; the models stand for about a tenth
of them. Most of the rest has no control worth a model: third-party code, class
and parser generators, SQL schemas, attribute tables of Livestatus, IDO and
Icinga DB, formatting, the CLI and the wizard commands, operating system wrappers.

* Configuration language: a sequential compiler and interpreter.
* Plugins, macros, metric writers, IDO, Livestatus, the compat log: sequential or
  output to external services. External commands and HTTP requests appear as the
  operations they call.
* Configuration packages: stages of one node, written by one request at a time.
* Event streams, scheduled downtimes and comments: see the plan.
* Known hazards without a property: rotation in the same second
  (`apilistener.cpp:1481`), a log cut off by a crash (1446), the `Defer` of an old
  connection that resets `syncing` of a new one (1516), the minimum age of Icinga
  DB items (`icingadb-worker.cpp:55`), a request that overtakes the stash
  (`notificationcomponent.cpp:180`), the liveness timer of connections
  (`jsonrpcconnection.cpp:458`) and flapping notifications that cancel each other
  across downtimes (`checkable-check.cpp:487`).

## Plan

1. Proofs: `ReachesItsAudience` of `ClusterEvents` for any tree of zones.
2. `EventStream`: the queues of `eventqueue.cpp`, of the kind of `CpuBoundWork`.
3. Scheduled downtimes on top of `Downtime`, and restarts of it.
4. A zone of three endpoints in `ClusterEvents`, duplicate connections and the
   liveness timer in `ReplayLog`.

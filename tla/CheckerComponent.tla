-------------------------- MODULE CheckerComponent --------------------------
(* The check scheduler of lib/checker/checkercomponent.cpp, together with the *)
(* part of Checkable::ExecuteCheck and Checkable::ProcessCheckResult that     *)
(* decides when a check runs (lib/icinga/checkable-check.cpp) and the counter *)
(* of pending checks it shares with the remote check thread                   *)
(* (lib/icinga/clusterevents-check.cpp).                                      *)
(*                                                                            *)
(* Threads: the scheduler thread; one helper per queued ExecuteCheckHelper    *)
(* callback and the plugin process it starts; the remote check thread; API    *)
(* threads that reschedule checks or submit passive results; the threads that *)
(* change an object's authority; the thread that stops the component.  A step *)
(* is one critical section of m_Mutex, or the code between two of them.       *)
(*                                                                            *)
(* Times are relative to now: a due check has a value of at most 0.           *)
EXTENDS Integers, FiniteSets

CONSTANTS Checkables,           \* hosts and services
          LocalZone,            \* the checkables whose zone is the local one
          PassiveEnabled,       \* the checkables with enable_passive_checks
          PeerChecked,          \* the checkables an HA peer sends events about
          PluginChecks,         \* the checkables whose plugin this node may run
          EndpointChecks,       \* the checkables that may have a command endpoint
                                \* (command_endpoint can be modified at runtime)
          Helpers,              \* names for queued helper callbacks (a bound)
          MaxConcurrentChecks,  \* IcingaApplication::GetMaxConcurrentChecks()
          CheckInterval,        \* ticks between two checks of an object
          CheckTimeout,         \* ticks the answer of a remote check may take
          MaxOverdue,           \* how late the scheduler may be (a bound)
          MaxRemoteProcs,       \* check processes of the remote thread (a bound)
          MaxLeaks,             \* failing executions for an endpoint (a bound)
          MayStop               \* whether the component is stopped (a bound)

ASSUME CheckerAssumption ==
    /\ LocalZone \subseteq Checkables
    /\ PassiveEnabled \subseteq Checkables
    /\ PeerChecked \subseteq Checkables
    /\ PluginChecks \subseteq Checkables
    /\ EndpointChecks \subseteq Checkables
    /\ Checkables # {}
    /\ Helpers # {} /\ IsFiniteSet(Helpers)
    /\ MaxConcurrentChecks \in Nat \ {0}
    /\ CheckInterval \in Nat \ {0}
    /\ CheckTimeout \in Nat \ {0}
    /\ MaxOverdue \in Nat
    /\ MaxRemoteProcs \in Nat
    /\ MaxLeaks \in Nat
    /\ MayStop \in BOOLEAN

VARIABLES
    active, paused,      \* ConfigObject: 'active' and 'paused' of each object
    authSignal,          \* 'paused' was changed, OnPausedChanged not run
    activeSignal,        \* 'active' was changed, OnActiveChanged not run
    nextCheck,           \* Checkable: next_check
    apiSignal,           \* next_check set by an API thread, handler not run
    forceNextCheck,      \* Checkable: force_next_check
    checkRunning,        \* Checkable::m_CheckRunning
    pendingChecks,       \* Checkable::m_PendingChecks
    idle,                \* m_IdleCheckables, the objects
    idleAt,              \* m_IdleCheckables, the NextCheck each one is sorted by
    pending,             \* m_PendingCheckables
    stopped,             \* m_Stopped
    joined,              \* m_WaitGroup: Join() was called
    stopPc,              \* the thread in CheckerComponent::Stop
    schedPc, schedObj, schedForced,  \* CheckThreadProc and its locals
    wakeIn,              \* the time left of its wait_for
    helperPc, helperObj, \* ExecuteCheckHelper callbacks
    procPc,              \* the check command each of them started
    remotePc, remoteProcs, \* RemoteCheckThreadProc and the processes it started
    disowned,            \* history: the helpers whose mark in m_CheckRunning
                         \* was cleared before their check was over
    leaked               \* history: how often m_PendingChecks was decreased
                         \* without having been increased

markVars == <<checkRunning, disowned>>
slotVars == <<pendingChecks, leaked>>
objVars == <<active, paused, authSignal, activeSignal>>
timeVars == <<nextCheck, apiSignal>>
queueVars == <<idle, idleAt, pending>>
stopVars == <<stopped, joined, stopPc>>
schedVars == <<schedPc, schedObj, schedForced, wakeIn>>
helperVars == <<helperPc, helperObj, procPc>>
remoteVars == <<remotePc, remoteProcs>>

vars == <<active, paused, authSignal, activeSignal, nextCheck, apiSignal,
          forceNextCheck, checkRunning, pendingChecks, idle, idleAt, pending, stopped, joined,
          stopPc, schedPc, schedObj, schedForced, wakeIn, helperPc, helperObj,
          procPc, remotePc, remoteProcs, disowned, leaked>>

SchedPcs == {"run", "wait", "sleep", "reschedule", "signal", "dispatch", "done"}
HelperPcs == {"free", "queued", "signal", "guard", "spawn", "count", "inline",
              "failed", "answered", "complain", "remoteSignal", "remoteClear",
              "finish", "return"}
ProcPcs == {"none", "run", "exited", "process"}
StopPcs == {"off", "join", "thread", "returned"}

TypeOK ==
    /\ active \in [Checkables -> BOOLEAN]
    /\ paused \in [Checkables -> BOOLEAN]
    /\ authSignal \subseteq Checkables
    /\ activeSignal \subseteq Checkables
    /\ nextCheck \in [Checkables -> Int]
    /\ apiSignal \subseteq Checkables
    /\ forceNextCheck \in [Checkables -> BOOLEAN]
    /\ checkRunning \in [Checkables -> BOOLEAN]
    /\ pendingChecks \in Int
    /\ idle \subseteq Checkables
    /\ idleAt \in [Checkables -> Int]
    /\ pending \subseteq Checkables
    /\ stopped \in BOOLEAN
    /\ joined \in BOOLEAN
    /\ stopPc \in StopPcs
    /\ schedPc \in SchedPcs
    /\ schedObj \in Checkables
    /\ schedForced \in BOOLEAN
    /\ wakeIn \in Int
    /\ helperPc \in [Helpers -> HelperPcs]
    /\ helperObj \in [Helpers -> Checkables]
    /\ procPc \in [Helpers -> ProcPcs]
    /\ remotePc \in {"idle", "acquired", "release"}
    /\ remoteProcs \in Nat
    /\ disowned \subseteq Helpers
    /\ leaked \in Nat

\* PreActivate has made every object active, Activate has not yet called
\* NotifyActive, and no UpdateObjectAuthority has run: all are still paused.
Init ==
    /\ active = [c \in Checkables |-> TRUE]
    /\ paused = [c \in Checkables |-> TRUE]
    /\ authSignal = {}
    /\ activeSignal = Checkables
    /\ nextCheck = [c \in Checkables |-> 0]
    /\ apiSignal = {}
    /\ forceNextCheck = [c \in Checkables |-> FALSE]
    /\ checkRunning = [c \in Checkables |-> FALSE]
    /\ pendingChecks = 0
    /\ idle = {}
    /\ idleAt = [c \in Checkables |-> 0]
    /\ pending = {}
    /\ stopped = FALSE
    /\ joined = FALSE
    /\ stopPc = "off"
    /\ schedPc = "run"
    /\ schedForced = FALSE
    /\ wakeIn = 0
    /\ helperPc = [h \in Helpers |-> "free"]
    /\ \E c \in Checkables : schedObj = c /\ helperObj = [h \in Helpers |-> c]
    /\ procPc = [h \in Helpers |-> "none"]
    /\ remotePc = "idle"
    /\ remoteProcs = 0
    /\ disowned = {}
    /\ leaked = 0

-----------------------------------------------------------------------------
(* The operations the threads share.                                         *)

\* m_CV.notify_all(): only the scheduler thread waits on m_CV.
Notify == schedPc' = IF schedPc \in {"wait", "sleep"} THEN "run" ELSE schedPc

\* The condition of ObjectHandler for scheduling an object on this node.
Authoritative(c) == active[c] /\ ~paused[c] /\ c \in LocalZone

\* boost::multi_index insert: the object index is unique, so inserting an
\* object that is already there keeps the old entry and its sort key.
InsertIdle(c) ==
    /\ idle' = idle \cup {c}
    /\ idleAt' = IF c \in idle THEN idleAt ELSE [idleAt EXCEPT ![c] = nextCheck[c]]

\* CheckerComponent::ObjectHandler
ObjectHandler(c) ==
    \/ /\ Authoritative(c)
       /\ c \in pending
       /\ UNCHANGED <<idle, idleAt, pending, schedPc>>
    \/ /\ Authoritative(c)
       /\ c \notin pending
       /\ InsertIdle(c)
       /\ Notify
       /\ UNCHANGED pending
    \/ /\ ~Authoritative(c)
       /\ idle' = idle \ {c}
       /\ pending' = pending \ {c}
       /\ Notify
       /\ UNCHANGED idleAt

\* Mutation of Reindex: the entry is inserted again without being erased.
ReindexNoErase(c) == UNCHANGED idleAt

\* CheckerComponent::NextCheckChangedHandler without its notify_all()
Reindex(c) ==
    idleAt' = IF c \in idle THEN [idleAt EXCEPT ![c] = nextCheck[c]] ELSE idleAt

\* Mutation of NextCheckChangedHandler: no notify_all().
NextCheckChangedNoNotify(c) == Reindex(c) /\ UNCHANGED schedPc

\* CheckerComponent::NextCheckChangedHandler
NextCheckChangedHandler(c) ==
    /\ Reindex(c)
    /\ IF c \in idle THEN Notify ELSE UNCHANGED schedPc

\* Checkable::UpdateNextCheck: some time after now, at most one interval away.
UpdateNextCheck(c) ==
    \E d \in 1..CheckInterval : nextCheck' = [nextCheck EXCEPT ![c] = d]

\* The helper h is between setting m_CheckRunning and clearing it.
Owner(h) ==
    \/ helperPc[h] \in {"spawn", "answered", "remoteSignal", "remoteClear"}
    \/ procPc[h] \in {"run", "exited"}

\* m_CheckRunning = false in ProcessCheckResult, for a result that is not of a
\* check of this node: a check of the object that is under way loses its mark.
ClearedByOther(c) ==
    /\ checkRunning' = [checkRunning EXCEPT ![c] = FALSE]
    /\ disowned' = disowned \cup {g \in Helpers : helperObj[g] = c /\ Owner(g)}

\* The same at the end of the check of the helper h.
ClearedBy(h) ==
    /\ checkRunning' = [checkRunning EXCEPT ![helperObj[h]] = FALSE]
    /\ disowned' = (disowned \cup {g \in Helpers : helperObj[g] = helperObj[h] /\ Owner(g)})
                       \ {h}

-----------------------------------------------------------------------------
(* CheckThreadProc                                                           *)

Running == schedPc = "run" /\ ~stopped

Earliest(c) == c \in idle /\ \A d \in idle : idleAt[c] <= idleAt[d]

Throttled == pendingChecks >= MaxConcurrentChecks

\* m_CV.wait(): nothing to schedule.
SchedulerWait ==
    /\ Running
    /\ idle = {}
    /\ schedPc' = "wait"
    /\ UNCHANGED <<objVars, timeVars, forceNextCheck, markVars,
                   slotVars, queueVars, stopVars, schedObj, schedForced,
                   wakeIn, helperVars, remoteVars>>

\* m_CV.wait_for(): until the earliest entry is due, or half a second when all
\* slots are taken (shorter than a tick).
SchedulerSleep ==
    /\ Running
    /\ \E c \in Checkables :
        /\ Earliest(c)
        /\ Throttled \/ idleAt[c] > 0
        /\ wakeIn' = IF Throttled THEN 0 ELSE idleAt[c]
    /\ schedPc' = "sleep"
    /\ UNCHANGED <<objVars, timeVars, forceNextCheck, markVars,
                   slotVars, queueVars, stopVars, schedObj, schedForced,
                   helperVars, remoteVars>>

SchedulerTimeout ==
    /\ schedPc = "sleep"
    /\ wakeIn <= 0
    /\ schedPc' = "run"
    /\ UNCHANGED <<objVars, timeVars, forceNextCheck, markVars,
                   slotVars, queueVars, stopVars, schedObj, schedForced,
                   wakeIn, helperVars, remoteVars>>

SchedulerStop ==
    /\ schedPc = "run"
    /\ stopped
    /\ schedPc' = "done"
    /\ UNCHANGED <<objVars, timeVars, forceNextCheck, markVars,
                   slotVars, queueVars, stopVars, schedObj, schedForced,
                   wakeIn, helperVars, remoteVars>>

Due(c) == Earliest(c) /\ ~Throttled /\ idleAt[c] <= 0

\* Mutation of SchedulerSkip: the force flag is not looked at.
SchedulerSkipForced(c) ==
    /\ Running
    /\ Due(c)
    /\ idleAt' = [idleAt EXCEPT ![c] = nextCheck[c]]
    /\ schedPc' = "reschedule"
    /\ schedObj' = c
    /\ UNCHANGED <<objVars, timeVars, forceNextCheck, markVars,
                   slotVars, idle, pending, stopVars, schedForced, wakeIn,
                   helperVars, remoteVars>>

\* A dependency failed, active checks are disabled or the check period is over:
\* the object goes back into the idle set.  A forced check is never skipped.
SchedulerSkip(c) ==
    /\ Running
    /\ Due(c)
    /\ ~forceNextCheck[c]
    /\ idleAt' = [idleAt EXCEPT ![c] = nextCheck[c]]
    /\ schedPc' = "reschedule"
    /\ schedObj' = c
    /\ UNCHANGED <<objVars, timeVars, forceNextCheck, markVars,
                   slotVars, idle, pending, stopVars, schedForced, wakeIn,
                   helperVars, remoteVars>>

\* SetNextCheck (the end of the closed check period) or UpdateNextCheck.
SchedulerReschedule ==
    /\ schedPc = "reschedule"
    /\ UpdateNextCheck(schedObj)
    /\ schedPc' = "signal"
    /\ UNCHANGED <<objVars, apiSignal, forceNextCheck, markVars,
                   slotVars, queueVars, stopVars, schedObj, schedForced,
                   wakeIn, helperVars, remoteVars>>

\* Its OnNextCheckChanged handler, then the lock is taken again.
SchedulerSignal ==
    /\ schedPc = "signal"
    /\ Reindex(schedObj)
    /\ schedPc' = "run"
    /\ UNCHANGED <<objVars, timeVars, forceNextCheck, markVars,
                   slotVars, idle, pending, stopVars, schedObj,
                   schedForced, wakeIn, helperVars, remoteVars>>

\* The object moves from the idle to the pending set; the lock is released.
SchedulerPend(c) ==
    /\ Running
    /\ Due(c)
    /\ idle' = idle \ {c}
    /\ pending' = pending \cup {c}
    /\ schedForced' = forceNextCheck[c]
    /\ schedObj' = c
    /\ schedPc' = "dispatch"
    /\ UNCHANGED <<objVars, timeVars, forceNextCheck, markVars,
                   slotVars, idleAt, stopVars, wakeIn, helperVars,
                   remoteVars>>

\* The force flag is cleared, the slot is counted, the helper is queued.
SchedulerDispatch ==
    /\ schedPc = "dispatch"
    /\ forceNextCheck' = IF schedForced
                         THEN [forceNextCheck EXCEPT ![schedObj] = FALSE]
                         ELSE forceNextCheck
    /\ pendingChecks' = pendingChecks + 1
    /\ \E h \in Helpers :
        /\ helperPc[h] = "free"
        /\ procPc[h] = "none"
        /\ helperPc' = [helperPc EXCEPT ![h] = "queued"]
        /\ helperObj' = [helperObj EXCEPT ![h] = schedObj]
    /\ schedPc' = "run"
    /\ UNCHANGED <<objVars, timeVars, markVars, queueVars, stopVars,
                   schedObj, schedForced, wakeIn, procPc, remoteVars, leaked>>

-----------------------------------------------------------------------------
(* ExecuteCheckHelper and Checkable::ExecuteCheck in it                      *)

HelperStep(h, from, to) ==
    /\ helperPc[h] = from
    /\ helperPc' = [helperPc EXCEPT ![h] = to]

\* ExecuteCheck starts with UpdateNextCheck ...
HelperBegin(h) ==
    /\ HelperStep(h, "queued", "signal")
    /\ UpdateNextCheck(helperObj[h])
    /\ UNCHANGED <<objVars, apiSignal, forceNextCheck, markVars,
                   slotVars, queueVars, stopVars, schedVars, helperObj,
                   procPc, remoteVars>>

\* ... and its OnNextCheckChanged handler.
HelperSignal(h) ==
    /\ HelperStep(h, "signal", "guard")
    /\ NextCheckChangedHandler(helperObj[h])
    /\ UNCHANGED <<objVars, timeVars, forceNextCheck, markVars,
                   slotVars, idle, pending, stopVars, schedObj,
                   schedForced, wakeIn, helperObj, procPc, remoteVars>>

\* Mutation of HelperGuard: m_CheckRunning is set but not tested.
HelperGuardAlways(h) ==
    /\ HelperStep(h, "guard", "spawn")
    /\ checkRunning' = [checkRunning EXCEPT ![helperObj[h]] = TRUE]
    /\ UNCHANGED <<objVars, timeVars, forceNextCheck, slotVars, queueVars,
                   stopVars, schedVars, helperObj, procPc, remoteVars, disowned>>

\* "don't run another check if there is one pending"
HelperGuard(h) ==
    /\ helperPc[h] = "guard"
    /\ helperPc' = [helperPc EXCEPT ![h] =
                       IF checkRunning[helperObj[h]] THEN "finish" ELSE "spawn"]
    /\ checkRunning' = [checkRunning EXCEPT ![helperObj[h]] = TRUE]
    /\ UNCHANGED <<objVars, timeVars, forceNextCheck, slotVars, queueVars,
                   stopVars, schedVars, helperObj, procPc, remoteVars, disowned>>

\* PluginCheckTask::ScriptFunc starts the process, whose end is a callback.
HelperPlugin(h) ==
    /\ HelperStep(h, "spawn", "count")
    /\ helperObj[h] \in PluginChecks
    /\ procPc' = [procPc EXCEPT ![h] = "run"]
    /\ UNCHANGED <<objVars, timeVars, forceNextCheck, markVars,
                   slotVars, queueVars, stopVars, schedVars, helperObj,
                   remoteVars>>

\* The process is counted only after it was started.
HelperCount(h) ==
    /\ HelperStep(h, "count", "finish")
    /\ pendingChecks' = pendingChecks + 1
    /\ UNCHANGED <<objVars, timeVars, forceNextCheck, markVars, queueVars,
                   stopVars, schedVars, helperObj, procPc, remoteVars, leaked>>

\* A built-in command, or an exception: the result is processed right here.
HelperInline(h) ==
    /\ HelperStep(h, "spawn", "inline")
    /\ procPc' = [procPc EXCEPT ![h] = "exited"]
    /\ UNCHANGED <<objVars, timeVars, forceNextCheck, markVars,
                   slotVars, queueVars, stopVars, schedVars, helperObj,
                   remoteVars>>

HelperInlineDone(h) ==
    /\ HelperStep(h, "inline", "finish")
    /\ procPc[h] = "none"
    /\ UNCHANGED <<objVars, timeVars, forceNextCheck, markVars,
                   slotVars, queueVars, stopVars, schedVars, helperObj,
                   procPc, remoteVars>>

\* Execute() resolves the macros for a command endpoint.  If that fails it calls
\* ProcessFinishedHandler, which decreases m_PendingChecks although nothing was
\* started (ScriptFunc would not have counted it), and processes a result ...
HelperMacroError(h) ==
    /\ HelperStep(h, "spawn", "failed")
    /\ helperObj[h] \in EndpointChecks
    /\ leaked < MaxLeaks
    /\ pendingChecks' = pendingChecks - 1
    /\ leaked' = leaked + 1
    /\ procPc' = [procPc EXCEPT ![h] = "exited"]
    /\ UNCHANGED <<objVars, timeVars, forceNextCheck, markVars, queueVars,
                   stopVars, schedVars, helperObj, remoteVars>>

\* ... and ExecuteCheck goes on as if it had not failed.
HelperMacroErrorDone(h) ==
    /\ HelperStep(h, "failed", "answered")
    /\ procPc[h] = "none"
    /\ disowned' = disowned \cup {h}
    /\ UNCHANGED <<objVars, timeVars, forceNextCheck, checkRunning, slotVars,
                   queueVars, stopVars, schedVars, helperObj, procPc,
                   remoteVars>>

\* The branches of ExecuteCheck once the macros are there or not.
HelperBranch(h, to) ==
    /\ helperPc[h] \in {"spawn", "answered"}
    /\ helperObj[h] \in EndpointChecks
    /\ helperPc' = [helperPc EXCEPT ![h] = to]

\* A command endpoint runs the check: it is not run again until the answer
\* must have come ...
HelperRemote(h) ==
    /\ HelperBranch(h, "remoteSignal")
    /\ nextCheck' = [nextCheck EXCEPT ![helperObj[h]] = CheckTimeout]
    /\ UNCHANGED <<objVars, apiSignal, forceNextCheck, markVars,
                   slotVars, queueVars, stopVars, schedVars, helperObj,
                   procPc, remoteVars>>

\* ... or the endpoint is not connected and it is too early to complain ...
HelperUnconnected(h) ==
    /\ HelperBranch(h, "remoteClear")
    /\ UNCHANGED <<objVars, timeVars, forceNextCheck, markVars,
                   slotVars, queueVars, stopVars, schedVars, helperObj,
                   procPc, remoteVars>>

\* ... or it is not, and an UNKNOWN result is processed here.
HelperComplain(h) ==
    /\ HelperBranch(h, "complain")
    /\ procPc' = [procPc EXCEPT ![h] = "exited"]
    /\ UNCHANGED <<objVars, timeVars, forceNextCheck, markVars,
                   slotVars, queueVars, stopVars, schedVars, helperObj,
                   remoteVars>>

HelperComplainDone(h) ==
    /\ HelperStep(h, "complain", "remoteClear")
    /\ procPc[h] = "none"
    /\ disowned' = disowned \cup {h}
    /\ UNCHANGED <<objVars, timeVars, forceNextCheck, checkRunning, slotVars,
                   queueVars, stopVars, schedVars, helperObj, procPc,
                   remoteVars>>

HelperRemoteSignal(h) ==
    /\ HelperStep(h, "remoteSignal", "remoteClear")
    /\ NextCheckChangedHandler(helperObj[h])
    /\ UNCHANGED <<objVars, timeVars, forceNextCheck, markVars,
                   slotVars, idle, pending, stopVars, schedObj,
                   schedForced, wakeIn, helperObj, procPc, remoteVars>>

HelperRemoteClear(h) ==
    /\ HelperStep(h, "remoteClear", "finish")
    /\ ClearedBy(h)
    /\ UNCHANGED <<objVars, timeVars, forceNextCheck, slotVars, queueVars,
                   stopVars, schedVars, helperObj, procPc, remoteVars>>

\* DecreasePendingChecks()
HelperFinish(h) ==
    /\ HelperStep(h, "finish", "return")
    /\ pendingChecks' = pendingChecks - 1
    /\ UNCHANGED <<objVars, timeVars, forceNextCheck, markVars, queueVars,
                   stopVars, schedVars, helperObj, procPc, remoteVars, leaked>>

\* Mutation of HelperReturn: the object is re-added although it left the
\* pending set meanwhile.
HelperReturnAlways(h) ==
    /\ HelperStep(h, "return", "free")
    /\ pending' = pending \ {helperObj[h]}
    /\ IF active[helperObj[h]] THEN InsertIdle(helperObj[h])
                               ELSE UNCHANGED <<idle, idleAt>>
    /\ Notify
    /\ UNCHANGED <<objVars, timeVars, forceNextCheck, markVars,
                   slotVars, stopVars, schedObj, schedForced, wakeIn,
                   helperObj, procPc, remoteVars>>

\* Back from the pending into the idle set, unless the object left meanwhile.
HelperReturn(h) ==
    LET c == helperObj[h] IN
    /\ HelperStep(h, "return", "free")
    /\ \/ /\ c \in pending
          /\ pending' = pending \ {c}
          /\ IF active[c] THEN InsertIdle(c) ELSE UNCHANGED <<idle, idleAt>>
          /\ Notify
       \/ /\ c \notin pending
          /\ UNCHANGED <<queueVars, schedPc>>
    /\ UNCHANGED <<objVars, timeVars, forceNextCheck, markVars,
                   slotVars, stopVars, schedObj, schedForced, wakeIn,
                   helperObj, procPc, remoteVars>>

-----------------------------------------------------------------------------
(* The check command: PluginCheckTask::ProcessFinishedHandler, and            *)
(* ProcessCheckResult as far as it concerns scheduling                        *)

ProcStep(h, from, to) ==
    /\ procPc[h] = from
    /\ procPc' = [procPc EXCEPT ![h] = to]

\* Mutation of ProcExit: DecreasePendingChecks() is forgotten.
ProcExitUncounted(h) ==
    /\ ProcStep(h, "run", "exited")
    /\ UNCHANGED <<objVars, timeVars, forceNextCheck, markVars, queueVars,
                   stopVars, schedVars, helperPc, helperObj, remoteVars,
                   slotVars>>

\* The process ends (or is killed at its timeout): DecreasePendingChecks().
ProcExit(h) ==
    /\ ProcStep(h, "run", "exited")
    /\ pendingChecks' = pendingChecks - 1
    /\ UNCHANGED <<objVars, timeVars, forceNextCheck, markVars, queueVars,
                   stopVars, schedVars, helperPc, helperObj, remoteVars, leaked>>

\* ProcessCheckResult clears m_CheckRunning; once the component is stopping,
\* or if the object is inactive, the result is discarded.
ProcDiscard(h) ==
    /\ ProcStep(h, "exited", "none")
    /\ joined \/ ~active[helperObj[h]]
    /\ ClearedBy(h)
    /\ UNCHANGED <<objVars, timeVars, forceNextCheck, slotVars, queueVars,
                   stopVars, schedVars, helperPc, helperObj, remoteVars>>

\* Mutation of ProcResult: the wait group is not asked.
ProcResultUnlocked(h) ==
    /\ ProcStep(h, "exited", "process")
    /\ active[helperObj[h]]
    /\ ClearedBy(h)
    /\ UpdateNextCheck(helperObj[h])
    /\ UNCHANGED <<objVars, apiSignal, forceNextCheck, slotVars, queueVars,
                   stopVars, schedVars, helperPc, helperObj, remoteVars>>

\* Otherwise it holds the wait group while it is processed, and the next check
\* is computed from it.
ProcResult(h) ==
    /\ ProcStep(h, "exited", "process")
    /\ ~joined
    /\ active[helperObj[h]]
    /\ ClearedBy(h)
    /\ UpdateNextCheck(helperObj[h])
    /\ UNCHANGED <<objVars, apiSignal, forceNextCheck, slotVars, queueVars,
                   stopVars, schedVars, helperPc, helperObj, remoteVars>>

ProcSignal(h) ==
    /\ ProcStep(h, "process", "none")
    /\ NextCheckChangedHandler(helperObj[h])
    /\ UNCHANGED <<objVars, timeVars, forceNextCheck, markVars,
                   slotVars, idle, pending, stopVars, schedObj,
                   schedForced, wakeIn, helperPc, helperObj, remoteVars>>

-----------------------------------------------------------------------------
(* Other threads                                                             *)

\* ConfigObject::SetAuthority, called by ApiListener::UpdateObjectAuthority for
\* active objects, one after the other, under their ObjectLock.
SetAuthority(c, authority) ==
    /\ active[c]
    /\ authSignal = {}
    /\ paused[c] = authority
    /\ paused' = [paused EXCEPT ![c] = ~authority]
    /\ authSignal' = authSignal \cup {c}
    /\ UNCHANGED <<active, activeSignal, timeVars, forceNextCheck, markVars,
                   slotVars, queueVars, stopVars, schedVars, helperVars,
                   remoteVars>>

\* ConfigObject::Deactivate: the object is removed at runtime or on shutdown.
\* It gives up its authority under the ObjectLock and calls NotifyActive after.
Deactivate(c) ==
    /\ active[c]
    /\ c \notin authSignal
    /\ c \notin activeSignal
    /\ active' = [active EXCEPT ![c] = FALSE]
    /\ paused' = [paused EXCEPT ![c] = TRUE]
    /\ authSignal' = IF paused[c] THEN authSignal ELSE authSignal \cup {c}
    /\ activeSignal' = activeSignal \cup {c}
    /\ UNCHANGED <<timeVars, forceNextCheck, markVars, slotVars,
                   queueVars, stopVars, schedVars, helperVars, remoteVars>>

\* OnPausedChanged
AuthoritySignal(c) ==
    /\ c \in authSignal
    /\ authSignal' = authSignal \ {c}
    /\ ObjectHandler(c)
    /\ UNCHANGED <<active, paused, activeSignal, timeVars, forceNextCheck,
                   markVars, slotVars, stopVars, schedObj, schedForced,
                   wakeIn, helperVars, remoteVars>>

\* OnActiveChanged, called by NotifyActive outside the ObjectLock
ActiveSignal(c) ==
    /\ c \in activeSignal
    /\ active[c] \/ c \notin authSignal
    /\ activeSignal' = activeSignal \ {c}
    /\ ObjectHandler(c)
    /\ UNCHANGED <<active, paused, authSignal, timeVars, forceNextCheck,
                   markVars, slotVars, stopVars, schedObj, schedForced,
                   wakeIn, helperVars, remoteVars>>

\* ApiActions::RescheduleCheck: check now, possibly forced.  (One API request
\* is handled at a time, a bound.)
RescheduleCheck(c, force) ==
    /\ apiSignal = {}
    /\ forceNextCheck' = [forceNextCheck EXCEPT ![c] = @ \/ force]
    /\ nextCheck' = [nextCheck EXCEPT ![c] = 0]
    /\ apiSignal' = apiSignal \cup {c}
    /\ UNCHANGED <<objVars, markVars, slotVars, queueVars, stopVars,
                   schedVars, helperVars, remoteVars>>

\* ProcessCheckResult for a result that no check of this node produced (the API
\* action process_check_result, an external command): it clears m_CheckRunning
\* too and moves the next check away.
PassiveResult(c) ==
    /\ c \in PassiveEnabled
    /\ active[c]
    /\ apiSignal = {}
    /\ ClearedByOther(c)
    /\ nextCheck' = [nextCheck EXCEPT ![c] = CheckInterval]
    /\ apiSignal' = apiSignal \cup {c}
    /\ UNCHANGED <<objVars, forceNextCheck, slotVars, queueVars, stopVars,
                   schedVars, helperVars, remoteVars>>

\* event::CheckResult: the answer of the command endpoint of an object this node
\* is responsible for.  It moves the next check to its proper time.
EndpointResult(c) ==
    /\ c \in EndpointChecks
    /\ Authoritative(c)
    /\ apiSignal = {}
    /\ ClearedByOther(c)
    /\ UpdateNextCheck(c)
    /\ apiSignal' = apiSignal \cup {c}
    /\ UNCHANGED <<objVars, forceNextCheck, slotVars, queueVars, stopVars,
                   schedVars, helperVars, remoteVars>>

\* event::CheckResult from an HA peer, or for an object of such a peer: it clears
\* m_CheckRunning, whoever checks the object and whatever enable_passive_checks
\* says, and leaves the next check to event::SetNextCheck ...
PeerResult(c) ==
    /\ c \in PeerChecked
    /\ ClearedByOther(c)
    /\ UNCHANGED <<objVars, timeVars, forceNextCheck, slotVars, queueVars,
                   stopVars, schedVars, helperVars, remoteVars>>

\* ... which carries the time the peer computed.
PeerNextCheck(c) ==
    /\ c \in PeerChecked
    /\ apiSignal = {}
    /\ \E t \in 0..CheckInterval : nextCheck' = [nextCheck EXCEPT ![c] = t]
    /\ apiSignal' = apiSignal \cup {c}
    /\ UNCHANGED <<objVars, forceNextCheck, markVars, slotVars, queueVars,
                   stopVars, schedVars, helperVars, remoteVars>>

ApiSignal(c) ==
    /\ c \in apiSignal
    /\ apiSignal' = apiSignal \ {c}
    /\ NextCheckChangedHandler(c)
    /\ UNCHANGED <<objVars, nextCheck, forceNextCheck, markVars,
                   slotVars, idle, pending, stopVars, schedObj,
                   schedForced, wakeIn, helperVars, remoteVars>>

\* Mutation of RemoteAcquire: the slot is taken without waiting for one.
RemoteAcquireNoWait ==
    /\ remotePc = "idle"
    /\ remoteProcs < MaxRemoteProcs
    /\ pendingChecks' = pendingChecks + 1
    /\ remotePc' = "acquired"
    /\ UNCHANGED <<objVars, timeVars, forceNextCheck, markVars, queueVars,
                   stopVars, schedVars, helperVars, remoteProcs, leaked>>

\* ClusterEvents::RemoteCheckThreadProc: AquirePendingCheckSlot ...
RemoteAcquire ==
    /\ remotePc = "idle"
    /\ remoteProcs < MaxRemoteProcs
    /\ ~Throttled
    /\ pendingChecks' = pendingChecks + 1
    /\ remotePc' = "acquired"
    /\ UNCHANGED <<objVars, timeVars, forceNextCheck, markVars, queueVars,
                   stopVars, schedVars, helperVars, remoteProcs, leaked>>

\* ... the callback starts a plugin ...
RemoteExecute ==
    /\ remotePc = "acquired"
    /\ pendingChecks' = pendingChecks + 1
    /\ remoteProcs' = remoteProcs + 1
    /\ remotePc' = "release"
    /\ UNCHANGED <<objVars, timeVars, forceNextCheck, markVars, queueVars,
                   stopVars, schedVars, helperVars, leaked>>

\* ... or rejects the request ...
RemoteReject ==
    /\ remotePc = "acquired"
    /\ remotePc' = "release"
    /\ UNCHANGED <<objVars, timeVars, forceNextCheck, markVars,
                   slotVars, queueVars, stopVars, schedVars, helperVars,
                   remoteProcs>>

\* ... DecreasePendingChecks.
RemoteRelease ==
    /\ remotePc = "release"
    /\ pendingChecks' = pendingChecks - 1
    /\ remotePc' = "idle"
    /\ UNCHANGED <<objVars, timeVars, forceNextCheck, markVars, queueVars,
                   stopVars, schedVars, helperVars, remoteProcs, leaked>>

\* Mutation of RemoteExit: the end of a process is reported twice.
RemoteExitTwice ==
    /\ pendingChecks' = pendingChecks - 1
    /\ remoteProcs' = remoteProcs - 1
    /\ UNCHANGED <<objVars, timeVars, forceNextCheck, markVars, queueVars,
                   stopVars, schedVars, helperVars, remotePc, leaked>>

\* The process of a remote check ends: DecreasePendingChecks.
RemoteExit ==
    /\ remoteProcs > 0
    /\ pendingChecks' = pendingChecks - 1
    /\ remoteProcs' = remoteProcs - 1
    /\ UNCHANGED <<objVars, timeVars, forceNextCheck, markVars, queueVars,
                   stopVars, schedVars, helperVars, remotePc, leaked>>

\* Mutation of StopBegin: the scheduler thread is not woken up.
StopBeginNoNotify ==
    /\ MayStop
    /\ stopPc = "off"
    /\ stopped' = TRUE
    /\ stopPc' = "join"
    /\ UNCHANGED <<objVars, timeVars, forceNextCheck, markVars,
                   slotVars, queueVars, joined, schedVars, helperVars,
                   remoteVars>>

\* CheckerComponent::Stop: m_Stopped and notify_all() ...
StopBegin ==
    /\ MayStop
    /\ stopPc = "off"
    /\ stopped' = TRUE
    /\ stopPc' = "join"
    /\ Notify
    /\ UNCHANGED <<objVars, timeVars, forceNextCheck, markVars,
                   slotVars, queueVars, joined, schedObj, schedForced,
                   wakeIn, helperVars, remoteVars>>

\* ... m_WaitGroup->Join() lets no new result in ...
StopJoin ==
    /\ stopPc = "join"
    /\ joined' = TRUE
    /\ stopPc' = "thread"
    /\ UNCHANGED <<objVars, timeVars, forceNextCheck, markVars,
                   slotVars, queueVars, stopped, schedVars, helperVars,
                   remoteVars>>

\* ... and waits for the ones in progress; then the thread is joined.
StopReturn ==
    /\ stopPc = "thread"
    /\ \A h \in Helpers : procPc[h] # "process"
    /\ schedPc = "done"
    /\ stopPc' = "returned"
    /\ UNCHANGED <<objVars, timeVars, forceNextCheck, markVars,
                   slotVars, queueVars, stopped, joined, schedVars,
                   helperVars, remoteVars>>

Later(t) == IF t > -MaxOverdue THEN t - 1 ELSE t

\* Time passes, unless an idle check is already overdue by MaxOverdue.
Tick ==
    /\ \A c \in idle : idleAt[c] > -MaxOverdue
    /\ nextCheck' = [c \in Checkables |-> Later(nextCheck[c])]
    /\ idleAt' = [c \in Checkables |->
                     IF c \in idle THEN Later(idleAt[c]) ELSE idleAt[c]]
    /\ wakeIn' = IF schedPc = "sleep" THEN Later(wakeIn) ELSE wakeIn
    /\ UNCHANGED <<objVars, apiSignal, forceNextCheck, markVars,
                   slotVars, idle, pending, stopVars, schedPc, schedObj,
                   schedForced, helperVars, remoteVars>>

-----------------------------------------------------------------------------
Scheduler ==
    \/ SchedulerWait \/ SchedulerSleep \/ SchedulerTimeout \/ SchedulerStop
    \/ SchedulerReschedule \/ SchedulerSignal \/ SchedulerDispatch
    \/ \E c \in Checkables : SchedulerSkip(c) \/ SchedulerPend(c)

Helper(h) ==
    \/ HelperBegin(h) \/ HelperSignal(h) \/ HelperGuard(h) \/ HelperPlugin(h)
    \/ HelperCount(h) \/ HelperInline(h) \/ HelperInlineDone(h)
    \/ HelperMacroError(h) \/ HelperMacroErrorDone(h)
    \/ HelperRemote(h) \/ HelperUnconnected(h) \/ HelperRemoteSignal(h)
    \/ HelperComplain(h) \/ HelperComplainDone(h) \/ HelperRemoteClear(h)
    \/ HelperFinish(h) \/ HelperReturn(h)

Proc(h) == ProcExit(h) \/ ProcDiscard(h) \/ ProcResult(h) \/ ProcSignal(h)

Remote ==
    \/ RemoteAcquire \/ RemoteExecute \/ RemoteReject \/ RemoteRelease
    \/ RemoteExit

Api(c) ==
    \/ \E force \in BOOLEAN : RescheduleCheck(c, force)
    \/ PassiveResult(c) \/ EndpointResult(c)
    \/ PeerResult(c) \/ PeerNextCheck(c)

Stopping == StopBegin \/ StopJoin \/ StopReturn

Next ==
    \/ Scheduler
    \/ \E h \in Helpers : Helper(h) \/ Proc(h)
    \/ Remote
    \/ \E c \in Checkables :
        \/ \E authority \in BOOLEAN : SetAuthority(c, authority)
        \/ Deactivate(c)
        \/ AuthoritySignal(c)
        \/ ActiveSignal(c)
        \/ Api(c)
        \/ ApiSignal(c)
    \/ Stopping
    \/ Tick

\* Every thread keeps running, every process ends (plugins are killed at their
\* timeout) and time passes; nothing forces users, peers or a shutdown to act.
Fairness ==
    /\ WF_vars(Scheduler)
    /\ \A h \in Helpers : WF_vars(Helper(h)) /\ WF_vars(Proc(h))
    /\ WF_vars(RemoteExecute \/ RemoteReject \/ RemoteRelease)
    /\ WF_vars(RemoteExit)
    /\ \A c \in Checkables : 
        /\ WF_vars(AuthoritySignal(c) \/ ActiveSignal(c))
        /\ WF_vars(ApiSignal(c))
    /\ WF_vars(StopJoin \/ StopReturn)
    /\ WF_vars(Tick)

Spec == Init /\ [][Next]_vars
FairSpec == Spec /\ Fairness

-----------------------------------------------------------------------------
(* Properties                                                                *)

\* Unless an authority change is still being announced, exactly the objects
\* this node is responsible for are in one of the two sets: no check is lost
\* when a check, a pause, a resume and a removal overlap (the comment in
\* ExecuteCheckHelper), and none of another node is scheduled.
Responsibility ==
    \A c \in Checkables :
        c \notin authSignal => (Authoritative(c) <=> c \in idle \cup pending)

\* An object is never idle and pending at once, or it could be picked while its
\* check is being dispatched.
IdleOrPending == idle \cap pending = {}

\* Some thread has set next_check of c and has not yet run the handler.
Reindexing(c) ==
    \/ c \in apiSignal
    \/ schedPc = "signal" /\ schedObj = c
    \/ \E h \in Helpers :
        /\ helperObj[h] = c
        /\ helperPc[h] \in {"signal", "remoteSignal"} \/ procPc[h] = "process"

\* The idle set is sorted by the real next_check, except while a handler that
\* will repair it is on its way.
IndexFresh ==
    \A c \in idle : Reindexing(c) \/ idleAt[c] = nextCheck[c]

\* The scheduler never sleeps past a due check or a stop request: whoever makes
\* a check earlier, adds one or stops the component wakes it up.
NoMissedWakeup ==
    /\ schedPc \in {"wait", "sleep"} => ~stopped
    /\ schedPc = "wait" => idle = {}
    /\ schedPc = "sleep" => wakeIn <= 0 \/ \A c \in idle : wakeIn <= idleAt[c]

\* m_PendingChecks counts each helper and each running process once, although
\* a process is counted after it was started and may end before that; only an
\* execution for an endpoint that fails before it is sent takes one too many off.
SlotAccounting ==
    pendingChecks + leaked =
        Cardinality({h \in Helpers : helperPc[h] \notin {"free", "count", "return"}})
        + Cardinality({h \in Helpers : procPc[h] = "run"})
        + remoteProcs
        + IF remotePc = "idle" THEN 0 ELSE 1

RunningChecks == Cardinality({h \in Helpers : procPc[h] = "run"}) + remoteProcs

\* The scheduler tests the limit and counts the check in two steps, so the
\* remote check thread can slip in between: one check more than the limit, and
\* one for each time the counter has leaked.
ConcurrencyBound == RunningChecks <= MaxConcurrentChecks + 1 + leaked

\* m_CheckRunning: two processes check one object at once only if one of them
\* has lost its mark to a result that was not its own (a passive one, a peer's,
\* or that of another check that had lost its mark): pausing and resuming the
\* object during a check is not enough.
NoOverlap ==
    \A g, h \in Helpers :
        /\ g # h /\ helperObj[g] = helperObj[h]
        /\ procPc[g] = "run" /\ procPc[h] = "run"
        => g \in disowned \/ h \in disowned

\* A helper's command runs only after it has passed m_CheckRunning.
NotStarted ==
    \A h \in Helpers :
        helperPc[h] \in {"queued", "signal", "guard", "spawn", "answered",
                        "remoteSignal", "remoteClear"} => procPc[h] = "none"

\* The inductive form of NoOverlap: the flag has one owner at a time.
Ownership ==
    \A g, h \in Helpers :
        Owner(g) /\ g \notin disowned =>
            /\ checkRunning[helperObj[g]]
            /\ Owner(h) /\ h \notin disowned /\ helperObj[h] = helperObj[g] => g = h

\* After Stop() has returned no check result of this component is processed.
QuietAfterStop ==
    stopPc = "returned" =>
        schedPc = "done" /\ \A h \in Helpers : procPc[h] # "process"

\* The inductive form of QuietAfterStop: the wait group was joined on the way.
StopOrder == stopPc \in {"thread", "returned"} => joined

\* A forced check of an object that stays with this node is dispatched, whatever
\* the other objects do.  (An endless stream of results or of event::SetNextCheck
\* from others postpones it.)
ForcedCheckRuns ==
    \A c \in LocalZone :
        <>[][~PassiveResult(c) /\ ~EndpointResult(c) /\ ~PeerNextCheck(c)]_vars =>
            ((forceNextCheck[c] /\ Authoritative(c))
                ~> (~forceNextCheck[c] \/ ~Authoritative(c) \/ stopped))

\* Stop() returns.
StopReturns == stopPc = "join" ~> stopPc = "returned"
=============================================================================

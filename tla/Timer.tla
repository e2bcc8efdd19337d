------------------------------- MODULE Timer -------------------------------
(***************************************************************************)
(* icinga::Timer (lib/base/timer.cpp): one thread sleeps until the earliest *)
(* of the registered timers is due, takes it out of the set and has the     *)
(* thread pool call it; the call puts it back. One mutex and one condition  *)
(* variable serve the thread and everybody who waits in Stop(true). Times   *)
(* are relative to the clock: left[t] is m_Next minus now. The thread is    *)
(* started with the first timer and ends with the last one; a Background    *)
(* timer, once started, keeps it running.                                   *)
(***************************************************************************)
EXTENDS Integers, FiniteSets

CONSTANTS Timers,
          Background,   \* periodic timers nobody stops or reschedules
          Period,       \* the interval of periodic timers
          MaxJump,      \* bound: by how much the clock may be set
          MaxSet        \* bound: how often it is set

ASSUME TimerAssumption ==
    /\ IsFiniteSet(Timers)
    /\ Background \subseteq Timers
    /\ Period \in Nat \ {0}
    /\ MaxJump \in Nat /\ MaxSet \in Nat

VARIABLES started,    \* timers with m_Started
          running,    \* timers with m_Running
          registered, \* l_Timers
          interval,   \* m_Interval, 0 for a timer that is not periodic
          left,       \* m_Next - now
          thread,     \* TimerThreadProc: "none", "awake" or "asleep"
          deadline,   \* what wait_until waits for, relative to now; Forever if awake
          call,       \* call[t]: the Call() the thread pool has for t
          stopping,   \* stopping[t]: where a thread in t.Stop(true) is
          jumped,     \* a change of the clock RunEventLoop has yet to see
          jumps,      \* how often the clock was set
          quiet       \* timers whose Stop(true) returned, not started since

timerVars == <<started, running, registered, interval, left, thread, deadline, call,
               stopping, jumped, jumps, quiet>>

Latest   == Period + MaxSet * MaxJump
\* Bound: how late the thread may be for a registered timer. Times before it
\* are not told apart for the timers that are not registered.
Earliest == -(MaxJump + 1)
Clamp(n) == IF n < Earliest THEN Earliest ELSE n
Forever  == Latest + 1

TimerInit ==
    /\ started = {}
    /\ running = {}
    /\ registered = {}
    /\ interval = [t \in Timers |-> IF t \in Background THEN Period ELSE 0]
    /\ left = interval
    /\ thread = "none"
    /\ deadline = Forever
    /\ call = [t \in Timers |-> "none"]
    /\ stopping = [t \in Timers |-> "no"]
    /\ jumped = 0
    /\ jumps = 0
    /\ quiet = {}

Abs(n) == IF n < 0 THEN -n ELSE n

Notified(status) == IF status = "asleep" THEN "awake" ELSE status

\* notify_one() reaches the thread.
NotifyThread ==
    /\ thread' = "awake" /\ deadline' = Forever
    /\ UNCHANGED stopping

\* l_TimerCV.notify_all(); the first timer that is started also starts the thread.
NotifyAll ==
    /\ thread' = "awake" /\ deadline' = Forever
    /\ stopping' = [t \in Timers |-> Notified(stopping[t])]

\* InternalRescheduleUnlocked, with the flags as its caller left them: a call
\* that completed, and the next time, or none to let the interval decide.
Unset == Latest + 2
InternalReschedule(t, completed, next, on) ==
    LET busy == IF completed THEN running \ {t} ELSE running
    IN /\ running' = busy
       /\ IF next = Unset /\ interval[t] = 0
            THEN UNCHANGED <<left, registered, thread, deadline, stopping>>
            ELSE /\ left' = [left EXCEPT ![t] = IF next = Unset THEN interval[t] ELSE next]
                 /\ IF t \in on \ busy
                      THEN registered' = registered \cup {t} /\ NotifyAll
                      ELSE UNCHANGED <<registered, thread, deadline, stopping>>

-----------------------------------------------------------------------------
(* Calls from any thread, from a callback too.                              *)

SetInterval(t, n) ==
    /\ interval' = [interval EXCEPT ![t] = n]
    /\ UNCHANGED <<started, running, registered, left, thread, deadline, call,
                   stopping, jumped, jumps, quiet>>

\* Whoever starts a timer without an interval has set its time.
Start(t) ==
    /\ stopping[t] = "no"
    /\ interval[t] > 0 \/ left[t] >= 0
    /\ started' = started \cup {t}
    /\ quiet' = quiet \ {t}
    /\ InternalReschedule(t, FALSE, IF interval[t] > 0 THEN Unset ELSE left[t], started')
    /\ UNCHANGED <<interval, call, jumped, jumps>>

\* Stop(true) does not wait for a call that runs.
StopAtOnce(t, wait) ==
    /\ stopping[t] = "no"
    /\ started' = started \ {t}
    /\ registered' = registered \ {t}
    /\ thread' = "awake" /\ deadline' = Forever
    /\ stopping' = [s \in Timers |-> Notified(stopping[s])]
    /\ quiet' = IF wait THEN quiet \cup {t} ELSE quiet
    /\ UNCHANGED <<interval, running, left, call, jumped, jumps>>

Stop(t, wait) ==
    /\ stopping[t] = "no"
    /\ started' = started \ {t}
    /\ registered' = registered \ {t}
    /\ thread' = "awake" /\ deadline' = Forever
    /\ stopping' = [s \in Timers |-> IF s = t /\ wait /\ t \in running
                                    THEN "asleep" ELSE Notified(stopping[s])]
    /\ quiet' = IF wait /\ t \notin running THEN quiet \cup {t} ELSE quiet
    /\ UNCHANGED <<interval, running, left, call, jumped, jumps>>

\* The loop around l_TimerCV.wait() in Stop(true).
StopRetry(t) ==
    /\ stopping[t] = "awake"
    /\ stopping' = [stopping EXCEPT ![t] = IF t \in running THEN "asleep" ELSE "no"]
    /\ quiet' = IF t \in running \cup started THEN quiet ELSE quiet \cup {t}
    /\ UNCHANGED <<interval, started, running, registered, left, thread, deadline, call,
                   jumped, jumps>>

\* Reschedule(0), and the time of a one-shot timer.
Reschedule(t, next) ==
    /\ InternalReschedule(t, FALSE, next, started)
    /\ UNCHANGED <<interval, started, call, jumped, jumps, quiet>>

-----------------------------------------------------------------------------
(* TimerThreadProc.                                                         *)

First(t) == t \in registered /\ \A s \in registered : left[t] <= left[s]

ThreadWait ==
    /\ thread = "awake"
    /\ \/ registered = {} /\ deadline' = Forever
       \/ \E t \in registered : First(t) /\ left[t] > 0 /\ deadline' = left[t]
    /\ thread' = "asleep"
    /\ UNCHANGED <<interval, started, running, registered, left, call, stopping, jumped,
                   jumps, quiet>>

ThreadTimeout ==
    /\ thread = "asleep"
    /\ deadline <= 0
    /\ thread' = "awake" /\ deadline' = Forever
    /\ UNCHANGED <<interval, started, running, registered, left, call, stopping,
                   jumped, jumps, quiet>>

ThreadCall ==
    /\ thread = "awake"
    /\ \E t \in registered :
          /\ First(t)
          /\ left[t] <= 0
          /\ registered' = registered \ {t}
          /\ running' = running \cup {t}
          /\ call' = [call EXCEPT ![t] = "queued"]
    /\ UNCHANGED <<interval, started, left, thread, deadline, stopping, jumped, jumps, quiet>>

\* Call(): the callback starts, and ends or throws.
CallBegin(t) ==
    /\ call[t] = "queued"
    /\ call' = [call EXCEPT ![t] = "called"]
    /\ UNCHANGED <<interval, started, running, registered, left, thread, deadline, stopping,
                   jumped, jumps, quiet>>

CallEnd(t) ==
    /\ call[t] = "called"
    /\ call' = [call EXCEPT ![t] = "none"]
    /\ InternalReschedule(t, TRUE, Unset, started)
    /\ UNCHANGED <<interval, started, jumped, jumps, quiet>>

-----------------------------------------------------------------------------
(* The clock.                                                               *)

Shift(n) ==
    /\ \A t \in registered : left[t] - n >= Earliest
    /\ left' = [t \in Timers |-> Clamp(left[t] - n)]
    /\ deadline' = IF deadline = Forever THEN Forever ELSE Clamp(deadline - n)

Tick ==
    /\ thread # "none"
    /\ Shift(1)
    /\ UNCHANGED <<interval, started, running, registered, thread, call, stopping, jumped,
                   jumps, quiet>>

\* Somebody sets the system clock.
SetClock(n) ==
    /\ thread # "none"
    /\ jumps < MaxSet
    /\ jumped = 0
    /\ Shift(n)
    /\ jumped' = n
    /\ jumps' = jumps + 1
    /\ UNCHANGED <<interval, started, running, registered, thread, call, stopping, quiet>>

\* The index is not told that timers moved.
AdjustTimersSilently ==
    /\ jumped # 0
    /\ left' = [t \in Timers |->
                   IF /\ t \in registered /\ interval[t] > 0
                      /\ Abs(left[t] + jumped) < Abs(left[t])
                     THEN left[t] + jumped ELSE left[t]]
    /\ jumped' = 0
    /\ UNCHANGED <<interval, started, running, registered, thread, deadline, call, stopping,
                   jumps, quiet>>

\* RunEventLoop notices, and AdjustTimers moves the periodic timers that come
\* closer to now by it.
AdjustTimers ==
    /\ jumped # 0
    /\ left' = [t \in Timers |->
                   IF /\ t \in registered /\ interval[t] > 0
                      /\ Abs(left[t] + jumped) < Abs(left[t])
                     THEN left[t] + jumped ELSE left[t]]
    /\ jumped' = 0
    /\ NotifyAll
    /\ UNCHANGED <<interval, started, running, registered, call, jumps, quiet>>

-----------------------------------------------------------------------------
TimerCalls(t) ==
    \/ Start(t)
    \/ \E n \in {0, Period} : SetInterval(t, n)
    \/ \E wait \in BOOLEAN : Stop(t, wait)
    \/ \E next \in 0 .. 1 : Reschedule(t, next)

TimerNext ==
    \/ \E t \in Background \ started : Start(t)
    \/ Background \subseteq started /\ \E t \in Timers \ Background : TimerCalls(t)
    \/ \E t \in Timers : StopRetry(t) \/ CallBegin(t) \/ CallEnd(t)
    \/ ThreadWait \/ ThreadTimeout \/ ThreadCall
    \/ Tick \/ AdjustTimers
    \/ \E n \in {-MaxJump, MaxJump} : SetClock(n)

(* The clock advances, the thread pool runs what it was given, callbacks    *)
(* end, and threads that are not in a wait get to run.                      *)
TimerFairness ==
    /\ WF_timerVars(Tick)
    /\ WF_timerVars(ThreadWait \/ ThreadTimeout \/ ThreadCall)
    /\ WF_timerVars(AdjustTimers)
    /\ \A t \in Timers : /\ WF_timerVars(CallBegin(t) \/ CallEnd(t))
                          /\ WF_timerVars(StopRetry(t))

TimerSpec == TimerInit /\ [][TimerNext]_timerVars /\ TimerFairness

-----------------------------------------------------------------------------
\* Every variable has its type (Timer's members and the statics of timer.cpp).
TimerTypeOK ==
    /\ started \subseteq Timers /\ running \subseteq Timers
    /\ registered \subseteq Timers /\ quiet \subseteq Timers
    /\ interval \in [Timers -> {0, Period}]
    /\ left \in [Timers -> Earliest .. Latest]
    /\ thread \in {"none", "awake", "asleep"}
    /\ deadline \in Earliest .. Forever
    /\ call \in [Timers -> {"none", "queued", "called"}]
    /\ stopping \in [Timers -> {"no", "awake", "asleep"}]
    /\ jumped \in -MaxJump .. MaxJump
    /\ jumps \in 0 .. MaxSet

(* What Pause() and destructors rely on: once Stop(true) has returned and   *)
(* until the timer is started again, its callback neither runs nor is going *)
(* to, although calls are asynchronous and reschedule the timer themselves. *)
(* And a timer is never called by two threads at once: while a call is      *)
(* queued or executed it is not registered, whoever reschedules it.         *)
StopIsFinal ==
    /\ \A t \in quiet : call[t] = "none" /\ t \notin registered
    /\ \A t \in Timers : /\ t \in running <=> call[t] # "none"
                         /\ t \in running => t \notin registered

(* The thread never sleeps past a registered timer: no timer is added,      *)
(* moved forward or adjusted to a changed clock without waking the thread.  *)
NoOversleep ==
    thread = "asleep" => \A t \in registered : deadline <= left[t]

(* Stop(true) returns once the call it waits for has ended. That call does  *)
(* not notify the condition variable, as the timer is no longer started:    *)
(* the activity of other timers does.                                       *)
TimerStopReturns == \A t \in Timers : stopping[t] # "no" ~> stopping[t] = "no"

=============================================================================

----------------------------- MODULE WorkQueue -----------------------------
(***************************************************************************)
(* icinga::WorkQueue (lib/base/workqueue.cpp): a priority queue of tasks    *)
(* behind one mutex and three condition variables. Producers wait on        *)
(* m_CVFull while the queue is at its limit, worker threads on m_CVEmpty,   *)
(* and Join() on m_CVStarved. Everything a thread does between taking the   *)
(* mutex and releasing it, or waiting, is one action. A thread "sleeps" in  *)
(* a wait and is "awake" once it was notified and has yet to take the       *)
(* mutex; a spurious wake-up only evaluates the same loop condition again.  *)
(***************************************************************************)
EXTENDS Naturals, FiniteSets

CONSTANTS Tasks,        \* tasks the queue is ever given
          Priority,     \* their WorkQueuePriority
          Parent,       \* Parent[t]: the task whose function enqueues t, or NoTask
          Interleaved,  \* enqueued with allowInterleaved
          Throwing,     \* tasks whose function throws
          Threads,      \* the worker threads (m_ThreadCount)
          Producers,    \* threads outside the queue that enqueue
          MaxItems,     \* m_MaxItems, 0 for no limit
          NoTask

ASSUME WorkQueueAssumption ==
    /\ NoTask \notin Tasks
    /\ Priority \in [Tasks -> Nat]
    /\ Parent \in [Tasks -> Tasks \cup {NoTask}]
    /\ Interleaved \subseteq Tasks
    /\ Throwing \subseteq Tasks
    /\ IsFiniteSet(Threads)
    /\ IsFiniteSet(Tasks)
    /\ MaxItems \in Nat

VARIABLES tasks,       \* m_Tasks
          taskID,      \* Task::ID, 0 before the task is enqueued
          nextTaskID,  \* m_NextTaskID
          processing,  \* m_Processing
          spawned,     \* m_Spawned
          stopped,     \* m_Stopped
          exceptions,  \* m_Exceptions
          worker,      \* worker[w]: where the thread is in WorkerThreadProc
          task,        \* task[w]: the task it executes
          producer,    \* producer[p]: where the thread is in EnqueueUnlocked
          item,        \* item[p]: what it enqueues
          join,        \* where the caller of Join() is
          due,         \* the tasks Join() found in the queue or in execution
          done         \* the tasks whose function returned or threw

wqVars == <<tasks, taskID, nextTaskID, processing, spawned, stopped, exceptions,
            worker, task, producer, item, join, due, done>>

queueVars   == <<tasks, taskID, nextTaskID>>
workerVars  == <<worker, task, processing, exceptions, done>>
joinVars    == <<join, due, stopped>>

WorkQueueInit ==
    /\ tasks = {}
    /\ taskID = [t \in Tasks |-> 0]
    /\ nextTaskID = 0
    /\ processing = 0
    /\ spawned = FALSE
    /\ stopped = FALSE
    /\ exceptions = {}
    /\ worker = [w \in Threads |-> "none"]
    /\ task = [w \in Threads |-> NoTask]
    /\ producer = [p \in Producers |-> "out"]
    /\ item = [p \in Producers |-> NoTask]
    /\ join = "out"
    /\ due = {}
    /\ done = {}

-----------------------------------------------------------------------------
AtLimit == MaxItems # 0 /\ Cardinality(tasks) >= MaxItems

\* The youngest of equals goes first.
TopNewest(t) ==
    /\ t \in tasks
    /\ \A s \in tasks \ {t} :
          \/ Priority[s] < Priority[t]
          \/ Priority[s] = Priority[t] /\ taskID[s] < taskID[t]

\* operator<: std::priority_queue pops the largest, the lowest ID among equals.
Top(t) ==
    /\ t \in tasks
    /\ \A s \in tasks \ {t} :
          \/ Priority[s] < Priority[t]
          \/ Priority[s] = Priority[t] /\ taskID[s] > taskID[t]

Woken(status) == IF status = "asleep" THEN "awake" ELSE status
NotifyAllProducers == [p \in Producers |-> Woken(producer[p])]

\* m_Tasks.emplace() and m_CVEmpty.notify_one(), given where the workers are.
Insert(t, where) ==
    LET asleep == {w \in Threads : where[w] = "asleep"}
    IN /\ tasks' = tasks \cup {t}
       /\ nextTaskID' = nextTaskID + 1
       /\ taskID' = [taskID EXCEPT ![t] = nextTaskID + 1]
       /\ \/ asleep = {} /\ worker' = where
          \/ \E w \in asleep : worker' = [where EXCEPT ![w] = "awake"]

Spawned == IF spawned THEN worker ELSE [w \in Threads |-> "awake"]

-----------------------------------------------------------------------------
(* A producer: Enqueue from a thread that is not a worker of this queue.    *)

\* Nobody enqueues into a queue that is being destroyed.
Alive == join \notin {"joining", "gone"}

Enqueue(p, t) ==
    /\ Alive
    /\ producer[p] = "out"
    /\ Parent[t] = NoTask
    /\ taskID[t] = 0
    /\ \A q \in Producers : item[q] # t
    /\ spawned' = TRUE
    /\ IF AtLimit
         THEN /\ producer' = [producer EXCEPT ![p] = "asleep"]
              /\ item' = [item EXCEPT ![p] = t]
              /\ worker' = Spawned
              /\ UNCHANGED queueVars
         ELSE /\ Insert(t, Spawned)
              /\ UNCHANGED <<producer, item>>
    /\ UNCHANGED <<task, processing, exceptions, done, joinVars>>

\* The loop around m_CVFull.wait() evaluates its condition again.
EnqueueRetry(p) ==
    /\ producer[p] = "awake"
    /\ IF AtLimit
         THEN /\ producer' = [producer EXCEPT ![p] = "asleep"]
              /\ UNCHANGED <<item, worker, queueVars>>
         ELSE /\ Insert(item[p], worker)
              /\ producer' = [producer EXCEPT ![p] = "out"]
              /\ item' = [item EXCEPT ![p] = NoTask]
    /\ UNCHANGED <<task, processing, exceptions, done, spawned, joinVars>>

-----------------------------------------------------------------------------
(* WorkerThreadProc.                                                        *)

WorkerWait(w) ==
    /\ worker[w] = "awake"
    /\ tasks = {} /\ ~stopped
    /\ worker' = [worker EXCEPT ![w] = "asleep"]
    /\ UNCHANGED <<queueVars, task, processing, exceptions, done, spawned,
                   producer, item, joinVars>>

WorkerExit(w) ==
    /\ worker[w] = "awake"
    /\ stopped
    /\ worker' = [worker EXCEPT ![w] = "gone"]
    /\ UNCHANGED <<queueVars, task, processing, exceptions, done, spawned,
                   producer, item, joinVars>>

\* The limit is tested after the task was taken.
WorkerTakeLate(w) ==
    /\ worker[w] = "awake"
    /\ ~stopped
    /\ \E t \in tasks :
          /\ Top(t)
          /\ task' = [task EXCEPT ![w] = t]
          /\ tasks' = tasks \ {t}
    /\ producer' = IF MaxItems # 0 /\ Cardinality(tasks') >= MaxItems
                   THEN NotifyAllProducers ELSE producer
    /\ processing' = processing + 1
    /\ worker' = [worker EXCEPT ![w] = "run"]
    /\ UNCHANGED <<taskID, nextTaskID, exceptions, done, spawned, item, joinVars>>

WorkerTake(w) ==
    /\ worker[w] = "awake"
    /\ ~stopped
    /\ \E t \in tasks :
          /\ Top(t)
          /\ task' = [task EXCEPT ![w] = t]
          /\ tasks' = tasks \ {t}
    /\ producer' = IF AtLimit THEN NotifyAllProducers ELSE producer
    /\ processing' = processing + 1
    /\ worker' = [worker EXCEPT ![w] = "run"]
    /\ UNCHANGED <<taskID, nextTaskID, exceptions, done, spawned, item, joinVars>>

\* The running function enqueues a task of its own: it is not held back by the
\* limit, and a task that may be interleaved is called instead.
WorkerEnqueue(w, t) ==
    /\ worker[w] = "run"
    /\ Parent[t] = task[w]
    /\ taskID[t] = 0 /\ t \notin done
    /\ IF t \in Interleaved
         THEN /\ done' = done \cup {t}
              /\ UNCHANGED <<queueVars, worker>>
         ELSE /\ Insert(t, worker)
              /\ UNCHANGED done
    /\ UNCHANGED <<task, processing, exceptions, spawned, producer, item, joinVars>>

\* RunTaskFunction: without a callback an exception is kept, and the thread
\* goes on as after a function that returned.
RunTaskFunction(w) ==
    /\ worker[w] = "run"
    /\ \A t \in Tasks : Parent[t] = task[w] => taskID[t] # 0 \/ t \in done
    /\ exceptions' = exceptions \cup ({task[w]} \cap Throwing)
    /\ done' = done \cup {task[w]}
    /\ task' = [task EXCEPT ![w] = NoTask]
    /\ worker' = [worker EXCEPT ![w] = "ran"]
    /\ UNCHANGED <<queueVars, processing, spawned, producer, item, joinVars>>

WorkerReturn(w) ==
    /\ worker[w] = "ran"
    /\ processing' = processing - 1
    /\ worker' = [worker EXCEPT ![w] = "awake"]
    /\ join' = IF tasks = {} THEN Woken(join) ELSE join
    /\ UNCHANGED <<queueVars, task, exceptions, done, spawned, producer, item,
                   stopped, due>>

-----------------------------------------------------------------------------
(* Join(), from a thread that is not a worker; Destroy is ~WorkQueue.       *)

\* Tasks in execution do not count.
QueueNotEmpty == tasks # {}

Busy == processing # 0 \/ tasks # {}

Join ==
    /\ join \in {"out", "awake"}
    /\ due' = IF join = "out" THEN (tasks \cup {task[w] : w \in Threads}) \ {NoTask}
              ELSE due
    /\ join' = IF Busy THEN "asleep" ELSE "returned"
    /\ UNCHANGED <<queueVars, workerVars, spawned, producer, item, stopped>>

JoinAgain ==
    /\ join = "returned"
    /\ join' = "out"
    /\ due' = {}
    /\ UNCHANGED <<queueVars, workerVars, spawned, producer, item, stopped>>

\* ~WorkQueue: Join(true). Its users destroy a queue they no longer share.
Destroy ==
    /\ join = "returned"
    /\ \A p \in Producers : producer[p] = "out"
    /\ ~Busy
    /\ stopped' = TRUE
    /\ worker' = [w \in Threads |-> Woken(worker[w])]
    /\ join' = "joining"
    /\ UNCHANGED <<queueVars, task, processing, exceptions, done, spawned,
                   producer, item, due>>

\* m_Threads.join_all()
Destroyed ==
    /\ join = "joining"
    /\ \A w \in Threads : worker[w] \in {"none", "gone"}
    /\ spawned' = FALSE
    /\ join' = "gone"
    /\ UNCHANGED <<queueVars, workerVars, producer, item, stopped, due>>

-----------------------------------------------------------------------------
WorkerNext(w) ==
    \/ WorkerWait(w)
    \/ WorkerExit(w)
    \/ WorkerTake(w)
    \/ \E t \in Tasks : WorkerEnqueue(w, t)
    \/ RunTaskFunction(w)
    \/ WorkerReturn(w)

ProducerNext(p) == EnqueueRetry(p) \/ \E t \in Tasks : Enqueue(p, t)

WorkQueueNext ==
    \/ \E w \in Threads : WorkerNext(w)
    \/ \E p \in Producers : ProducerNext(p)
    \/ Join \/ JoinAgain \/ Destroy \/ Destroyed

(* A thread that is neither in a wait nor stopped gets to run; nobody has   *)
(* to enqueue, to call Join() or to destroy the queue.                      *)
WorkQueueFairness ==
    /\ \A w \in Threads : WF_wqVars(WorkerNext(w))
    /\ \A p \in Producers : WF_wqVars(EnqueueRetry(p))
    /\ WF_wqVars(join = "awake" /\ Join)
    /\ WF_wqVars(Destroyed)

WorkQueueSpec == WorkQueueInit /\ [][WorkQueueNext]_wqVars /\ WorkQueueFairness

-----------------------------------------------------------------------------
Statuses == {"none", "awake", "asleep", "run", "ran", "gone"}

\* Every variable has its type (WorkQueue's members).
WQTypeOK ==
    /\ tasks \subseteq Tasks
    /\ taskID \in [Tasks -> Nat]
    /\ nextTaskID \in Nat
    /\ processing \in Nat
    /\ spawned \in BOOLEAN /\ stopped \in BOOLEAN
    /\ exceptions \subseteq Throwing
    /\ worker \in [Threads -> Statuses]
    /\ task \in [Threads -> Tasks \cup {NoTask}]
    /\ producer \in [Producers -> {"out", "awake", "asleep"}]
    /\ item \in [Producers -> Tasks \cup {NoTask}]
    /\ join \in {"out", "awake", "asleep", "returned", "joining", "gone"}
    /\ due \subseteq Tasks
    /\ done \subseteq Tasks

(* No thread waits for what has already happened. EnqueueUnlocked notifies  *)
(* one worker only, so while a worker sleeps there is an awake one for      *)
(* every task in the queue; a producer sleeps only while the queue is at    *)
(* its limit, even when workers pushed it beyond (m_CVFull is notified      *)
(* before a task is taken, never after); Join() sleeps only while there is  *)
(* work (m_CVStarved is notified by every worker that finds no more tasks). *)
NoLostWakeup ==
    /\ (\E w \in Threads : worker[w] = "asleep")
          => Cardinality(tasks) <= Cardinality({w \in Threads : worker[w] = "awake"})
    /\ (\E p \in Producers : producer[p] = "asleep") => AtLimit
    /\ join = "asleep" => Busy

(* What Join() promises ("Waits until all currently enqueued tasks have     *)
(* completed"): when it returns, every task that was in the queue or in     *)
(* execution when it was called has been executed, those that threw and the *)
(* ones they enqueued included.                                             *)
JoinWaits ==
    join \in {"returned", "joining", "gone"} =>
        \A t \in due : t \in done /\ \A c \in Tasks : Parent[c] = t => c \in done

-----------------------------------------------------------------------------
Pool == INSTANCE TaskPool WITH
            waiting  <- tasks,
            started  <- {task[w] : w \in Threads} \ {NoTask},
            finished <- done,
            ticket   <- taskID

(* The queue implements TaskPool: with any number of workers and a limit,   *)
(* every enqueued task is executed exactly once, started in the order of    *)
(* priority and age, and none is left behind, whichever thread enqueues it. *)
ImplementsTaskPool == Pool!PoolSpec

=============================================================================

---------------------------- MODULE RuntimeProofs ----------------------------
(***************************************************************************)
(* What everything else runs on, for any number of tasks, threads,          *)
(* coroutines, slots, timers and workers: no wake-up of the work queue is   *)
(* lost, Join() waits for what it found and every step of the queue is one  *)
(* of TaskPool (lib/base/workqueue.cpp); no coroutine that waits for a slot *)
(* is forgotten (lib/base/io-engine.cpp); a stopped timer stays silent and  *)
(* the timer thread never oversleeps, whatever the clock does               *)
(* (lib/base/timer.cpp); one worker of the daemon runs at a time and knows  *)
(* what the ones before have created (lib/cli/daemoncommand.cpp).           *)
(***************************************************************************)
EXTENDS WorkQueue, CpuBoundWork, Timer, Daemon, FiniteSetTheorems, TLAPS

-----------------------------------------------------------------------------
(* The work queue                                                          *)

Awake == {w \in Threads : worker[w] \in {"awake"}}
Executing == {w \in Threads : worker[w] \in {"run", "ran"}}

\* A task is in the queue, is executed by one thread or is done, in this order; only a
\* task that is called at once by its parent is done without having been in the queue.
EachOnce ==
    /\ \A t \in Tasks : taskID[t] <= nextTaskID
    /\ \A t \in tasks : taskID[t] # 0 /\ t \notin done
    /\ \A w \in Threads : worker[w] = "run" <=> task[w] # NoTask
    /\ \A w \in Threads : task[w] # NoTask => /\ taskID[task[w]] # 0
                                              /\ task[w] \notin tasks \cup done
    /\ \A v, w \in Threads : v # w /\ task[v] = task[w] => task[v] = NoTask
    /\ \A t \in Tasks : taskID[t] # 0 => t \in tasks \cup done \/ \E w \in Threads : task[w] = t
    /\ \A t \in done : taskID[t] # 0 \/ Parent[t] # NoTask

\* What a producer waits to enqueue was not enqueued, by it or another one.
ItemsKept ==
    /\ \A p \in Producers : producer[p] = "out" <=> item[p] = NoTask
    /\ \A p \in Producers : item[p] # NoTask => taskID[item[p]] = 0 /\ Parent[item[p]] = NoTask
    /\ \A p, q \in Producers : p # q /\ item[p] = item[q] => item[p] = NoTask

\* A task that was executed has enqueued what it enqueues.
ChildrenEnqueued ==
    \A t \in done : taskID[t] # 0 =>
        \A c \in Tasks : Parent[c] = t => taskID[c] # 0 \/ c \in done

\* m_Processing counts the threads between taking a task and being back.
Counted == processing = Cardinality(Executing)

\* No thread before the queue is used, none asleep while it is destroyed, and Join()
\* waits for tasks that were enqueued.
ThreadsOK ==
    /\ ~spawned => \A w \in Threads : worker[w] \in {"none", "gone"}
    /\ stopped => \A w \in Threads : worker[w] # "asleep"
    /\ \A t \in due : taskID[t] # 0

QueueInv == /\ WQTypeOK /\ EachOnce /\ ItemsKept /\ ChildrenEnqueued /\ Counted /\ ThreadsOK
            /\ NoLostWakeup /\ JoinWaits

-----------------------------------------------------------------------------
\* A thread that is or is not in a set of threads, and is or is not in it after a step,
\* makes the set larger or smaller by one at most.
LEMMA OneMoves ==
    ASSUME NEW A \in SUBSET Threads, NEW w \in Threads, NEW stays \in BOOLEAN
    PROVE  LET B == IF stays THEN (A \ {w}) \cup {w} ELSE A \ {w}
           IN /\ Cardinality(A) \in Nat
              /\ Cardinality(B) = Cardinality(A) + (IF stays THEN 1 ELSE 0)
                                                 - (IF w \in A THEN 1 ELSE 0)
<1>1. IsFiniteSet(A) /\ IsFiniteSet(A \ {w})
  BY FS_Subset, WorkQueueAssumption
<1>2. /\ Cardinality(A) \in Nat
      /\ Cardinality(A \ {w}) \in Nat
  BY <1>1, FS_CardinalityType
<1>3. Cardinality(A \ {w}) = Cardinality(A) - (IF w \in A THEN 1 ELSE 0)
  BY <1>1, <1>2, FS_RemoveElement
<1>4. Cardinality((A \ {w}) \cup {w}) = Cardinality(A \ {w}) + 1
  BY <1>1, FS_AddElement
<1> QED
  BY <1>2, <1>3, <1>4

\* When one thread moves on, the number of threads that are awake, and of those that
\* execute a task, changes accordingly.
LEMMA ThreadMoves ==
    ASSUME WQTypeOK, NEW w \in Threads, NEW place \in Statuses,
           worker' = [worker EXCEPT ![w] = place]
    PROVE  /\ Cardinality(Awake) \in Nat /\ Cardinality(Executing) \in Nat
           /\ Cardinality(Awake') = Cardinality(Awake) + (IF place = "awake" THEN 1 ELSE 0)
                                                       - (IF worker[w] = "awake" THEN 1 ELSE 0)
           /\ Cardinality(Executing') = Cardinality(Executing)
                                        + (IF place \in {"run", "ran"} THEN 1 ELSE 0)
                                        - (IF worker[w] \in {"run", "ran"} THEN 1 ELSE 0)
<1> DEFINE awakes == place = "awake"
           works == place \in {"run", "ran"}
<1>1. /\ Awake \in SUBSET Threads /\ (w \in Awake <=> worker[w] = "awake")
      /\ Awake' = IF awakes THEN (Awake \ {w}) \cup {w} ELSE Awake \ {w}
  BY DEF Awake, WQTypeOK
<1>2. /\ Executing \in SUBSET Threads /\ (w \in Executing <=> worker[w] \in {"run", "ran"})
      /\ Executing' = IF works THEN (Executing \ {w}) \cup {w} ELSE Executing \ {w}
  BY DEF Executing, WQTypeOK
<1>3. awakes \in BOOLEAN /\ works \in BOOLEAN
  OBVIOUS
<1> HIDE DEF awakes, works
<1>4. /\ Cardinality(Awake) \in Nat
      /\ Cardinality(Awake') = Cardinality(Awake) + (IF awakes THEN 1 ELSE 0)
                                                  - (IF w \in Awake THEN 1 ELSE 0)
  BY <1>1, <1>3, OneMoves
<1>5. /\ Cardinality(Executing) \in Nat
      /\ Cardinality(Executing') = Cardinality(Executing) + (IF works THEN 1 ELSE 0)
                                                          - (IF w \in Executing THEN 1 ELSE 0)
  BY <1>2, <1>3, OneMoves
<1> QED
  BY <1>1, <1>2, <1>4, <1>5 DEF awakes, works

\* The tasks of the queue are countable, and a task more or less changes their number by one.
LEMMA QueueSizes ==
    ASSUME WQTypeOK, NEW t \in Tasks
    PROVE  /\ Cardinality(tasks) \in Nat
           /\ t \notin tasks => Cardinality(tasks \cup {t}) = Cardinality(tasks) + 1
           /\ t \in tasks => Cardinality(tasks \ {t}) = Cardinality(tasks) - 1
<1>1. IsFiniteSet(tasks)
  BY FS_Subset, WorkQueueAssumption DEF WQTypeOK
<1> QED
  BY <1>1, FS_CardinalityType, FS_AddElement, FS_RemoveElement

\* The first part of NoLostWakeup, with the set the counting is about.
LEMMA WakeupCounted ==
    NoLostWakeup <=> /\ (\E w \in Threads : worker[w] = "asleep")
                           => Cardinality(tasks) <= Cardinality(Awake)
                     /\ (\E p \in Producers : producer[p] = "asleep") => AtLimit
                     /\ join = "asleep" => Busy
<1>1. Awake = {w \in Threads : worker[w] = "awake"}
  BY DEF Awake
<1> QED
  BY <1>1 DEF NoLostWakeup

\* And of the state after a step.
LEMMA WakeupCountedAfter ==
    NoLostWakeup' <=> /\ (\E w \in Threads : worker'[w] = "asleep")
                            => Cardinality(tasks') <= Cardinality(Awake')
                      /\ (\E p \in Producers : producer'[p] = "asleep") => AtLimit'
                      /\ join' = "asleep" => Busy'
<1>1. Awake' = {w \in Threads : worker'[w] = "awake"}
  BY DEF Awake
<1> QED
  BY <1>1 DEF NoLostWakeup

-----------------------------------------------------------------------------
\* What EnqueueUnlocked() does to the threads: it may start them and wakes one of those
\* that sleep.
LEMMA InsertWakes ==
    ASSUME WQTypeOK, ThreadsOK, NoLostWakeup, NEW t \in Tasks, t \notin tasks,
           NEW where, where = worker \/ where = Spawned, Insert(t, where)
    PROVE  /\ worker' \in [Threads -> Statuses]
           /\ Executing' = Executing
           /\ \A w \in Threads : worker'[w] = "run" <=> worker[w] = "run"
           /\ \A w \in Threads : where = worker /\ worker[w] # "asleep" => worker'[w] = worker[w]
           /\ \A w \in Threads : worker'[w] = "asleep" => worker[w] = "asleep"
           /\ (\E w \in Threads : worker'[w] = "asleep")
                 => Cardinality(tasks') <= Cardinality(Awake')
<1> USE DEF Statuses
<1>1. where \in [Threads -> Statuses]
  BY DEF WQTypeOK, Spawned
<1>2. CASE \A w \in Threads : where[w] # "asleep"
  <2>1. worker' = where
    BY <1>2 DEF Insert
  <2>2. \A w \in Threads : \/ where[w] = worker[w]
                           \/ where[w] = "awake" /\ worker[w] \in {"none", "gone"}
    BY DEF Spawned, ThreadsOK
  <2> QED
    BY <1>1, <1>2, <2>1, <2>2 DEF Executing
<1>3. CASE \E w \in Threads : where[w] = "asleep"
  <2>1. where = worker
    BY <1>3 DEF Spawned
  <2>2. PICK w \in Threads : worker[w] = "asleep" /\ worker' = [worker EXCEPT ![w] = "awake"]
    BY <1>3, <2>1 DEF Insert
  <2>3. /\ worker' \in [Threads -> Statuses]
        /\ Executing' = Executing
        /\ \A v \in Threads : worker'[v] = "run" <=> worker[v] = "run"
        /\ \A v \in Threads : where = worker /\ worker[v] # "asleep" => worker'[v] = worker[v]
        /\ \A v \in Threads : worker'[v] = "asleep" => worker[v] = "asleep"
    BY <2>2 DEF Executing, WQTypeOK
  <2>4. Cardinality(tasks') <= Cardinality(Awake')
    <3>1. Cardinality(Awake) \in Nat /\ Cardinality(Awake') = Cardinality(Awake) + 1
      <4>1. PICK place \in Statuses : place = "awake"
        OBVIOUS
      <4>2. /\ Cardinality(Awake) \in Nat
            /\ Cardinality(Awake') = Cardinality(Awake) + (IF place = "awake" THEN 1 ELSE 0)
                                     - (IF worker[w] = "awake" THEN 1 ELSE 0)
        BY <2>2, <4>1, ThreadMoves
      <4> QED
        BY <2>2, <4>1, <4>2
    <3>2. Cardinality(tasks) <= Cardinality(Awake)
      BY <2>2, WakeupCounted
    <3>3. Cardinality(tasks) \in Nat /\ Cardinality(tasks') = Cardinality(tasks) + 1
      BY QueueSizes DEF Insert
    <3> QED
      BY <3>1, <3>2, <3>3
  <2> QED
    BY <2>3, <2>4
<1> QED
  BY <1>2, <1>3

\* What EnqueueUnlocked() keeps, whoever calls it: all but what is said of producers.
LEMMA InsertStep ==
    ASSUME QueueInv, NEW t \in Tasks, taskID[t] = 0, t \notin done,
           NEW where, where = worker \/ where = Spawned, Insert(t, where),
           UNCHANGED <<task, processing, exceptions, done, joinVars>>
    PROVE  /\ tasks' = tasks \cup {t} /\ taskID' = [taskID EXCEPT ![t] = nextTaskID + 1]
           /\ tasks' \subseteq Tasks /\ taskID' \in [Tasks -> Nat] /\ nextTaskID' \in Nat
           /\ worker' \in [Threads -> Statuses]
           /\ EachOnce' /\ ChildrenEnqueued' /\ Counted' /\ JoinWaits'
           /\ \A w \in Threads : where = worker /\ worker[w] # "asleep" => worker'[w] = worker[w]
           /\ stopped' => \A w \in Threads : worker'[w] # "asleep"
           /\ \A s \in due' : taskID'[s] # 0
           /\ (\E w \in Threads : worker'[w] = "asleep")
                 => Cardinality(tasks') <= Cardinality(Awake')
           /\ AtLimit => AtLimit'
           /\ Busy'
<1> USE WorkQueueAssumption
<1>1. t \notin tasks /\ \A w \in Threads : task[w] # t
  BY DEF QueueInv, EachOnce
<1>2. /\ worker' \in [Threads -> Statuses]
      /\ Executing' = Executing
      /\ \A w \in Threads : worker'[w] = "run" <=> worker[w] = "run"
      /\ \A w \in Threads : where = worker /\ worker[w] # "asleep" => worker'[w] = worker[w]
      /\ \A w \in Threads : worker'[w] = "asleep" => worker[w] = "asleep"
      /\ (\E w \in Threads : worker'[w] = "asleep")
            => Cardinality(tasks') <= Cardinality(Awake')
  BY <1>1, InsertWakes DEF QueueInv
<1>3. /\ tasks' = tasks \cup {t} /\ taskID' = [taskID EXCEPT ![t] = nextTaskID + 1]
      /\ nextTaskID' = nextTaskID + 1
  BY DEF Insert
<1>4. /\ tasks' \subseteq Tasks /\ taskID' \in [Tasks -> Nat] /\ nextTaskID' \in Nat
      /\ taskID'[t] = nextTaskID + 1 /\ \A s \in Tasks \ {t} : taskID'[s] = taskID[s]
  BY <1>3 DEF QueueInv, WQTypeOK
<1>5. EachOnce'
  <2>1. \A s \in Tasks : taskID'[s] <= nextTaskID'
    BY <1>3, <1>4 DEF QueueInv, WQTypeOK, EachOnce
  <2>2. \A s \in tasks' : taskID'[s] # 0 /\ s \notin done'
    BY <1>3, <1>4 DEF QueueInv, WQTypeOK, EachOnce
  <2>3. \A w \in Threads : worker'[w] = "run" <=> task'[w] # NoTask
    BY <1>2 DEF QueueInv, EachOnce
  <2>4. \A w \in Threads : task'[w] # NoTask => /\ taskID'[task'[w]] # 0
                                                /\ task'[w] \notin tasks' \cup done'
    BY <1>1, <1>3, <1>4 DEF QueueInv, WQTypeOK, EachOnce
  <2>5. \A v, w \in Threads : v # w /\ task'[v] = task'[w] => task'[v] = NoTask
    BY DEF QueueInv, EachOnce
  <2>6. \A s \in Tasks : taskID'[s] # 0
                            => s \in tasks' \cup done' \/ \E w \in Threads : task'[w] = s
    BY <1>3, <1>4 DEF QueueInv, WQTypeOK, EachOnce
  <2>7. \A s \in done' : taskID'[s] # 0 \/ Parent[s] # NoTask
    BY <1>4 DEF QueueInv, WQTypeOK, EachOnce
  <2> QED
    BY <2>1, <2>2, <2>3, <2>4, <2>5, <2>6, <2>7 DEF EachOnce
<1>6. ChildrenEnqueued'
  BY <1>4 DEF QueueInv, WQTypeOK, ChildrenEnqueued
<1>7. Counted' /\ JoinWaits'
  BY <1>2 DEF QueueInv, Counted, JoinWaits, joinVars
<1>8. stopped' => \A w \in Threads : worker'[w] # "asleep"
  BY <1>2 DEF QueueInv, ThreadsOK, joinVars
<1>9. \A s \in due' : taskID'[s] # 0
  BY <1>4 DEF QueueInv, WQTypeOK, ThreadsOK, joinVars
<1>10. AtLimit => AtLimit'
  BY <1>1, <1>3, QueueSizes DEF QueueInv, AtLimit
<1>11. Busy'
  BY <1>3 DEF Busy
<1> QED
  BY <1>2, <1>3, <1>4, <1>5, <1>6, <1>7, <1>8, <1>9, <1>10, <1>11

\* Enqueue() from a thread that is not a worker, and the loop it waits in.
LEMMA ProducerStep ==
    ASSUME QueueInv, NEW p \in Producers, ProducerNext(p) PROVE QueueInv'
<1> USE WorkQueueAssumption
<1>1. ASSUME NEW t \in Tasks, Enqueue(p, t) PROVE QueueInv'
  <2>1. CASE AtLimit
    <3>1. /\ producer' = [producer EXCEPT ![p] = "asleep"] /\ item' = [item EXCEPT ![p] = t]
          /\ worker' = Spawned /\ spawned' = TRUE
          /\ UNCHANGED <<tasks, taskID, nextTaskID, task, processing, exceptions, done,
                         join, due, stopped>>
      BY <1>1, <2>1 DEF Enqueue, queueVars, joinVars
    <3>2. WQTypeOK'
      BY <3>1 DEF QueueInv, WQTypeOK, Spawned, Statuses
    <3>3. \A w \in Threads : \/ worker'[w] = worker[w]
                             \/ worker'[w] = "awake" /\ worker[w] \in {"none", "gone"}
      BY <3>1 DEF Spawned, QueueInv, ThreadsOK
    <3>4. EachOnce' /\ ChildrenEnqueued' /\ JoinWaits'
      BY <3>1, <3>3 DEF QueueInv, EachOnce, ChildrenEnqueued, JoinWaits
    <3>5. ItemsKept'
      BY <1>1, <3>1 DEF Enqueue, QueueInv, WQTypeOK, ItemsKept
    <3>6. Counted'
      <4>1. Executing' = Executing
        BY <3>3 DEF Executing
      <4> QED
        BY <3>1, <4>1 DEF QueueInv, Counted
    <3>7. ThreadsOK'
      BY <3>1, <3>3 DEF QueueInv, ThreadsOK
    <3>8. NoLostWakeup'
      <4>1. CASE spawned
        <5>1. worker' = worker
          BY <3>1, <4>1 DEF Spawned
        <5> QED
          BY <2>1, <3>1, <5>1 DEF QueueInv, NoLostWakeup, AtLimit, Busy
      <4>2. CASE ~spawned
        <5>1. \A w \in Threads : worker'[w] # "asleep"
          BY <3>1, <4>2 DEF Spawned
        <5> QED
          BY <2>1, <3>1, <5>1 DEF QueueInv, NoLostWakeup, AtLimit, Busy
      <4> QED
        BY <4>1, <4>2
    <3> QED
      BY <3>2, <3>4, <3>5, <3>6, <3>7, <3>8 DEF QueueInv
  <2>2. CASE ~AtLimit
    <3>1. /\ Insert(t, Spawned) /\ spawned' = TRUE
          /\ UNCHANGED <<producer, item, task, processing, exceptions, done, joinVars>>
          /\ taskID[t] = 0 /\ t \notin done /\ \A q \in Producers : item[q] # t
      BY <1>1, <2>2 DEF Enqueue, QueueInv, EachOnce
    <3>2. PICK where : where = Spawned
      OBVIOUS
    <3>3. /\ taskID' = [taskID EXCEPT ![t] = nextTaskID + 1]
          /\ tasks' \subseteq Tasks /\ taskID' \in [Tasks -> Nat] /\ nextTaskID' \in Nat
          /\ worker' \in [Threads -> Statuses]
          /\ EachOnce' /\ ChildrenEnqueued' /\ Counted' /\ JoinWaits'
          /\ stopped' => \A w \in Threads : worker'[w] # "asleep"
          /\ \A s \in due' : taskID'[s] # 0
          /\ (\E w \in Threads : worker'[w] = "asleep")
                => Cardinality(tasks') <= Cardinality(Awake')
          /\ AtLimit => AtLimit'
          /\ Busy'
      BY <3>1, <3>2, InsertStep
    <3>4. WQTypeOK'
      BY <3>1, <3>3 DEF QueueInv, WQTypeOK, joinVars
    <3>5. ItemsKept'
      BY <3>1, <3>3 DEF QueueInv, WQTypeOK, ItemsKept
    <3>6. ThreadsOK'
      BY <3>1, <3>3 DEF QueueInv, ThreadsOK, joinVars
    <3>7. NoLostWakeup'
      <4>1. (\E q \in Producers : producer'[q] = "asleep") => AtLimit'
        BY <3>1, <3>3 DEF QueueInv, NoLostWakeup
      <4> QED
        BY <3>3, <4>1, WakeupCountedAfter
    <3> QED
      BY <3>3, <3>4, <3>5, <3>6, <3>7 DEF QueueInv
  <2> QED
    BY <2>1, <2>2
<1>2. ASSUME EnqueueRetry(p) PROVE QueueInv'
  <2>1. CASE AtLimit
    <3>1. /\ producer[p] = "awake" /\ producer' = [producer EXCEPT ![p] = "asleep"]
          /\ UNCHANGED <<tasks, taskID, nextTaskID, task, processing, exceptions, done,
                         join, due, stopped, spawned, item, worker>>
      BY <1>2, <2>1 DEF EnqueueRetry, queueVars, joinVars
    <3>2. WQTypeOK'
      BY <3>1 DEF QueueInv, WQTypeOK
    <3>3. EachOnce' /\ ChildrenEnqueued' /\ JoinWaits' /\ ThreadsOK'
      BY <3>1 DEF QueueInv, EachOnce, ChildrenEnqueued, JoinWaits, ThreadsOK
    <3>4. ItemsKept'
      BY <3>1 DEF QueueInv, WQTypeOK, ItemsKept
    <3>5. Counted' /\ NoLostWakeup'
      BY <2>1, <3>1 DEF QueueInv, Counted, Executing, NoLostWakeup, AtLimit, Busy
    <3> QED
      BY <3>2, <3>3, <3>4, <3>5 DEF QueueInv
  <2>2. CASE ~AtLimit
    <3>1. PICK t \in Tasks : t = item[p] /\ taskID[t] = 0 /\ Parent[t] = NoTask
      BY <1>2 DEF EnqueueRetry, QueueInv, WQTypeOK, ItemsKept
    <3>2. /\ Insert(t, worker) /\ t \notin done
          /\ producer' = [producer EXCEPT ![p] = "out"] /\ item' = [item EXCEPT ![p] = NoTask]
          /\ UNCHANGED <<task, processing, exceptions, done, spawned, joinVars>>
      BY <1>2, <2>2, <3>1 DEF EnqueueRetry, QueueInv, EachOnce
    <3>3. /\ taskID' = [taskID EXCEPT ![t] = nextTaskID + 1]
          /\ tasks' \subseteq Tasks /\ taskID' \in [Tasks -> Nat] /\ nextTaskID' \in Nat
          /\ worker' \in [Threads -> Statuses]
          /\ EachOnce' /\ ChildrenEnqueued' /\ Counted' /\ JoinWaits'
          /\ \A w \in Threads : worker[w] # "asleep" => worker'[w] = worker[w]
          /\ stopped' => \A w \in Threads : worker'[w] # "asleep"
          /\ \A s \in due' : taskID'[s] # 0
          /\ (\E w \in Threads : worker'[w] = "asleep")
                => Cardinality(tasks') <= Cardinality(Awake')
          /\ AtLimit => AtLimit'
          /\ Busy'
      <4>1. PICK where : where = worker
        OBVIOUS
      <4> QED
        BY <3>1, <3>2, <4>1, InsertStep
    <3>4. WQTypeOK'
      BY <3>2, <3>3 DEF QueueInv, WQTypeOK, joinVars
    <3>5. ItemsKept'
      <4>1. \A q \in Producers \ {p} : item[q] # t
        BY <3>1 DEF QueueInv, ItemsKept
      <4> QED
        BY <3>1, <3>2, <3>3, <4>1 DEF QueueInv, WQTypeOK, ItemsKept
    <3>6. ThreadsOK'
      BY <3>2, <3>3 DEF QueueInv, ThreadsOK, joinVars
    <3>7. NoLostWakeup'
      <4>1. (\E q \in Producers : producer'[q] = "asleep") => AtLimit'
        BY <2>2, <3>2, <3>3 DEF QueueInv, WQTypeOK, NoLostWakeup
      <4> QED
        BY <3>3, <4>1, WakeupCountedAfter
    <3> QED
      BY <3>3, <3>4, <3>5, <3>6, <3>7 DEF QueueInv
  <2> QED
    BY <2>1, <2>2
<1> QED
  BY <1>1, <1>2 DEF ProducerNext

\* A worker thread finds no task and waits, or is told to stop.
LEMMA IdleStep ==
    ASSUME QueueInv, NEW w \in Threads, WorkerWait(w) \/ WorkerExit(w) PROVE QueueInv'
<1> USE WorkQueueAssumption
<1>1. PICK place \in {"asleep", "gone"} :
          /\ worker[w] = "awake" /\ worker' = [worker EXCEPT ![w] = place]
          /\ place = "asleep" => tasks = {} /\ ~stopped
          /\ place = "gone" => stopped
          /\ UNCHANGED <<tasks, taskID, nextTaskID, task, processing, exceptions, done, spawned,
                         producer, item, join, due, stopped>>
  BY DEF WorkerWait, WorkerExit, queueVars, joinVars
<1>2. place \in Statuses
  BY DEF Statuses
<1>3. WQTypeOK'
  BY <1>1, <1>2 DEF QueueInv, WQTypeOK
<1>4. \A v \in Threads : worker'[v] # worker[v] => worker[v] = "awake" /\ worker'[v] = place
  BY <1>1 DEF QueueInv, WQTypeOK
<1>5. EachOnce' /\ ItemsKept' /\ ChildrenEnqueued' /\ JoinWaits'
  BY <1>1, <1>4 DEF QueueInv, EachOnce, ItemsKept, ChildrenEnqueued, JoinWaits
<1>6. Counted'
  <2>1. Executing' = Executing
    BY <1>4 DEF Executing
  <2> QED
    BY <1>1, <2>1 DEF QueueInv, Counted
<1>7. ThreadsOK'
  BY <1>1, <1>4 DEF QueueInv, ThreadsOK
<1>8. NoLostWakeup'
  <2>1. (\E v \in Threads : worker'[v] = "asleep") => Cardinality(tasks') <= Cardinality(Awake')
    <3>1. CASE place = "asleep"
      <4>1. Cardinality(tasks') = 0
        BY <1>1, <3>1, FS_EmptySet
      <4>2. Awake' \in SUBSET Threads
        BY DEF Awake
      <4>3. Cardinality(Awake') \in Nat
        BY <4>2, FS_Subset, FS_CardinalityType
      <4> QED
        BY <4>1, <4>3
    <3>2. CASE place = "gone"
      BY <1>1, <1>4, <3>2 DEF QueueInv, ThreadsOK
    <3> QED
      BY <3>1, <3>2
  <2>2. /\ (\E p \in Producers : producer'[p] = "asleep") => AtLimit'
        /\ join' = "asleep" => Busy'
    BY <1>1 DEF QueueInv, NoLostWakeup, AtLimit, Busy
  <2> QED
    BY <2>1, <2>2, WakeupCountedAfter
<1> QED
  BY <1>3, <1>5, <1>6, <1>7, <1>8 DEF QueueInv

\* A worker thread takes the most urgent task; producers that wait are notified while the
\* queue is still at its limit.
LEMMA TakeStep ==
    ASSUME QueueInv, NEW w \in Threads, WorkerTake(w) PROVE QueueInv'
<1> USE WorkQueueAssumption
<1>1. PICK t \in tasks : /\ task' = [task EXCEPT ![w] = t] /\ tasks' = tasks \ {t}
  BY DEF WorkerTake
<1>2. /\ worker[w] = "awake" /\ worker' = [worker EXCEPT ![w] = "run"] /\ ~stopped
      /\ processing' = processing + 1
      /\ producer' = IF AtLimit THEN NotifyAllProducers ELSE producer
      /\ UNCHANGED <<taskID, nextTaskID, exceptions, done, spawned, item, join, due, stopped>>
  BY DEF WorkerTake, joinVars
<1>3. t \in Tasks /\ t # NoTask /\ taskID[t] # 0 /\ t \notin done
  BY DEF QueueInv, WQTypeOK, EachOnce
<1>4. /\ task'[w] = t /\ worker'[w] = "run"
      /\ \A v \in Threads \ {w} : task'[v] = task[v] /\ worker'[v] = worker[v]
  BY <1>1, <1>2 DEF QueueInv, WQTypeOK
<1>5. WQTypeOK'
  <2>1. producer' \in [Producers -> {"out", "awake", "asleep"}]
    BY <1>2 DEF QueueInv, WQTypeOK, NotifyAllProducers, Woken
  <2> QED
    BY <1>1, <1>2, <1>3, <2>1 DEF QueueInv, WQTypeOK, Statuses
<1>6. EachOnce'
  <2>1. \A v \in Threads : task[v] # t
    BY <1>3 DEF QueueInv, EachOnce
  <2> QED
    BY <1>1, <1>2, <1>3, <1>4, <2>1 DEF QueueInv, EachOnce
<1>7. ItemsKept'
  <2>1. \A p \in Producers : producer'[p] = "out" <=> producer[p] = "out"
    BY <1>2 DEF QueueInv, WQTypeOK, NotifyAllProducers, Woken
  <2> QED
    BY <1>2, <2>1 DEF QueueInv, ItemsKept
<1>8. ChildrenEnqueued' /\ JoinWaits' /\ ThreadsOK'
  BY <1>2, <1>4 DEF QueueInv, ChildrenEnqueued, JoinWaits, ThreadsOK
<1>9. PICK place \in Statuses : place = "run"
  BY DEF Statuses
<1>10. /\ Cardinality(Awake) \in Nat /\ Cardinality(Executing) \in Nat
       /\ Cardinality(Awake') = Cardinality(Awake) - 1
       /\ Cardinality(Executing') = Cardinality(Executing) + 1
  <2>1. /\ Cardinality(Awake) \in Nat /\ Cardinality(Executing) \in Nat
        /\ Cardinality(Awake') = Cardinality(Awake) + (IF place = "awake" THEN 1 ELSE 0)
                                                    - (IF worker[w] = "awake" THEN 1 ELSE 0)
        /\ Cardinality(Executing') = Cardinality(Executing)
                                     + (IF place \in {"run", "ran"} THEN 1 ELSE 0)
                                     - (IF worker[w] \in {"run", "ran"} THEN 1 ELSE 0)
    BY <1>2, <1>9, ThreadMoves DEF QueueInv
  <2> QED
    BY <1>2, <1>9, <2>1
<1>11. Counted'
  BY <1>2, <1>10 DEF QueueInv, Counted
<1>12. NoLostWakeup'
  <2>1. (\E v \in Threads : worker'[v] = "asleep") => Cardinality(tasks') <= Cardinality(Awake')
    <3>1. (\E v \in Threads : worker[v] = "asleep") => Cardinality(tasks) <= Cardinality(Awake)
      BY WakeupCounted DEF QueueInv
    <3>2. Cardinality(tasks) \in Nat /\ Cardinality(tasks') = Cardinality(tasks) - 1
      BY <1>1, <1>3, QueueSizes DEF QueueInv
    <3> QED
      BY <1>4, <1>10, <3>1, <3>2
  <2>2. (\E p \in Producers : producer'[p] = "asleep") => AtLimit'
    <3>1. \A p \in Producers : producer'[p] # "asleep"
      BY <1>2 DEF QueueInv, NoLostWakeup, NotifyAllProducers, Woken
    <3> QED
      BY <3>1
  <2>3. Busy'
    BY <1>2, <1>5 DEF Busy, QueueInv, WQTypeOK
  <2> QED
    BY <2>1, <2>2, <2>3, WakeupCountedAfter
<1> QED
  BY <1>5, <1>6, <1>7, <1>8, <1>11, <1>12 DEF QueueInv

\* The function of a task enqueues another one, or calls it at once.
LEMMA WorkerEnqueueStep ==
    ASSUME QueueInv, NEW w \in Threads, NEW t \in Tasks, WorkerEnqueue(w, t) PROVE QueueInv'
<1> USE WorkQueueAssumption
<1>1. /\ taskID[t] = 0 /\ t \notin done /\ Parent[t] = task[w] /\ Parent[t] # NoTask
      /\ UNCHANGED <<task, processing, exceptions, spawned, producer, item, join, due, stopped>>
  BY DEF WorkerEnqueue, joinVars, QueueInv, EachOnce
<1>2. CASE t \in Interleaved
  <2>1. done' = done \cup {t} /\ UNCHANGED <<tasks, taskID, nextTaskID, worker>>
    BY <1>2 DEF WorkerEnqueue, queueVars
  <2>2. WQTypeOK'
    BY <1>1, <2>1 DEF QueueInv, WQTypeOK
  <2>3. EachOnce'
    BY <1>1, <2>1 DEF QueueInv, EachOnce
  <2>4. ItemsKept' /\ ChildrenEnqueued' /\ JoinWaits' /\ ThreadsOK'
    BY <1>1, <2>1 DEF QueueInv, ItemsKept, ChildrenEnqueued, JoinWaits, ThreadsOK
  <2>5. Counted' /\ NoLostWakeup'
    BY <1>1, <2>1 DEF QueueInv, Counted, Executing, NoLostWakeup, AtLimit, Busy
  <2> QED
    BY <2>2, <2>3, <2>4, <2>5 DEF QueueInv
<1>3. CASE t \notin Interleaved
  <2>1. Insert(t, worker) /\ done' = done
    BY <1>3 DEF WorkerEnqueue
  <2>2. PICK where : where = worker
    OBVIOUS
  <2>3. UNCHANGED <<task, processing, exceptions, done, joinVars>>
    BY <1>1, <2>1 DEF joinVars
  <2>4. /\ taskID' = [taskID EXCEPT ![t] = nextTaskID + 1]
        /\ tasks' \subseteq Tasks /\ taskID' \in [Tasks -> Nat] /\ nextTaskID' \in Nat
        /\ worker' \in [Threads -> Statuses]
        /\ EachOnce' /\ ChildrenEnqueued' /\ Counted' /\ JoinWaits'
        /\ \A v \in Threads : worker[v] # "asleep" => worker'[v] = worker[v]
        /\ stopped' => \A v \in Threads : worker'[v] # "asleep"
        /\ \A s \in due' : taskID'[s] # 0
        /\ (\E v \in Threads : worker'[v] = "asleep")
              => Cardinality(tasks') <= Cardinality(Awake')
        /\ AtLimit => AtLimit'
        /\ Busy'
    BY <1>1, <2>1, <2>2, <2>3, InsertStep
  <2>5. WQTypeOK'
    BY <1>1, <2>1, <2>4 DEF QueueInv, WQTypeOK
  <2>6. ItemsKept'
    <3>1. \A p \in Producers : item[p] # t
      BY <1>1 DEF QueueInv, ItemsKept
    <3> QED
      BY <1>1, <2>4, <3>1 DEF QueueInv, WQTypeOK, ItemsKept
  <2>7. ThreadsOK'
    BY <1>1, <2>4 DEF QueueInv, ThreadsOK
  <2>8. NoLostWakeup'
    <3>1. (\E q \in Producers : producer'[q] = "asleep") => AtLimit'
      BY <1>1, <2>4 DEF QueueInv, NoLostWakeup
    <3> QED
      BY <2>4, <3>1, WakeupCountedAfter
  <2> QED
    BY <2>4, <2>5, <2>6, <2>7, <2>8 DEF QueueInv
<1> QED
  BY <1>2, <1>3

\* The function returns or throws, and then the thread takes the mutex again.
LEMMA ReturnStep ==
    ASSUME QueueInv, NEW w \in Threads, RunTaskFunction(w) \/ WorkerReturn(w) PROVE QueueInv'
<1> USE WorkQueueAssumption
<1>1. ASSUME RunTaskFunction(w) PROVE QueueInv'
  <2>1. /\ worker[w] = "run" /\ worker' = [worker EXCEPT ![w] = "ran"]
        /\ task' = [task EXCEPT ![w] = NoTask] /\ done' = done \cup {task[w]}
        /\ UNCHANGED <<tasks, taskID, nextTaskID, processing, spawned, producer, item,
                       join, due, stopped>>
        /\ \A t \in Tasks : Parent[t] = task[w] => taskID[t] # 0 \/ t \in done
    BY <1>1 DEF RunTaskFunction, queueVars, joinVars
  <2>2. /\ task'[w] = NoTask /\ worker'[w] = "ran"
        /\ \A v \in Threads \ {w} : task'[v] = task[v] /\ worker'[v] = worker[v]
    BY <2>1 DEF QueueInv, WQTypeOK
  <2>3. /\ task[w] \in Tasks /\ taskID[task[w]] # 0 /\ task[w] \notin tasks
        /\ \A v \in Threads \ {w} : task[v] # task[w]
    BY <2>1 DEF QueueInv, WQTypeOK, EachOnce
  <2>4. WQTypeOK'
    <3>1. exceptions' \subseteq Throwing
      BY <1>1 DEF RunTaskFunction, QueueInv, WQTypeOK
    <3> QED
      BY <2>1, <2>3, <3>1 DEF QueueInv, WQTypeOK, Statuses
  <2>5. EachOnce'
    <3>1. \A t \in Tasks : taskID'[t] # 0
                              => t \in tasks' \cup done' \/ \E v \in Threads : task'[v] = t
      BY <2>1, <2>2 DEF QueueInv, EachOnce
    <3>2. \A v \in Threads : task'[v] # NoTask => /\ taskID'[task'[v]] # 0
                                                  /\ task'[v] \notin tasks' \cup done'
      BY <2>1, <2>2, <2>3 DEF QueueInv, EachOnce
    <3> QED
      BY <2>1, <2>2, <2>3, <3>1, <3>2 DEF QueueInv, EachOnce
  <2>6. ItemsKept' /\ ChildrenEnqueued' /\ JoinWaits' /\ ThreadsOK'
    BY <2>1, <2>2 DEF QueueInv, ItemsKept, ChildrenEnqueued, JoinWaits, ThreadsOK
  <2>7. Executing' = Executing /\ Awake' = Awake
    BY <2>1, <2>2 DEF Executing, Awake
  <2>8. Counted'
    BY <2>1, <2>7 DEF QueueInv, Counted
  <2>9. NoLostWakeup'
    <3>1. (\E v \in Threads : worker'[v] = "asleep") => Cardinality(tasks') <= Cardinality(Awake')
      BY <2>1, <2>2, <2>7, WakeupCounted DEF QueueInv
    <3>2. /\ (\E p \in Producers : producer'[p] = "asleep") => AtLimit'
          /\ join' = "asleep" => Busy'
      BY <2>1 DEF QueueInv, NoLostWakeup, AtLimit, Busy
    <3> QED
      BY <3>1, <3>2, WakeupCountedAfter
  <2> QED
    BY <2>4, <2>5, <2>6, <2>8, <2>9 DEF QueueInv
<1>2. ASSUME WorkerReturn(w) PROVE QueueInv'
  <2>1. /\ worker[w] = "ran" /\ worker' = [worker EXCEPT ![w] = "awake"]
        /\ processing' = processing - 1
        /\ join' = IF tasks = {} THEN Woken(join) ELSE join
        /\ UNCHANGED <<tasks, taskID, nextTaskID, task, exceptions, done, spawned, producer,
                       item, stopped, due>>
    BY <1>2 DEF WorkerReturn, queueVars
  <2>2. worker'[w] = "awake" /\ \A v \in Threads \ {w} : worker'[v] = worker[v]
    BY <2>1 DEF QueueInv, WQTypeOK
  <2>3. /\ Cardinality(Awake) \in Nat /\ Cardinality(Executing) \in Nat
        /\ Cardinality(Awake') = Cardinality(Awake) + 1
        /\ Cardinality(Executing') = Cardinality(Executing) - 1
    <3>1. PICK place \in Statuses : place = "awake"
      BY DEF Statuses
    <3>2. /\ Cardinality(Awake) \in Nat /\ Cardinality(Executing) \in Nat
          /\ Cardinality(Awake') = Cardinality(Awake) + (IF place = "awake" THEN 1 ELSE 0)
                                                      - (IF worker[w] = "awake" THEN 1 ELSE 0)
          /\ Cardinality(Executing') = Cardinality(Executing)
                                       + (IF place \in {"run", "ran"} THEN 1 ELSE 0)
                                       - (IF worker[w] \in {"run", "ran"} THEN 1 ELSE 0)
      BY <2>1, <3>1, ThreadMoves DEF QueueInv
    <3> QED
      BY <2>1, <3>1, <3>2
  <2>4. Counted'
    BY <2>1, <2>3 DEF QueueInv, Counted
  <2>5. processing' \in Nat
    <3>1. Executing' \in SUBSET Threads
      BY DEF Executing
    <3>2. Cardinality(Executing') \in Nat
      BY <3>1, FS_Subset, FS_CardinalityType
    <3> QED
      BY <2>4, <3>2 DEF Counted
  <2>6. WQTypeOK'
    BY <2>1, <2>5 DEF QueueInv, WQTypeOK, Statuses, Woken
  <2>7. EachOnce' /\ ItemsKept' /\ ChildrenEnqueued' /\ ThreadsOK'
    BY <2>1, <2>2 DEF QueueInv, EachOnce, ItemsKept, ChildrenEnqueued, ThreadsOK
  <2>8. JoinWaits'
    BY <2>1 DEF QueueInv, JoinWaits, Woken
  <2>9. NoLostWakeup'
    <3>1. (\E v \in Threads : worker'[v] = "asleep") => Cardinality(tasks') <= Cardinality(Awake')
      <4>1. (\E v \in Threads : worker[v] = "asleep") => Cardinality(tasks) <= Cardinality(Awake)
        BY WakeupCounted DEF QueueInv
      <4>2. Cardinality(tasks) \in Nat
        BY FS_Subset, FS_CardinalityType DEF QueueInv, WQTypeOK
      <4> QED
        BY <2>1, <2>2, <2>3, <4>1, <4>2
    <3>2. /\ (\E p \in Producers : producer'[p] = "asleep") => AtLimit'
          /\ join' = "asleep" => Busy'
      BY <2>1 DEF QueueInv, NoLostWakeup, AtLimit, Busy, Woken
    <3> QED
      BY <3>1, <3>2, WakeupCountedAfter
  <2> QED
    BY <2>4, <2>6, <2>7, <2>8, <2>9 DEF QueueInv
<1> QED
  BY <1>1, <1>2

\* Join() and the destructor.
LEMMA JoinStep ==
    ASSUME QueueInv, Join \/ JoinAgain \/ Destroy \/ Destroyed PROVE QueueInv'
<1> USE WorkQueueAssumption
<1>1. ASSUME Join PROVE QueueInv'
  <2>1. /\ join \in {"out", "awake"} /\ join' = IF Busy THEN "asleep" ELSE "returned"
        /\ due' = IF join = "out" THEN (tasks \cup {task[w] : w \in Threads}) \ {NoTask} ELSE due
        /\ UNCHANGED <<tasks, taskID, nextTaskID, worker, task, processing, exceptions, done,
                       spawned, producer, item, stopped>>
    BY <1>1 DEF Join, queueVars, workerVars
  <2>2. WQTypeOK'
    BY <2>1 DEF QueueInv, WQTypeOK
  <2>3. EachOnce' /\ ItemsKept' /\ ChildrenEnqueued'
    BY <2>1 DEF QueueInv, EachOnce, ItemsKept, ChildrenEnqueued
  <2>4. Counted' /\ NoLostWakeup'
    BY <2>1 DEF QueueInv, Counted, Executing, NoLostWakeup, AtLimit, Busy
  <2>5. ThreadsOK'
    BY <2>1 DEF QueueInv, EachOnce, ThreadsOK
  <2>6. JoinWaits'
    <3> SUFFICES ASSUME ~Busy
                 PROVE  \A t \in due' : t \in done /\ \A c \in Tasks : Parent[c] = t => c \in done
      BY <2>1 DEF JoinWaits
    <3>1. \A w \in Threads : task[w] = NoTask
      <4>1. Executing \in SUBSET Threads
        BY DEF Executing
      <4>2. Executing = {}
        BY <4>1, FS_Subset, FS_EmptySet DEF QueueInv, Counted, Busy
      <4> QED
        BY <4>2 DEF Executing, QueueInv, EachOnce
    <3>2. \A t \in Tasks : taskID[t] # 0 => t \in done
      BY <3>1 DEF QueueInv, EachOnce, Busy
    <3>3. \A t \in due' : t \in Tasks /\ taskID[t] # 0
      BY <2>1, <2>2, <2>5 DEF ThreadsOK, WQTypeOK
    <3> QED
      BY <3>2, <3>3 DEF QueueInv, ChildrenEnqueued
  <2> QED
    BY <2>2, <2>3, <2>4, <2>5, <2>6 DEF QueueInv
<1>2. ASSUME JoinAgain \/ Destroyed PROVE QueueInv'
  <2>1. /\ UNCHANGED <<tasks, taskID, nextTaskID, worker, task, processing, exceptions, done,
                       producer, item, stopped>>
        /\ \/ join' = "out" /\ due' = {} /\ spawned' = spawned
           \/ /\ join = "joining" /\ join' = "gone" /\ due' = due /\ spawned' = FALSE
              /\ \A w \in Threads : worker[w] \in {"none", "gone"}
    BY <1>2 DEF JoinAgain, Destroyed, queueVars, workerVars
  <2>2. WQTypeOK'
    BY <2>1 DEF QueueInv, WQTypeOK
  <2>3. EachOnce' /\ ItemsKept' /\ ChildrenEnqueued'
    BY <2>1 DEF QueueInv, EachOnce, ItemsKept, ChildrenEnqueued
  <2>4. Counted' /\ NoLostWakeup'
    BY <2>1 DEF QueueInv, Counted, Executing, NoLostWakeup, AtLimit, Busy
  <2>5. ThreadsOK' /\ JoinWaits'
    BY <2>1 DEF QueueInv, ThreadsOK, JoinWaits
  <2> QED
    BY <2>2, <2>3, <2>4, <2>5 DEF QueueInv
<1>3. ASSUME Destroy PROVE QueueInv'
  <2>1. /\ join = "returned" /\ join' = "joining" /\ stopped' = TRUE
        /\ worker' = [w \in Threads |-> Woken(worker[w])]
        /\ UNCHANGED <<tasks, taskID, nextTaskID, task, processing, exceptions, done, spawned,
                       producer, item, due>>
    BY <1>3 DEF Destroy, queueVars
  <2>2. \A w \in Threads : /\ worker'[w] # "asleep"
                           /\ \/ worker'[w] = worker[w]
                              \/ worker'[w] = "awake" /\ worker[w] = "asleep"
    BY <2>1 DEF Woken
  <2>3. WQTypeOK'
    BY <2>1 DEF QueueInv, WQTypeOK, Woken, Statuses
  <2>4. EachOnce' /\ ItemsKept' /\ ChildrenEnqueued' /\ JoinWaits'
    BY <2>1, <2>2 DEF QueueInv, EachOnce, ItemsKept, ChildrenEnqueued, JoinWaits
  <2>5. Counted'
    <3>1. Executing' = Executing
      BY <2>2 DEF Executing
    <3> QED
      BY <2>1, <3>1 DEF QueueInv, Counted
  <2>6. ThreadsOK'
    BY <2>1, <2>2 DEF QueueInv, ThreadsOK
  <2>7. NoLostWakeup'
    BY <2>1, <2>2 DEF QueueInv, NoLostWakeup, AtLimit, Busy
  <2> QED
    BY <2>3, <2>4, <2>5, <2>6, <2>7 DEF QueueInv
<1> QED
  BY <1>1, <1>2, <1>3

-----------------------------------------------------------------------------
\* The invariant holds at first, and no step of the queue ends it.
LEMMA Inductive == WorkQueueSpec => []QueueInv
<1>1. WorkQueueInit => QueueInv
  <2> SUFFICES ASSUME WorkQueueInit PROVE QueueInv
    OBVIOUS
  <2> USE WorkQueueAssumption DEF WorkQueueInit
  <2>1. WQTypeOK
    BY DEF WQTypeOK, Statuses
  <2>2. EachOnce /\ ItemsKept /\ ChildrenEnqueued /\ ThreadsOK /\ JoinWaits
    BY DEF EachOnce, ItemsKept, ChildrenEnqueued, ThreadsOK, JoinWaits
  <2>3. Counted
    <3>1. Executing = {}
      BY DEF Executing
    <3> QED
      BY <3>1, FS_EmptySet DEF Counted
  <2>4. NoLostWakeup
    BY DEF NoLostWakeup
  <2> QED
    BY <2>1, <2>2, <2>3, <2>4 DEF QueueInv
<1>2. QueueInv /\ [WorkQueueNext]_wqVars => QueueInv'
  <2> SUFFICES ASSUME QueueInv, [WorkQueueNext]_wqVars PROVE QueueInv'
    OBVIOUS
  <2>1. ASSUME NEW w \in Threads, WorkerNext(w) PROVE QueueInv'
    BY <2>1, IdleStep, TakeStep, WorkerEnqueueStep, ReturnStep DEF WorkerNext
  <2>2. CASE UNCHANGED wqVars
    BY <2>2 DEF wqVars, QueueInv, WQTypeOK, EachOnce, ItemsKept, ChildrenEnqueued, Counted,
                Executing, ThreadsOK, NoLostWakeup, AtLimit, Busy, JoinWaits
  <2> QED
    BY <2>1, <2>2, ProducerStep, JoinStep DEF WorkQueueNext
<1> QED
  BY <1>1, <1>2, PTL DEF WorkQueueSpec

\* No worker, producer or caller of Join() sleeps through what it waits for: for any
\* number of threads, any limit and any tasks that enqueue others.
THEOREM NobodySleepsThroughIt == WorkQueueSpec => []NoLostWakeup
<1>1. QueueInv => NoLostWakeup
  BY DEF QueueInv
<1> QED
  BY <1>1, Inductive, PTL

\* When Join() returns, what it found in the queue or in execution, and what that has
\* enqueued, has been executed.
THEOREM JoinIsComplete == WorkQueueSpec => []JoinWaits
<1>1. QueueInv => JoinWaits
  BY DEF QueueInv
<1> QED
  BY <1>1, Inductive, PTL

-----------------------------------------------------------------------------
(* The queue implements TaskPool, step by step.                             *)

Running == {task[w] : w \in Threads} \ {NoTask}

\* Inserting a task hands it in: it was not known and its ID is larger than all others.
LEMMA InsertSubmits ==
    ASSUME QueueInv, NEW t \in Tasks, taskID[t] = 0, t \notin done,
           NEW where, Insert(t, where), UNCHANGED <<task, done>>
    PROVE  Pool!Submit(t)
<1>1. t \notin tasks \cup Running \cup done
  BY DEF QueueInv, EachOnce, Running
<1>2. \A s \in Tasks : taskID[s] < nextTaskID + 1
  BY DEF QueueInv, WQTypeOK, EachOnce
<1>3. /\ taskID' = [taskID EXCEPT ![t] = nextTaskID + 1] /\ tasks' = tasks \cup {t}
      /\ taskID'[t] = nextTaskID + 1 /\ taskID'[t] \in Nat
  BY DEF Insert, QueueInv, WQTypeOK
<1> QED
  BY <1>1, <1>2, <1>3 DEF Pool!Submit, Pool!Known, Running

\* Every step of the queue is a step of the pool or does not concern it.
LEMMA PoolStep == QueueInv /\ [WorkQueueNext]_wqVars => [Pool!PoolNext]_Pool!poolVars
<1> SUFFICES ASSUME QueueInv, [WorkQueueNext]_wqVars
             PROVE  Pool!PoolNext \/ UNCHANGED Pool!poolVars
  OBVIOUS
<1> USE WorkQueueAssumption
<1>1. ASSUME NEW p \in Producers, NEW t \in Tasks, Enqueue(p, t)
      PROVE  Pool!PoolNext \/ UNCHANGED Pool!poolVars
  <2>1. CASE AtLimit
    BY <1>1, <2>1 DEF Enqueue, queueVars, Pool!poolVars
  <2>2. CASE ~AtLimit
    <3>1. /\ Insert(t, Spawned) /\ taskID[t] = 0 /\ t \notin done /\ UNCHANGED <<task, done>>
      BY <1>1, <2>2 DEF Enqueue, QueueInv, EachOnce
    <3>2. PICK where : where = Spawned
      OBVIOUS
    <3> QED
      BY <3>1, <3>2, InsertSubmits DEF Pool!PoolNext
  <2> QED
    BY <2>1, <2>2
<1>2. ASSUME NEW p \in Producers, EnqueueRetry(p)
      PROVE  Pool!PoolNext \/ UNCHANGED Pool!poolVars
  <2>1. CASE AtLimit
    BY <1>2, <2>1 DEF EnqueueRetry, queueVars, Pool!poolVars
  <2>2. CASE ~AtLimit
    <3>1. PICK t \in Tasks : t = item[p] /\ taskID[t] = 0 /\ Parent[t] = NoTask
      BY <1>2 DEF EnqueueRetry, QueueInv, WQTypeOK, ItemsKept
    <3>2. /\ Insert(t, worker) /\ t \notin done /\ UNCHANGED <<task, done>>
      BY <1>2, <2>2, <3>1 DEF EnqueueRetry, QueueInv, EachOnce
    <3>3. PICK where : where = worker
      OBVIOUS
    <3> QED
      BY <3>1, <3>2, <3>3, InsertSubmits DEF Pool!PoolNext
  <2> QED
    BY <2>1, <2>2
<1>3. ASSUME NEW w \in Threads, WorkerTake(w) PROVE Pool!PoolNext
  <2>1. PICK t \in tasks : /\ Top(t) /\ task' = [task EXCEPT ![w] = t] /\ tasks' = tasks \ {t}
                           /\ UNCHANGED <<done, taskID>>
    BY <1>3 DEF WorkerTake
  <2>2. t \in Tasks /\ t # NoTask /\ task[w] = NoTask
    BY <1>3 DEF WorkerTake, QueueInv, WQTypeOK, EachOnce
  <2>3. Running' = Running \cup {t}
    <3>1. task'[w] = t /\ \A v \in Threads \ {w} : task'[v] = task[v]
      BY <2>1 DEF QueueInv, WQTypeOK
    <3> QED
      BY <2>2, <3>1 DEF Running
  <2>4. \A s \in tasks \ {t} : Pool!Before(t, s)
    BY <2>1 DEF Top, Pool!Before, QueueInv, WQTypeOK
  <2>5. Pool!Start(t)
    BY <2>1, <2>3, <2>4 DEF Pool!Start, Running
  <2> QED
    BY <2>2, <2>5 DEF Pool!PoolNext
<1>4. ASSUME NEW w \in Threads, NEW t \in Tasks, WorkerEnqueue(w, t) PROVE Pool!PoolNext
  <2>1. taskID[t] = 0 /\ t \notin done /\ worker[w] = "run" /\ UNCHANGED task
    BY <1>4 DEF WorkerEnqueue
  <2>2. CASE t \in Interleaved
    <3>1. done' = done \cup {t} /\ UNCHANGED <<tasks, taskID>>
      BY <1>4, <2>2 DEF WorkerEnqueue, queueVars
    <3>2. Running # {} /\ t \notin tasks \cup Running \cup done
      BY <2>1 DEF Running, QueueInv, EachOnce
    <3>3. Pool!CallDirectly(t)
      BY <2>1, <3>1, <3>2 DEF Pool!CallDirectly, Pool!Known, Running
    <3> QED
      BY <3>3 DEF Pool!PoolNext
  <2>3. CASE t \notin Interleaved
    <3>1. Insert(t, worker) /\ UNCHANGED <<task, done>>
      BY <1>4, <2>3 DEF WorkerEnqueue
    <3>2. PICK where : where = worker
      OBVIOUS
    <3> QED
      BY <2>1, <3>1, <3>2, InsertSubmits DEF Pool!PoolNext
  <2> QED
    BY <2>2, <2>3
<1>5. ASSUME NEW w \in Threads, RunTaskFunction(w) PROVE Pool!PoolNext
  <2>1. /\ worker[w] = "run" /\ task' = [task EXCEPT ![w] = NoTask]
        /\ done' = done \cup {task[w]} /\ UNCHANGED <<tasks, taskID>>
    BY <1>5 DEF RunTaskFunction, queueVars
  <2>2. PICK t \in Tasks : t = task[w] /\ t # NoTask
    BY <2>1 DEF QueueInv, WQTypeOK, EachOnce
  <2>3. t \in Running /\ Running' = Running \ {t}
    <3>1. task'[w] = NoTask /\ \A v \in Threads \ {w} : task'[v] = task[v] /\ task[v] # t
      BY <2>1, <2>2 DEF QueueInv, WQTypeOK, EachOnce
    <3> QED
      BY <2>2, <3>1 DEF Running
  <2>4. Pool!Finish(t)
    BY <2>1, <2>2, <2>3 DEF Pool!Finish, Running
  <2> QED
    BY <2>2, <2>4 DEF Pool!PoolNext
<1>6. ASSUME NEW w \in Threads, WorkerWait(w) \/ WorkerExit(w) \/ WorkerReturn(w)
      PROVE  UNCHANGED Pool!poolVars
  BY <1>6 DEF WorkerWait, WorkerExit, WorkerReturn, queueVars, Pool!poolVars
<1>7. ASSUME Join \/ JoinAgain \/ Destroy \/ Destroyed PROVE UNCHANGED Pool!poolVars
  BY <1>7 DEF Join, JoinAgain, Destroy, Destroyed, queueVars, workerVars, Pool!poolVars
<1>8. ASSUME UNCHANGED wqVars PROVE UNCHANGED Pool!poolVars
  BY <1>8 DEF wqVars, Pool!poolVars
<1> QED
  BY <1>1, <1>2, <1>3, <1>4, <1>5, <1>6, <1>7, <1>8 DEF WorkQueueNext, WorkerNext, ProducerNext

\* The safety part of ImplementsTaskPool: whatever the threads, the limit and the tasks,
\* every task is handed in once, started once, in the order of priority and age, and
\* finished once.
THEOREM QueueImplementsPool ==
    WorkQueueSpec => Pool!PoolInit /\ [][Pool!PoolNext]_(Pool!poolVars)
<1>1. WorkQueueInit => Pool!PoolInit
  BY DEF WorkQueueInit, Pool!PoolInit
<1> QED
  BY <1>1, Inductive, PoolStep, PTL DEF WorkQueueSpec

-----------------------------------------------------------------------------
(* Slots for CPU-bound work                                                *)

Working == {c \in Coroutines : At(c, "work")}

\* Slots are neither lost nor invented.
SlotsAddUp == freeSlots + Cardinality(Working) = Slots

\* The mutex is what makes this inductive: a coroutine that found no slot subscribes
\* before anybody can take the subscriptions, so one that frees a slot meanwhile is still
\* about to do so.
WakeUpIsDue ==
    freeSlots > 0 /\ (waiting # {} \/ \E c \in Coroutines : At(c, "subscribe"))
        => \E c \in Coroutines : At(c, "wake")

\* Only a coroutine in the loop of Done() holds subscriptions.
OnlyPostingHolds == \A d \in Coroutines : wakes[d] # {} => At(d, "posting")

\* Where the subscription of a coroutine is
HeldBy(c) == {d \in Coroutines : c \in wakes[d]}
Subscribed(c) == c \in waiting /\ c \notin posted /\ HeldBy(c) = {}
Posted(c) == c \notin waiting /\ c \in posted /\ HeldBy(c) = {}
Taken(c) == c \notin waiting /\ c \notin posted /\ \E d \in Coroutines : HeldBy(c) = {d}
Nowhere(c) == c \notin waiting /\ c \notin posted /\ HeldBy(c) = {}

SubscriptionsKept ==
    \A c \in Coroutines : IF At(c, "waiting") THEN Subscribed(c) \/ Posted(c) \/ Taken(c)
                                              ELSE Nowhere(c)

SlotInv == CpuBoundTypeOK /\ SlotsAddUp /\ WakeUpIsDue /\ OnlyPostingHolds /\ SubscriptionsKept

-----------------------------------------------------------------------------
\* Every step keeps the types of the counter, the list and the coroutines' places.
LEMMA TypeStep == CpuBoundTypeOK /\ [CpuBoundNext]_cpuVars => CpuBoundTypeOK'
<1> SUFFICES ASSUME CpuBoundTypeOK, [CpuBoundNext]_cpuVars PROVE CpuBoundTypeOK'
  OBVIOUS
<1> USE CpuBoundWorkAssumption DEF CpuBoundTypeOK, Places, At, Goto
<1>1. ASSUME NEW c \in Coroutines, Construct(c) PROVE CpuBoundTypeOK'
  BY <1>1 DEF Construct
<1>2. ASSUME NEW c \in Coroutines, FastPath(c) PROVE CpuBoundTypeOK'
  BY <1>2 DEF FastPath, TryAcquireSlot
<1>3. ASSUME NEW c \in Coroutines, SlowPath(c) PROVE CpuBoundTypeOK'
  BY <1>3 DEF SlowPath, TryAcquireSlot
<1>4. ASSUME NEW c \in Coroutines, Subscribe(c) PROVE CpuBoundTypeOK'
  BY <1>4 DEF Subscribe
<1>5. ASSUME NEW c \in Coroutines, WakeUp(c) PROVE CpuBoundTypeOK'
  BY <1>5 DEF WakeUp
<1>6. ASSUME NEW c \in Coroutines, Release(c) PROVE CpuBoundTypeOK'
  BY <1>6 DEF Release
<1>7. ASSUME NEW c \in Coroutines, TakeSubscribers(c) PROVE CpuBoundTypeOK'
  BY <1>7 DEF TakeSubscribers
<1>8. ASSUME NEW c \in Coroutines, PostWakeUp(c) PROVE CpuBoundTypeOK'
  BY <1>8 DEF PostWakeUp
<1>9. ASSUME UNCHANGED cpuVars PROVE CpuBoundTypeOK'
  BY <1>9 DEF cpuVars
<1> QED
  BY <1>1, <1>2, <1>3, <1>4, <1>5, <1>6, <1>7, <1>8, <1>9
  DEF CpuBoundNext, CoroutineStep

\* The coroutines that work change by one at most: what TryAcquireSlot takes and Done()
\* gives back is counted.
LEMMA Counting ==
    ASSUME CpuBoundTypeOK, NEW c \in Coroutines, NEW place \in Places, Goto(c, place)
    PROVE  /\ Cardinality(Working) \in Nat
           /\ Cardinality(Working') = Cardinality(Working)
                                      + (IF place = "work" THEN 1 ELSE 0)
                                      - (IF At(c, "work") THEN 1 ELSE 0)
<1>1. IsFiniteSet(Working) /\ IsFiniteSet(Working \ {c}) /\ Cardinality(Working) \in Nat
  <2>1. Working \in SUBSET Coroutines /\ Working \ {c} \in SUBSET Coroutines
    BY DEF Working
  <2> QED
    BY <2>1, FS_Subset, FS_CardinalityType, CpuBoundWorkAssumption
<1>2. Working' = IF place = "work" THEN (Working \ {c}) \cup {c} ELSE Working \ {c}
  BY DEF Working, At, Goto, CpuBoundTypeOK
<1>3. Cardinality(Working \ {c}) = Cardinality(Working) - (IF At(c, "work") THEN 1 ELSE 0)
  <2>1. c \in Working <=> At(c, "work")
    BY DEF Working
  <2>2. Cardinality(Working \ {c})
          = IF c \in Working THEN Cardinality(Working) - 1 ELSE Cardinality(Working)
    BY <1>1, FS_RemoveElement
  <2> QED
    BY <1>1, <2>1, <2>2
<1>4. Cardinality((Working \ {c}) \cup {c}) = Cardinality(Working \ {c}) + 1
  BY <1>1, FS_AddElement
<1>5. Cardinality(Working \ {c}) \in Int
  BY <1>1, <1>3
<1> QED
  BY <1>1, <1>2, <1>3, <1>4, <1>5

\* Slots are neither lost nor invented by any step.
LEMMA SlotsStep == CpuBoundTypeOK /\ SlotsAddUp /\ [CpuBoundNext]_cpuVars => SlotsAddUp'
<1> SUFFICES ASSUME CpuBoundTypeOK, SlotsAddUp, [CpuBoundNext]_cpuVars PROVE SlotsAddUp'
  OBVIOUS
<1> USE CpuBoundWorkAssumption
<1>1. ASSUME NEW c \in Coroutines, NEW place \in Places, Goto(c, place),
             freeSlots' = freeSlots - (IF place = "work" THEN 1 ELSE 0)
                                    + (IF At(c, "work") THEN 1 ELSE 0)
      PROVE  SlotsAddUp'
  BY <1>1, Counting DEF SlotsAddUp, CpuBoundTypeOK
<1>2. ASSUME NEW c \in Coroutines, Construct(c) PROVE SlotsAddUp'
  BY <1>2, <1>1 DEF Construct, At, Places, CpuBoundTypeOK
<1>3. ASSUME NEW c \in Coroutines, FastPath(c) PROVE SlotsAddUp'
  BY <1>3, <1>1 DEF FastPath, TryAcquireSlot, At, Places, CpuBoundTypeOK
<1>4. ASSUME NEW c \in Coroutines, SlowPath(c) PROVE SlotsAddUp'
  BY <1>4, <1>1 DEF SlowPath, TryAcquireSlot, At, Places, CpuBoundTypeOK
<1>5. ASSUME NEW c \in Coroutines, Subscribe(c) PROVE SlotsAddUp'
  BY <1>5, <1>1 DEF Subscribe, At, Places, CpuBoundTypeOK
<1>6. ASSUME NEW c \in Coroutines, WakeUp(c) PROVE SlotsAddUp'
  BY <1>6, <1>1 DEF WakeUp, At, Places, CpuBoundTypeOK
<1>7. ASSUME NEW c \in Coroutines, Release(c) PROVE SlotsAddUp'
  BY <1>7, <1>1 DEF Release, At, Places, CpuBoundTypeOK
<1>8. ASSUME NEW c \in Coroutines, TakeSubscribers(c) PROVE SlotsAddUp'
  BY <1>8, <1>1 DEF TakeSubscribers, At, Places, CpuBoundTypeOK
<1>9. ASSUME NEW c \in Coroutines, PostWakeUp(c) PROVE SlotsAddUp'
  <2>1. CASE Goto(c, "idle")
    BY <2>1, <1>9, <1>1 DEF PostWakeUp, At, Places, CpuBoundTypeOK
  <2>2. CASE UNCHANGED coroutine
    BY <2>2, <1>9 DEF PostWakeUp, SlotsAddUp, Working, At
  <2> QED
    BY <2>1, <2>2, <1>9 DEF PostWakeUp
<1>10. ASSUME UNCHANGED cpuVars PROVE SlotsAddUp'
  BY <1>10 DEF cpuVars, SlotsAddUp, Working, At
<1> QED
  BY <1>2, <1>3, <1>4, <1>5, <1>6, <1>7, <1>8, <1>9, <1>10 DEF CpuBoundNext, CoroutineStep

\* While a slot is free and somebody waits, or is about to, a coroutine in Done() has yet
\* to take the subscriptions.
LEMMA WakeUpStep == CpuBoundTypeOK /\ WakeUpIsDue /\ [CpuBoundNext]_cpuVars => WakeUpIsDue'
<1> SUFFICES ASSUME CpuBoundTypeOK, WakeUpIsDue, [CpuBoundNext]_cpuVars PROVE WakeUpIsDue'
  OBVIOUS
<1> USE DEF CpuBoundTypeOK, WakeUpIsDue, At, Goto, Places
<1>1. ASSUME NEW c \in Coroutines, Construct(c) PROVE WakeUpIsDue'
  BY <1>1 DEF Construct
<1>2. ASSUME NEW c \in Coroutines, FastPath(c) PROVE WakeUpIsDue'
  BY <1>2 DEF FastPath, TryAcquireSlot
<1>3. ASSUME NEW c \in Coroutines, SlowPath(c) PROVE WakeUpIsDue'
  BY <1>3 DEF SlowPath, TryAcquireSlot
<1>4. ASSUME NEW c \in Coroutines, Subscribe(c) PROVE WakeUpIsDue'
  BY <1>4 DEF Subscribe
<1>5. ASSUME NEW c \in Coroutines, WakeUp(c) PROVE WakeUpIsDue'
  BY <1>5 DEF WakeUp
<1>6. ASSUME NEW c \in Coroutines, Release(c) PROVE WakeUpIsDue'
  BY <1>6 DEF Release
<1>7. ASSUME NEW c \in Coroutines, TakeSubscribers(c) PROVE WakeUpIsDue'
  BY <1>7 DEF TakeSubscribers, MutexFree
<1>8. ASSUME NEW c \in Coroutines, PostWakeUp(c) PROVE WakeUpIsDue'
  BY <1>8 DEF PostWakeUp
<1>9. ASSUME UNCHANGED cpuVars PROVE WakeUpIsDue'
  BY <1>9 DEF cpuVars
<1> QED
  BY <1>1, <1>2, <1>3, <1>4, <1>5, <1>6, <1>7, <1>8, <1>9
  DEF CpuBoundNext, CoroutineStep

\* A suspended coroutine has its subscription in one place, and no other coroutine has one,
\* while subscriptions move from the list to Done() and on to the strands.
LEMMA SubscriptionStep ==
    CpuBoundTypeOK /\ OnlyPostingHolds /\ SubscriptionsKept /\ [CpuBoundNext]_cpuVars
        => OnlyPostingHolds' /\ SubscriptionsKept'
<1> SUFFICES ASSUME CpuBoundTypeOK, OnlyPostingHolds, SubscriptionsKept,
                    [CpuBoundNext]_cpuVars
             PROVE  OnlyPostingHolds' /\ SubscriptionsKept'
  OBVIOUS
<1> USE DEF CpuBoundTypeOK, OnlyPostingHolds, SubscriptionsKept, At, Goto, Places, HeldBy,
            Subscribed, Posted, Taken, Nowhere
<1>1. ASSUME NEW c \in Coroutines, Construct(c)
      PROVE  OnlyPostingHolds' /\ SubscriptionsKept'
  BY <1>1 DEF Construct
<1>2. ASSUME NEW c \in Coroutines, FastPath(c)
      PROVE  OnlyPostingHolds' /\ SubscriptionsKept'
  BY <1>2 DEF FastPath, TryAcquireSlot
<1>3. ASSUME NEW c \in Coroutines, SlowPath(c)
      PROVE  OnlyPostingHolds' /\ SubscriptionsKept'
  BY <1>3 DEF SlowPath, TryAcquireSlot
<1>4. ASSUME NEW c \in Coroutines, Subscribe(c)
      PROVE  OnlyPostingHolds' /\ SubscriptionsKept'
  BY <1>4 DEF Subscribe
<1>5. ASSUME NEW c \in Coroutines, WakeUp(c)
      PROVE  OnlyPostingHolds' /\ SubscriptionsKept'
  BY <1>5 DEF WakeUp
<1>6. ASSUME NEW c \in Coroutines, Release(c)
      PROVE  OnlyPostingHolds' /\ SubscriptionsKept'
  BY <1>6 DEF Release
<1>7. ASSUME NEW c \in Coroutines, TakeSubscribers(c)
      PROVE  OnlyPostingHolds' /\ SubscriptionsKept'
  BY <1>7 DEF TakeSubscribers
<1>8. ASSUME NEW c \in Coroutines, PostWakeUp(c)
      PROVE  OnlyPostingHolds' /\ SubscriptionsKept'
  BY <1>8 DEF PostWakeUp
<1>9. ASSUME UNCHANGED cpuVars PROVE OnlyPostingHolds' /\ SubscriptionsKept'
  BY <1>9 DEF cpuVars
<1> QED
  BY <1>1, <1>2, <1>3, <1>4, <1>5, <1>6, <1>7, <1>8, <1>9
  DEF CpuBoundNext, CoroutineStep

-----------------------------------------------------------------------------
\* The property follows from the inductive invariant.
LEMMA SlotInvImplies == SlotInv => NoForgottenWaiter
<1> SUFFICES ASSUME SlotInv PROVE NoForgottenWaiter
  OBVIOUS
<1>1. freeSlots + Cardinality({c \in Coroutines : At(c, "work")}) = Slots
  BY DEF SlotInv, SlotsAddUp, Working
<1>2. freeSlots > 0 /\ waiting # {} => \E c \in Coroutines : At(c, "wake")
  BY DEF SlotInv, WakeUpIsDue
<1>3. ASSUME NEW c \in Coroutines
      PROVE  At(c, "waiting") <=>
                \/ c \in waiting /\ c \notin posted /\ HeldBy(c) = {}
                \/ c \notin waiting /\ c \in posted /\ HeldBy(c) = {}
                \/ c \notin waiting /\ c \notin posted /\ Cardinality(HeldBy(c)) = 1
  <2>1. IsFiniteSet(HeldBy(c))
    <3>1. HeldBy(c) \in SUBSET Coroutines
      BY DEF HeldBy
    <3> QED
      BY <3>1, FS_Subset, CpuBoundWorkAssumption
  <2>2. Cardinality(HeldBy(c)) = 1 <=> \E d \in Coroutines : HeldBy(c) = {d}
    BY <2>1, FS_Singleton DEF HeldBy
  <2> QED
    BY <2>2 DEF SlotInv, SubscriptionsKept, Subscribed, Posted, Taken, Nowhere
<1> QED
  BY <1>1, <1>2, <1>3 DEF NoForgottenWaiter, HeldBy

\* Initially all slots are free and nobody waits.
LEMMA SlotInitially == CpuBoundInit => SlotInv
<1> SUFFICES ASSUME CpuBoundInit PROVE SlotInv
  OBVIOUS
<1> USE CpuBoundWorkAssumption DEF CpuBoundInit, At
<1>1. CpuBoundTypeOK
  BY DEF CpuBoundTypeOK, Places
<1>2. Working = {}
  BY DEF Working
<1>3. SlotsAddUp
  BY <1>2, FS_EmptySet DEF SlotsAddUp
<1>4. WakeUpIsDue /\ OnlyPostingHolds /\ SubscriptionsKept
  BY DEF WakeUpIsDue, OnlyPostingHolds, SubscriptionsKept, HeldBy, Nowhere
<1> QED
  BY <1>1, <1>3, <1>4 DEF SlotInv

\* For every number of coroutines and slots: a coroutine that waits for a slot has its
\* subscription in exactly one place, and none stays subscribed while a slot is free, unless
\* a coroutine in Done() (CpuBoundWork::Done, io-engine.cpp) is about to take the list.
THEOREM NobodyIsForgotten == CpuBoundSpec => []NoForgottenWaiter
<1>1. CpuBoundInit => SlotInv
  BY SlotInitially
<1>2. SlotInv /\ [CpuBoundNext]_cpuVars => SlotInv'
  BY TypeStep, SlotsStep, WakeUpStep, SubscriptionStep DEF SlotInv
<1>3. SlotInv => NoForgottenWaiter
  BY SlotInvImplies
<1> QED
  BY <1>1, <1>2, <1>3, PTL DEF CpuBoundSpec

-----------------------------------------------------------------------------
(* Timers                                                                  *)

\* The types the proofs need: an upper bound of the times is what tells Forever apart.
\* Each time the clock is set back moves it by MaxJump.
TimesOK ==
    /\ interval \in [Timers -> {0, Period}]
    /\ left \in [Timers -> Int]
    /\ \A t \in Timers : Earliest <= left[t] /\ left[t] <= Period + jumps * MaxJump
    /\ deadline \in Int
    /\ jumps \in 0 .. MaxSet
    /\ jumped \in -MaxJump .. MaxJump
    /\ jumped # 0 => jumps > 0

SetsOK ==
    /\ started \subseteq Timers /\ running \subseteq Timers /\ registered \subseteq Timers
    /\ quiet \subseteq Timers
    /\ call \in [Timers -> {"none", "queued", "called"}]

\* Only a started timer is registered; a timer that is called is not. A stop counts as
\* long as the timer is not started again.
RegistrationOK ==
    /\ registered \subseteq started
    /\ quiet \cap started = {}
    /\ \A t \in quiet : call[t] = "none"
    /\ \A t \in Timers : t \in running <=> call[t] # "none"
    /\ running \cap registered = {}

TimerInv == TimesOK /\ SetsOK /\ RegistrationOK /\ NoOversleep

-----------------------------------------------------------------------------
\* However often the clock was set, no time is as late as Forever.
LEMMA BeforeForever ==
    ASSUME TimesOK, NEW t \in Timers PROVE left[t] < Forever
<1>1. jumps * MaxJump <= MaxSet * MaxJump
  <2>1. jumps \in Nat /\ MaxSet \in Nat /\ MaxJump \in Nat /\ jumps <= MaxSet
    BY TimerAssumption DEF TimesOK
  <2>2. \A a, b, c \in Nat : a <= b => a * c <= b * c
    OBVIOUS
  <2> QED
    BY <2>1, <2>2
<1>2. jumps * MaxJump \in Int /\ MaxSet * MaxJump \in Int /\ Period \in Int /\ left[t] \in Int
  BY TimerAssumption DEF TimesOK
<1> QED
  BY <1>1, <1>2 DEF TimesOK, Forever, Latest

\* InternalRescheduleUnlocked(), whoever calls it: a timer whose time changes is not
\* registered, or the thread is woken up.
LEMMA RescheduleStep ==
    ASSUME TimerInv, NEW t \in Timers, NEW completed \in BOOLEAN,
           NEW next \in Int, next = Unset \/ next <= Period + jumps * MaxJump,
           next = Unset \/ Earliest <= next,
           NEW on \in SUBSET Timers, started \subseteq on,
           InternalReschedule(t, completed, next, on)
    PROVE  /\ left' \in [Timers -> Int] /\ deadline' \in Int
           /\ \A s \in Timers : Earliest <= left'[s] /\ left'[s] <= Period + jumps * MaxJump
           /\ running' = IF completed THEN running \ {t} ELSE running
           /\ registered' \subseteq registered \cup (({t} \cap on) \ running')
           /\ NoOversleep'
<1> USE TimerAssumption DEF TimerInv, TimesOK, SetsOK
<1>1. interval[t] \in {0, Period} /\ Earliest <= interval[t]
  BY DEF Earliest
<1>2. jumps * MaxJump \in Nat
  OBVIOUS
<1>3. interval[t] <= Period + jumps * MaxJump
  BY <1>1, <1>2
<1>4. deadline' \in Int
  BY DEF InternalReschedule, NotifyAll, Forever, Latest
<1>5. left' \in [Timers -> Int]
  BY <1>1 DEF InternalReschedule
<1>6. \A s \in Timers : Earliest <= left'[s] /\ left'[s] <= Period + jumps * MaxJump
  BY <1>1, <1>3 DEF InternalReschedule
<1>7. running' = IF completed THEN running \ {t} ELSE running
  BY DEF InternalReschedule
<1>8. registered' \subseteq registered \cup (({t} \cap on) \ running')
  BY DEF InternalReschedule
<1>9. NoOversleep'
  <2>1. CASE left' = left /\ registered' = registered /\ thread' = thread /\ deadline' = deadline
    BY <2>1 DEF NoOversleep
  <2>2. CASE NotifyAll
    BY <2>2 DEF NoOversleep, NotifyAll
  <2>3. CASE /\ left' = [left EXCEPT ![t] = left'[t]] /\ t \notin registered
             /\ registered' = registered /\ thread' = thread /\ deadline' = deadline
    <3>1. \A s \in registered : left'[s] = left[s]
      BY <2>3
    <3> QED
      BY <2>3, <3>1 DEF NoOversleep
  <2>4. ASSUME t \notin on \ (IF completed THEN running \ {t} ELSE running),
               t \in registered
        PROVE  FALSE
    BY <2>4 DEF RegistrationOK
  <2> QED
    BY <2>1, <2>2, <2>3, <2>4 DEF InternalReschedule
<1> QED
  BY <1>4, <1>5, <1>6, <1>7, <1>8, <1>9

\* Tick and a clock that is set move every time by the same amount: what is due first
\* stays first, and the thread that waits without an end has no timer to wait for.
LEMMA ShiftStep ==
    ASSUME TimerInv, NEW n \in Int, Shift(n), UNCHANGED <<registered, thread>>,
           NEW bound \in Int, \A t \in Timers : left[t] - n <= bound, Earliest <= bound
    PROVE  /\ left' \in [Timers -> Int] /\ deadline' \in Int
           /\ \A t \in Timers : Earliest <= left'[t] /\ left'[t] <= bound
           /\ NoOversleep'
<1> USE TimerAssumption DEF TimerInv, TimesOK, SetsOK
<1>1. Earliest \in Int /\ Forever \in Int
  BY DEF Earliest, Forever, Latest
<1>2. \A a \in Int : Clamp(a) \in Int /\ Clamp(a) >= Earliest /\ (Clamp(a) = a \/ Clamp(a) = Earliest)
  BY <1>1 DEF Clamp
<1>3. \A a, b \in Int : a <= b => Clamp(a - n) <= Clamp(b - n)
  BY <1>1 DEF Clamp
<1>4. \A t \in Timers : left'[t] = Clamp(left[t] - n) /\ left[t] - n \in Int
  BY DEF Shift
<1>5. left' \in [Timers -> Int]
  <2>1. \A t \in Timers : Clamp(left[t] - n) \in Int
    BY <1>2, <1>4
  <2> QED
    BY <2>1 DEF Shift
<1>6. deadline' \in Int
  BY <1>1, <1>2 DEF Shift
<1>7. \A t \in Timers : Earliest <= left'[t] /\ left'[t] <= bound
  BY <1>1, <1>2, <1>4
<1>8. NoOversleep'
  <2> SUFFICES ASSUME thread = "asleep", NEW t \in registered PROVE deadline' <= left'[t]
    BY DEF NoOversleep
  <2>1. deadline <= left[t] /\ t \in Timers
    BY DEF NoOversleep
  <2>2. left[t] < Forever
    BY <2>1, BeforeForever
  <2>3. deadline # Forever
    BY <2>1, <2>2, <1>1
  <2> QED
    BY <2>1, <2>3, <1>3, <1>4 DEF Shift
<1> QED
  BY <1>5, <1>6, <1>7, <1>8

-----------------------------------------------------------------------------
\* Nobody but the clock and InternalRescheduleUnlocked() changes a time: the
\* steps that leave the times alone keep their bounds.
LEMMA TimesKept ==
    ASSUME TimesOK, UNCHANGED <<interval, left, jumped, jumps>>, deadline' \in Int
    PROVE  TimesOK'
BY DEF TimesOK

\* The calls that come from any thread.
LEMMA CallsStep ==
    ASSUME TimerInv, NEW t \in Timers, TimerCalls(t) PROVE TimerInv'
<1> USE TimerAssumption
<1>1. Forever \in Int /\ Unset \in Int
  BY DEF Forever, Latest, Unset
<1>2. Period + jumps * MaxJump \in Int /\ Period + jumps * MaxJump >= 1 /\ Earliest <= 0
  BY DEF TimerInv, TimesOK, Earliest
<1>3. ASSUME Start(t) PROVE TimerInv'
  <2>1. started' = started \cup {t} /\ started' \in SUBSET Timers
    BY <1>3 DEF Start, TimerInv, SetsOK
  <2>2. PICK next \in Int, on \in SUBSET Timers :
             /\ next = Unset \/ next <= Period + jumps * MaxJump
             /\ next = Unset \/ Earliest <= next
             /\ on = started' /\ started \subseteq on
             /\ InternalReschedule(t, FALSE, next, on)
    <3> DEFINE from == IF interval[t] > 0 THEN Unset ELSE left[t]
    <3>1. /\ from \in Int
          /\ from = Unset \/ from <= Period + jumps * MaxJump
          /\ from = Unset \/ Earliest <= from
      BY <1>1 DEF TimerInv, TimesOK
    <3>2. InternalReschedule(t, FALSE, from, started')
      BY <1>3 DEF Start
    <3> HIDE DEF from
    <3> QED
      BY <2>1, <3>1, <3>2
  <2>3. /\ left' \in [Timers -> Int] /\ deadline' \in Int
        /\ \A s \in Timers : Earliest <= left'[s] /\ left'[s] <= Period + jumps * MaxJump
        /\ running' = running
        /\ registered' \subseteq registered \cup (({t} \cap on) \ running')
        /\ NoOversleep'
    BY <2>2, RescheduleStep
  <2>4. /\ UNCHANGED <<interval, call, jumped, jumps>> /\ quiet' = quiet \ {t}
    BY <1>3 DEF Start
  <2>5. TimesOK'
    BY <2>3, <2>4 DEF TimerInv, TimesOK
  <2>6. SetsOK' /\ RegistrationOK'
    BY <2>1, <2>2, <2>3, <2>4 DEF TimerInv, SetsOK, RegistrationOK
  <2> QED
    BY <2>3, <2>5, <2>6 DEF TimerInv
<1>4. ASSUME NEW n \in {0, Period}, SetInterval(t, n) PROVE TimerInv'
  <2>1. TimesOK'
    BY <1>4 DEF SetInterval, TimerInv, TimesOK
  <2>2. SetsOK' /\ RegistrationOK' /\ NoOversleep'
    BY <1>4 DEF SetInterval, TimerInv, SetsOK, RegistrationOK, NoOversleep
  <2> QED
    BY <2>1, <2>2 DEF TimerInv
<1>5. ASSUME NEW wait \in BOOLEAN, Stop(t, wait) PROVE TimerInv'
  <2>1. TimesOK'
    BY <1>5, <1>1, TimesKept DEF Stop, TimerInv
  <2>2. NoOversleep'
    BY <1>5 DEF Stop, NoOversleep
  <2>3. SetsOK' /\ RegistrationOK'
    BY <1>5 DEF Stop, TimerInv, SetsOK, RegistrationOK
  <2> QED
    BY <2>1, <2>2, <2>3 DEF TimerInv
<1>6. ASSUME NEW next \in 0 .. 1, Reschedule(t, next) PROVE TimerInv'
  <2>1. next \in Int /\ next <= Period + jumps * MaxJump /\ Earliest <= next
    BY <1>2 DEF Earliest
  <2>2. /\ InternalReschedule(t, FALSE, next, started)
        /\ UNCHANGED <<interval, started, call, jumped, jumps, quiet>>
        /\ started \in SUBSET Timers
    BY <1>6 DEF Reschedule, TimerInv, SetsOK
  <2>3. /\ left' \in [Timers -> Int] /\ deadline' \in Int
        /\ \A s \in Timers : Earliest <= left'[s] /\ left'[s] <= Period + jumps * MaxJump
        /\ running' = running
        /\ registered' \subseteq registered \cup (({t} \cap started) \ running')
        /\ NoOversleep'
    BY <2>1, <2>2, RescheduleStep
  <2>4. TimesOK'
    BY <2>2, <2>3 DEF TimerInv, TimesOK
  <2>5. SetsOK' /\ RegistrationOK'
    BY <2>2, <2>3 DEF TimerInv, SetsOK, RegistrationOK
  <2> QED
    BY <2>3, <2>4, <2>5 DEF TimerInv
<1> QED
  BY <1>3, <1>4, <1>5, <1>6 DEF TimerCalls

\* The loop of Stop(true), TimerThreadProc() and Call().
LEMMA ThreadsStep ==
    ASSUME TimerInv,
           \/ \E t \in Timers : StopRetry(t) \/ CallBegin(t) \/ CallEnd(t)
           \/ ThreadWait \/ ThreadTimeout \/ ThreadCall
    PROVE  TimerInv'
<1> USE TimerAssumption
<1>1. Forever \in Int /\ Unset \in Int
  BY DEF Forever, Latest, Unset
<1>2. ASSUME NEW t \in Timers, StopRetry(t) PROVE TimerInv'
  <2>1. TimesOK' /\ NoOversleep'
    BY <1>2, TimesKept DEF StopRetry, TimerInv, TimesOK, NoOversleep
  <2>2. SetsOK' /\ RegistrationOK'
    BY <1>2 DEF StopRetry, TimerInv, SetsOK, RegistrationOK
  <2> QED
    BY <2>1, <2>2 DEF TimerInv
<1>3. ASSUME NEW t \in Timers, CallBegin(t) PROVE TimerInv'
  <2>1. TimesOK' /\ NoOversleep'
    BY <1>3, TimesKept DEF CallBegin, TimerInv, TimesOK, NoOversleep
  <2>2. SetsOK' /\ RegistrationOK'
    BY <1>3 DEF CallBegin, TimerInv, SetsOK, RegistrationOK
  <2> QED
    BY <2>1, <2>2 DEF TimerInv
<1>4. ASSUME NEW t \in Timers, CallEnd(t) PROVE TimerInv'
  <2>1. /\ InternalReschedule(t, TRUE, Unset, started)
        /\ UNCHANGED <<interval, started, jumped, jumps, quiet>>
        /\ call' = [call EXCEPT ![t] = "none"]
        /\ started \in SUBSET Timers
    BY <1>4 DEF CallEnd, TimerInv, SetsOK
  <2>2. /\ left' \in [Timers -> Int] /\ deadline' \in Int
        /\ \A s \in Timers : Earliest <= left'[s] /\ left'[s] <= Period + jumps * MaxJump
        /\ running' = running \ {t}
        /\ registered' \subseteq registered \cup (({t} \cap started) \ running')
        /\ NoOversleep'
    <3>1. PICK next \in Int : next = Unset
      BY <1>1
    <3> QED
      BY <2>1, <3>1, RescheduleStep
  <2>3. TimesOK'
    BY <2>1, <2>2 DEF TimerInv, TimesOK
  <2>4. SetsOK' /\ RegistrationOK'
    BY <2>1, <2>2 DEF TimerInv, SetsOK, RegistrationOK
  <2> QED
    BY <2>2, <2>3, <2>4 DEF TimerInv
<1>5. ASSUME ThreadWait PROVE TimerInv'
  <2>1. deadline' \in Int
    BY <1>5, <1>1 DEF ThreadWait, TimerInv, TimesOK, SetsOK
  <2>2. TimesOK'
    BY <1>5, <2>1, TimesKept DEF ThreadWait, TimerInv
  <2>3. SetsOK' /\ RegistrationOK'
    BY <1>5 DEF ThreadWait, TimerInv, SetsOK, RegistrationOK
  <2>4. NoOversleep'
    BY <1>5 DEF ThreadWait, NoOversleep, First
  <2> QED
    BY <2>2, <2>3, <2>4 DEF TimerInv
<1>6. ASSUME ThreadTimeout PROVE TimerInv'
  <2>1. TimesOK'
    BY <1>6, <1>1, TimesKept DEF ThreadTimeout, TimerInv
  <2>2. SetsOK' /\ RegistrationOK' /\ NoOversleep'
    BY <1>6 DEF ThreadTimeout, TimerInv, SetsOK, RegistrationOK, NoOversleep
  <2> QED
    BY <2>1, <2>2 DEF TimerInv
<1>7. ASSUME ThreadCall PROVE TimerInv'
  <2>1. TimesOK'
    BY <1>7, TimesKept DEF ThreadCall, TimerInv, TimesOK
  <2>2. SetsOK' /\ RegistrationOK'
    BY <1>7 DEF ThreadCall, TimerInv, SetsOK, RegistrationOK
  <2>3. NoOversleep'
    BY <1>7 DEF ThreadCall, NoOversleep
  <2> QED
    BY <2>1, <2>2, <2>3 DEF TimerInv
<1> QED
  BY <1>2, <1>3, <1>4, <1>5, <1>6, <1>7

\* The clock advances or is set, and RunEventLoop() notices.
LEMMA ClockStep ==
    ASSUME TimerInv, Tick \/ AdjustTimers \/ \E n \in {-MaxJump, MaxJump} : SetClock(n)
    PROVE  TimerInv'
<1> USE TimerAssumption
<1>1. Forever \in Int
  BY DEF Forever, Latest
<1>2. /\ jumps \in Nat /\ jumps * MaxJump \in Nat /\ (jumps + 1) * MaxJump = jumps * MaxJump + MaxJump
      /\ Earliest \in Int /\ Earliest <= 0
  BY DEF TimerInv, TimesOK, Earliest
<1>3. ASSUME Tick PROVE TimerInv'
  <2>1. PICK bound \in Int : bound = Period + jumps * MaxJump
    BY <1>2
  <2>2. \A t \in Timers : left[t] - 1 <= bound
    BY <2>1 DEF TimerInv, TimesOK
  <2>3. Shift(1) /\ UNCHANGED <<registered, thread>> /\ Earliest <= bound
    BY <1>2, <1>3, <2>1 DEF Tick
  <2>4. /\ left' \in [Timers -> Int] /\ deadline' \in Int
        /\ \A t \in Timers : Earliest <= left'[t] /\ left'[t] <= bound
        /\ NoOversleep'
    <3>1. PICK n \in Int : n = 1
      OBVIOUS
    <3> QED
      BY <2>2, <2>3, <3>1, ShiftStep
  <2>5. TimesOK'
    BY <1>3, <2>1, <2>4 DEF Tick, TimerInv, TimesOK
  <2>6. SetsOK' /\ RegistrationOK'
    BY <1>3 DEF Tick, TimerInv, SetsOK, RegistrationOK
  <2> QED
    BY <2>4, <2>5, <2>6 DEF TimerInv
<1>4. ASSUME NEW n \in {-MaxJump, MaxJump}, SetClock(n) PROVE TimerInv'
  <2>1. PICK bound \in Int : bound = Period + (jumps + 1) * MaxJump
    BY <1>2
  <2>2. n \in Int /\ -MaxJump <= n /\ n <= MaxJump
    OBVIOUS
  <2>3. \A t \in Timers : left[t] - n <= bound
    BY <1>2, <2>1, <2>2 DEF TimerInv, TimesOK
  <2>4. Shift(n) /\ UNCHANGED <<registered, thread>> /\ Earliest <= bound
    BY <1>2, <1>4, <2>1 DEF SetClock
  <2>5. /\ left' \in [Timers -> Int] /\ deadline' \in Int
        /\ \A t \in Timers : Earliest <= left'[t] /\ left'[t] <= bound
        /\ NoOversleep'
    BY <2>2, <2>3, <2>4, ShiftStep
  <2>6. jumps' = jumps + 1 /\ jumped' = n /\ interval' = interval /\ jumps < MaxSet
    BY <1>4 DEF SetClock
  <2>7. TimesOK'
    BY <1>2, <2>1, <2>2, <2>5, <2>6 DEF TimerInv, TimesOK
  <2>8. SetsOK' /\ RegistrationOK'
    BY <1>4 DEF SetClock, TimerInv, SetsOK, RegistrationOK
  <2> QED
    BY <2>5, <2>7, <2>8 DEF TimerInv
<1>5. ASSUME AdjustTimers PROVE TimerInv'
  <2>1. jumps >= 1 /\ MaxJump <= jumps * MaxJump
    <3>1. jumps >= 1
      BY <1>5, <1>2 DEF AdjustTimers, TimerInv, TimesOK
    <3>2. \A a, b \in Nat : a >= 1 => b <= a * b
      OBVIOUS
    <3> QED
      BY <1>2, <3>1, <3>2
  <2>2. left' \in [Timers -> Int]
    BY <1>5 DEF AdjustTimers, TimerInv, TimesOK
  <2>3. ASSUME NEW t \in Timers PROVE Earliest <= left'[t] /\ left'[t] <= Period + jumps * MaxJump
    <3>1. /\ left[t] \in Int /\ jumped \in Int /\ jumped <= MaxJump /\ -MaxJump <= jumped
          /\ Earliest <= left[t] /\ left[t] <= Period + jumps * MaxJump
      BY DEF TimerInv, TimesOK
    <3>2. CASE left'[t] = left[t]
      BY <3>1, <3>2
    <3>3. CASE left'[t] = left[t] + jumped /\ Abs(left[t] + jumped) < Abs(left[t])
      BY <1>2, <2>1, <3>1, <3>3 DEF Abs, Earliest
    <3> QED
      BY <1>5, <3>2, <3>3 DEF AdjustTimers
  <2>4. TimesOK'
    BY <1>1, <1>5, <2>2, <2>3 DEF AdjustTimers, NotifyAll, TimerInv, TimesOK
  <2>5. NoOversleep'
    BY <1>5 DEF AdjustTimers, NotifyAll, NoOversleep
  <2>6. SetsOK' /\ RegistrationOK'
    BY <1>5 DEF AdjustTimers, NotifyAll, TimerInv, SetsOK, RegistrationOK
  <2> QED
    BY <2>4, <2>5, <2>6 DEF TimerInv
<1> QED
  BY <1>3, <1>4, <1>5

-----------------------------------------------------------------------------
\* The invariant holds at first, and no step of Timer ends it.
LEMMA TimerInductive == TimerSpec => []TimerInv
<1>1. TimerInit => TimerInv
  <2> SUFFICES ASSUME TimerInit PROVE TimerInv
    OBVIOUS
  <2>1. TimesOK
    <3>1. interval \in [Timers -> {0, Period}] /\ left = interval /\ jumps = 0 /\ jumped = 0
      BY TimerAssumption DEF TimerInit
    <3>2. jumps * MaxJump = 0 /\ deadline \in Int /\ Earliest \in Int /\ Earliest <= 0
      BY TimerAssumption, <3>1 DEF TimerInit, Earliest, Forever, Latest
    <3> QED
      BY TimerAssumption, <3>1, <3>2 DEF TimesOK
  <2>2. SetsOK /\ RegistrationOK /\ NoOversleep
    BY DEF TimerInit, SetsOK, RegistrationOK, NoOversleep
  <2> QED
    BY <2>1, <2>2 DEF TimerInv
<1>2. TimerInv /\ [TimerNext]_timerVars => TimerInv'
  <2> SUFFICES ASSUME TimerInv, [TimerNext]_timerVars PROVE TimerInv'
    OBVIOUS
  <2>1. ASSUME NEW t \in Background \ started, Start(t) PROVE TimerInv'
    <3>1. t \in Timers
      BY TimerAssumption
    <3> QED
      BY <2>1, <3>1, CallsStep DEF TimerCalls
  <2>2. ASSUME NEW t \in Timers \ Background, TimerCalls(t) PROVE TimerInv'
    BY <2>2, CallsStep
  <2>3. CASE UNCHANGED timerVars
    BY <2>3 DEF timerVars, TimerInv, TimesOK, SetsOK, RegistrationOK, NoOversleep
  <2> QED
    BY <2>1, <2>2, <2>3, ThreadsStep, ClockStep DEF TimerNext
<1> QED
  BY <1>1, <1>2, PTL DEF TimerSpec

\* Once Stop(true) has returned and until the timer is started again its callback neither
\* runs nor is going to, and no timer is called twice at once: for any timers, interval,
\* number and size of clock changes.
THEOREM StoppedStaysStopped == TimerSpec => []StopIsFinal
<1>1. TimerInv => StopIsFinal
  BY DEF TimerInv, SetsOK, RegistrationOK, StopIsFinal
<1> QED
  BY <1>1, TimerInductive, PTL

\* TimerThreadProc() never sleeps past a registered timer, however timers are started,
\* rescheduled and called and the clock is set.
THEOREM ThreadIsInTime == TimerSpec => []NoOversleep
<1>1. TimerInv => NoOversleep
  BY DEF TimerInv
<1> QED
  BY <1>1, TimerInductive, PTL

-----------------------------------------------------------------------------
(* The daemon                                                              *)

TypesOK ==
    /\ current \in Pids \cup {0} /\ starting \in Pids \cup {0}
    /\ ready \in BOOLEAN /\ exclusive \in BOOLEAN /\ allowed \subseteq Pids
    /\ process \in [Pids -> {"none", "loading", "waiting", "working", "zombie", "reaped"}]
    /\ created \in Nat /\ knows \in [Pids -> Nat]

\* fork() returns a new process ID.
ForkedInOrder == \E k \in 0 .. MaxWorkers : {q \in Pids : process[q] # "none"} = 1 .. k

\* Who may work: only the current worker, and those before are gone.
OnlyCurrentWorks ==
    /\ \A p \in allowed : p # current => process[p] = "reaped"
    /\ \A p \in Pids : process[p] = "working" => p \in allowed
    /\ current # 0 => process[current] \in {"waiting", "working", "zombie", "reaped"}

\* The worker being started is not the current one and may not work yet.
StartingOK ==
    /\ \A p \in Pids : process[p] = "loading" => p = starting /\ umbrella \in {"starting", "killed"}
    /\ umbrella \in {"starting", "takeover"} =>
          /\ starting # 0 /\ starting # current /\ starting \notin allowed
          /\ process[starting] \in {"loading", "waiting", "zombie"}
    /\ ready /\ umbrella = "starting" => process[starting] # "loading"
    /\ ready => umbrella \in {"starting", "killed"}

\* A reload is done under the lock, which keeps the old worker from creating objects the
\* new one would not know.
LockHeld ==
    /\ exclusive => shared = {}
    /\ umbrella \in {"fork", "starting", "takeover"} /\ current # 0 => exclusive
    /\ umbrella \in {"takeover", "term", "reload", "lock", "check"} => current # 0

\* The current worker and the one that is about to take over know every object.
ObjectsKnown ==
    /\ current # 0 /\ process[current] \in {"waiting", "working"} => knows[current] = created
    /\ umbrella \in {"starting", "takeover"} /\ process[starting] = "waiting"
          => knows[starting] = created

DaemonInv == TypesOK /\ ForkedInOrder /\ OnlyCurrentWorks /\ StartingOK /\ LockHeld /\ ObjectsKnown

-----------------------------------------------------------------------------
\* A process that exists keeps its ID.
LEMMA NoNewProcess ==
    ASSUME TypesOK, ForkedInOrder, NEW p \in Pids, NEW where, where # "none",
           process[p] # "none", Become(p, where)
    PROVE  ForkedInOrder'
<1>1. {q \in Pids : process'[q] # "none"} = {q \in Pids : process[q] # "none"}
  BY DEF Become, TypesOK
<1> QED
  BY <1>1 DEF ForkedInOrder

\* The new process of StartUnixWorker() is none that existed before.
LEMMA NewProcess ==
    ASSUME TypesOK, ForkedInOrder, NEW p \in Pids, Become(p, "loading"),
           p = Cardinality({q \in Pids : process[q] # "none"}) + 1
    PROVE  process[p] = "none" /\ ForkedInOrder'
<1> USE DaemonAssumption
<1>1. PICK k \in 0 .. MaxWorkers : {q \in Pids : process[q] # "none"} = 1 .. k
  BY DEF ForkedInOrder
<1>2. Cardinality(1 .. k) = k
  <2>1. 1 \in Int /\ k \in Int
    OBVIOUS
  <2> QED
    BY <2>1, FS_Interval
<1>3. p = k + 1
  BY <1>1, <1>2
<1>4. process[p] = "none"
  <2>1. p \notin 1 .. k
    BY <1>3
  <2> QED
    BY <1>1, <2>1
<1>5. {q \in Pids : process'[q] # "none"} = {q \in Pids : process[q] # "none"} \cup {p}
  BY DEF Become, TypesOK
<1>6. (1 .. k) \cup {p} = 1 .. (k + 1)
  BY <1>3
<1>7. k + 1 \in 0 .. MaxWorkers
  BY <1>3 DEF Pids
<1> QED
  BY <1>1, <1>4, <1>5, <1>6, <1>7 DEF ForkedInOrder

-----------------------------------------------------------------------------
\* StartUnixWorker() and what Run() does with the worker it gets.
LEMMA StartStep ==
    ASSUME DaemonInv, Fork \/ StartFailed \/ StartSucceeded \/ Takeover PROVE DaemonInv'
<1> USE DaemonAssumption
<1>0. 0 \notin Pids
  BY DEF Pids
<1>1. ASSUME Fork PROVE DaemonInv'
  <2>1. CASE NoWorker /\ UNCHANGED <<starting, processVars>>
    <3>1. umbrella = "fork" /\ UNCHANGED <<current, ready>>
      BY <1>1 DEF Fork
    <3> QED
      BY <2>1, <3>1 DEF NoWorker, processVars, DaemonInv, TypesOK, ForkedInOrder, OnlyCurrentWorks,
                        StartingOK, LockHeld, ObjectsKnown
  <2>2. CASE \E p \in Pids :
               /\ p = Cardinality({q \in Pids : process[q] # "none"}) + 1
               /\ Become(p, "loading")
               /\ starting' = p
               /\ umbrella' = "starting"
               /\ UNCHANGED <<exclusive, shared, allowed, shutdown, created, knows>>
    <3>1. PICK p \in Pids :
               /\ p = Cardinality({q \in Pids : process[q] # "none"}) + 1
               /\ Become(p, "loading")
               /\ starting' = p
               /\ umbrella' = "starting"
               /\ UNCHANGED <<exclusive, shared, allowed, shutdown, created, knows>>
      BY <2>2
    <3>2. process[p] = "none" /\ ForkedInOrder'
      BY <3>1, NewProcess DEF DaemonInv
    <3>3. umbrella = "fork" /\ UNCHANGED <<current, ready>>
      BY <1>1 DEF Fork
    <3>4. process'[p] = "loading" /\ \A q \in Pids \ {p} : process'[q] = process[q]
      BY <3>1 DEF Become, DaemonInv, TypesOK
    <3>5. TypesOK'
      BY <3>1, <3>3 DEF Become, DaemonInv, TypesOK
    <3>6. p # current /\ p \notin allowed
      BY <3>2, <1>0 DEF DaemonInv, TypesOK, OnlyCurrentWorks
    <3>7. OnlyCurrentWorks'
      BY <1>0, <3>1, <3>3, <3>4, <3>6 DEF DaemonInv, TypesOK, OnlyCurrentWorks
    <3>8. StartingOK'
      BY <1>0, <3>1, <3>3, <3>4, <3>6 DEF DaemonInv, StartingOK
    <3>9. LockHeld' /\ ObjectsKnown'
      BY <1>0, <3>1, <3>3, <3>4, <3>6 DEF DaemonInv, TypesOK, LockHeld, ObjectsKnown
    <3> QED
      BY <3>2, <3>5, <3>7, <3>8, <3>9 DEF DaemonInv
  <2> QED
    BY <1>1, <2>1, <2>2 DEF Fork
<1>2. ASSUME StartFailed PROVE DaemonInv'
  <2>1. /\ umbrella = "starting" /\ process[starting] = "zombie" /\ starting \in Pids
        /\ Become(starting, "reaped") /\ starting' = 0 /\ ready' = FALSE /\ NoWorker
        /\ UNCHANGED <<current, shared, allowed, created, knows>>
    BY <1>2 DEF StartFailed, DaemonInv, TypesOK, StartingOK
  <2>2. process'[starting] = "reaped" /\ \A q \in Pids \ {starting} : process'[q] = process[q]
    BY <2>1 DEF Become, DaemonInv, TypesOK
  <2>3. TypesOK'
    BY <2>1 DEF Become, NoWorker, DaemonInv, TypesOK
  <2>4. ForkedInOrder'
    <3>1. PICK p \in Pids : p = starting
      BY <2>1
    <3> QED
      BY <2>1, <3>1, NoNewProcess DEF DaemonInv
  <2>5. OnlyCurrentWorks'
    BY <2>1, <2>2 DEF DaemonInv, TypesOK, OnlyCurrentWorks, StartingOK
  <2>6. StartingOK'
    BY <2>1, <2>2 DEF NoWorker, DaemonInv, StartingOK
  <2>7. LockHeld' /\ ObjectsKnown'
    BY <2>1, <2>2 DEF NoWorker, DaemonInv, TypesOK, LockHeld, ObjectsKnown
  <2> QED
    BY <2>3, <2>4, <2>5, <2>6, <2>7 DEF DaemonInv
<1>3. ASSUME StartSucceeded PROVE DaemonInv'
  <2>1. /\ umbrella = "starting" /\ starting \in Pids /\ process[starting] = "waiting"
        /\ ready' = FALSE
        /\ UNCHANGED <<starting, exclusive, shared, process, created, knows>>
    BY <1>3 DEF StartSucceeded, DaemonInv, TypesOK, StartingOK
  <2>2. CASE current = 0
    <3>1. allowed' = allowed \cup {starting} /\ current' = starting /\ umbrella' = "term"
      BY <1>3, <2>2 DEF StartSucceeded
    <3>2. TypesOK' /\ ForkedInOrder'
      BY <2>1, <3>1 DEF DaemonInv, TypesOK, ForkedInOrder
    <3>3. OnlyCurrentWorks'
      BY <1>0, <2>1, <2>2, <3>1 DEF DaemonInv, TypesOK, OnlyCurrentWorks
    <3>4. StartingOK'
      BY <2>1, <3>1 DEF DaemonInv, StartingOK
    <3>5. LockHeld' /\ ObjectsKnown'
      BY <1>0, <2>1, <3>1 DEF DaemonInv, LockHeld, ObjectsKnown
    <3> QED
      BY <3>2, <3>3, <3>4, <3>5 DEF DaemonInv
  <2>3. CASE current # 0
    <3>1. UNCHANGED <<allowed, current>> /\ umbrella' = "takeover"
      BY <1>3, <2>3 DEF StartSucceeded
    <3>2. TypesOK' /\ ForkedInOrder' /\ OnlyCurrentWorks'
      BY <2>1, <3>1 DEF DaemonInv, TypesOK, ForkedInOrder, OnlyCurrentWorks
    <3>3. StartingOK'
      BY <2>1, <3>1 DEF DaemonInv, StartingOK
    <3>4. LockHeld' /\ ObjectsKnown'
      BY <2>1, <2>3, <3>1 DEF DaemonInv, LockHeld, ObjectsKnown
    <3> QED
      BY <3>2, <3>3, <3>4 DEF DaemonInv
  <2> QED
    BY <2>2, <2>3
<1>4. ASSUME Takeover PROVE DaemonInv'
  <2>1. /\ umbrella = "takeover" /\ process[current] = "zombie" /\ current \in Pids
        /\ starting \in Pids /\ starting # current /\ umbrella' = "check"
        /\ Become(current, "reaped") /\ allowed' = allowed \cup {starting} /\ current' = starting
        /\ exclusive' = FALSE /\ UNCHANGED <<starting, ready, shared, created, knows>>
    BY <1>4 DEF Takeover, DaemonInv, TypesOK, StartingOK, LockHeld
  <2>2. process'[current] = "reaped" /\ \A q \in Pids \ {current} : process'[q] = process[q]
    BY <2>1 DEF Become, DaemonInv, TypesOK
  <2>3. TypesOK'
    BY <2>1 DEF Become, DaemonInv, TypesOK
  <2>4. ForkedInOrder'
    <3>1. PICK p \in Pids : p = current
      BY <2>1
    <3> QED
      BY <2>1, <3>1, NoNewProcess DEF DaemonInv
  <2>5. OnlyCurrentWorks'
    BY <2>1, <2>2 DEF DaemonInv, TypesOK, OnlyCurrentWorks, StartingOK
  <2>6. StartingOK'
    BY <2>1, <2>2 DEF DaemonInv, StartingOK
  <2>7. LockHeld' /\ ObjectsKnown'
    BY <1>0, <2>1, <2>2 DEF DaemonInv, TypesOK, LockHeld, ObjectsKnown, StartingOK
  <2> QED
    BY <2>3, <2>4, <2>5, <2>6, <2>7 DEF DaemonInv
<1> QED
  BY <1>1, <1>2, <1>3, <1>4

\* The loop of Run() while no worker is started, and the signals.
LEMMA LoopStep ==
    ASSUME DaemonInv, \/ ForwardTermination \/ HandleReload \/ ExclusiveLock \/ CheckWorker
                 \/ RequestReload \/ Terminate
    PROVE  DaemonInv'
<1> USE DaemonAssumption
<1>1. ASSUME ForwardTermination \/ HandleReload
      PROVE  DaemonInv'
  <2>1. /\ umbrella \in {"term", "reload"} /\ umbrella' \in {"reload", "lock", "check"}
        /\ UNCHANGED <<current, starting, ready, exclusive, shared, process, allowed, created,
                       knows>>
    BY <1>1 DEF ForwardTermination, HandleReload, processVars
  <2>2. TypesOK' /\ ForkedInOrder' /\ OnlyCurrentWorks'
    BY <2>1 DEF DaemonInv, TypesOK, ForkedInOrder, OnlyCurrentWorks
  <2>3. StartingOK' /\ LockHeld' /\ ObjectsKnown'
    BY <2>1 DEF DaemonInv, StartingOK, LockHeld, ObjectsKnown
  <2> QED
    BY <2>2, <2>3 DEF DaemonInv
<1>2. ASSUME ExclusiveLock PROVE DaemonInv'
  <2>1. /\ umbrella = "lock" /\ shared = {} /\ umbrella' = "fork" /\ exclusive' = TRUE
        /\ UNCHANGED <<current, starting, ready, shared, process, allowed, created, knows>>
    BY <1>2 DEF ExclusiveLock, processVars
  <2>2. TypesOK' /\ ForkedInOrder' /\ OnlyCurrentWorks'
    BY <2>1 DEF DaemonInv, TypesOK, ForkedInOrder, OnlyCurrentWorks
  <2>3. StartingOK' /\ LockHeld' /\ ObjectsKnown'
    BY <2>1 DEF DaemonInv, StartingOK, LockHeld, ObjectsKnown
  <2> QED
    BY <2>2, <2>3 DEF DaemonInv
<1>3. ASSUME CheckWorker PROVE DaemonInv'
  <2>1. /\ umbrella = "check" /\ umbrella' \in {"exited", "term"} /\ current \in Pids
        /\ UNCHANGED <<current, starting, ready, exclusive, shared, allowed, created, knows>>
    BY <1>3 DEF CheckWorker, DaemonInv, TypesOK, LockHeld
  <2>2. CASE process' = process
    <3>1. TypesOK' /\ ForkedInOrder' /\ OnlyCurrentWorks'
      BY <2>1, <2>2 DEF DaemonInv, TypesOK, ForkedInOrder, OnlyCurrentWorks
    <3>2. StartingOK' /\ LockHeld' /\ ObjectsKnown'
      BY <2>1, <2>2 DEF DaemonInv, StartingOK, LockHeld, ObjectsKnown
    <3> QED
      BY <3>1, <3>2 DEF DaemonInv
  <2>3. CASE process[current] = "zombie" /\ Become(current, "reaped")
    <3>1. process'[current] = "reaped" /\ \A q \in Pids \ {current} : process'[q] = process[q]
      BY <2>1, <2>3 DEF Become, DaemonInv, TypesOK
    <3>2. TypesOK' /\ OnlyCurrentWorks'
      BY <2>1, <2>3, <3>1 DEF Become, DaemonInv, TypesOK, OnlyCurrentWorks
    <3>3. ForkedInOrder'
      <4>1. PICK p \in Pids : p = current
        BY <2>1
      <4> QED
        BY <2>3, <4>1, NoNewProcess DEF DaemonInv
    <3>4. StartingOK' /\ LockHeld' /\ ObjectsKnown'
      BY <2>1, <3>1 DEF DaemonInv, StartingOK, LockHeld, ObjectsKnown
    <3> QED
      BY <3>2, <3>3, <3>4 DEF DaemonInv
  <2> QED
    BY <1>3, <2>2, <2>3 DEF CheckWorker
<1>4. ASSUME RequestReload \/ Terminate PROVE DaemonInv'
  <2>1. /\ umbrella' = umbrella \/ umbrella' = "killed"
        /\ UNCHANGED <<current, starting, ready, exclusive, shared, process, allowed, created,
                       knows>>
    BY <1>4 DEF RequestReload, Terminate, processVars
  <2>2. TypesOK' /\ ForkedInOrder' /\ OnlyCurrentWorks'
    BY <2>1 DEF DaemonInv, TypesOK, ForkedInOrder, OnlyCurrentWorks
  <2>3. StartingOK' /\ LockHeld' /\ ObjectsKnown'
    BY <2>1 DEF DaemonInv, StartingOK, LockHeld, ObjectsKnown
  <2> QED
    BY <2>2, <2>3 DEF DaemonInv
<1> QED
  BY <1>1, <1>2, <1>3, <1>4

\* What a worker does: it loads the configuration, works, answers requests and ends.
LEMMA WorkerStep ==
    ASSUME DaemonInv, NEW p \in Pids, Worker(p) \/ Die(p) \/ BeginRequest(p) PROVE DaemonInv'
<1> USE DaemonAssumption
<1>0. 0 \notin Pids
  BY DEF Pids
<1>1. ASSUME LoadConfig(p) PROVE DaemonInv'
  <2>1. /\ process[p] = "loading" /\ Become(p, "waiting")
        /\ knows' = [knows EXCEPT ![p] = created]
        /\ ready' = (ready \/ p = starting)
        /\ UNCHANGED <<umbrella, current, starting, exclusive, shared, allowed, created>>
    BY <1>1 DEF LoadConfig, umbrellaVars
  <2>2. /\ process'[p] = "waiting" /\ knows'[p] = created
        /\ \A q \in Pids \ {p} : process'[q] = process[q] /\ knows'[q] = knows[q]
    BY <2>1 DEF Become, DaemonInv, TypesOK
  <2>3. p # current /\ p = starting /\ umbrella \in {"starting", "killed"}
    BY <2>1, <1>0 DEF DaemonInv, OnlyCurrentWorks, StartingOK
  <2>4. TypesOK' /\ ForkedInOrder'
    BY <2>1, NoNewProcess DEF Become, DaemonInv, TypesOK
  <2>5. OnlyCurrentWorks'
    BY <2>1, <2>2, <2>3 DEF DaemonInv, TypesOK, OnlyCurrentWorks
  <2>6. StartingOK'
    BY <2>1, <2>2, <2>3 DEF DaemonInv, StartingOK
  <2>7. LockHeld' /\ ObjectsKnown'
    BY <2>1, <2>2, <2>3 DEF DaemonInv, TypesOK, LockHeld, ObjectsKnown
  <2> QED
    BY <2>4, <2>5, <2>6, <2>7 DEF DaemonInv
<1>2. ASSUME Die(p) \/ StartWorking(p) \/ EndWorker(p) PROVE DaemonInv'
  <2>1. PICK where \in {"zombie", "working"} :
            /\ process[p] \in {"loading", "waiting", "working"} /\ Become(p, where)
            /\ where = "working" => process[p] = "waiting" /\ p \in allowed
            /\ UNCHANGED <<umbrella, current, starting, exclusive, ready, shared, allowed,
                           created, knows>>
    BY <1>2 DEF Die, StartWorking, EndWorker, umbrellaVars
  <2>2. process'[p] = where /\ \A q \in Pids \ {p} : process'[q] = process[q]
    BY <2>1 DEF Become, DaemonInv, TypesOK
  <2>3. TypesOK' /\ ForkedInOrder'
    BY <2>1, NoNewProcess DEF Become, DaemonInv, TypesOK
  <2>4. OnlyCurrentWorks'
    BY <2>1, <2>2 DEF DaemonInv, TypesOK, OnlyCurrentWorks
  <2>5. StartingOK'
    BY <2>1, <2>2 DEF DaemonInv, TypesOK, StartingOK
  <2>6. LockHeld' /\ ObjectsKnown'
    BY <2>1, <2>2 DEF DaemonInv, TypesOK, LockHeld, ObjectsKnown, StartingOK
  <2> QED
    BY <2>3, <2>4, <2>5, <2>6 DEF DaemonInv
<1>3. ASSUME BeginRequest(p) PROVE DaemonInv'
  <2>1. /\ ~exclusive
        /\ UNCHANGED <<umbrella, current, starting, exclusive, ready, process, allowed, created,
                       knows>>
    BY <1>3 DEF BeginRequest, umbrellaVars
  <2>2. TypesOK' /\ ForkedInOrder' /\ OnlyCurrentWorks'
    BY <2>1 DEF DaemonInv, TypesOK, ForkedInOrder, OnlyCurrentWorks
  <2>3. StartingOK' /\ LockHeld' /\ ObjectsKnown'
    BY <2>1 DEF DaemonInv, StartingOK, LockHeld, ObjectsKnown
  <2> QED
    BY <2>2, <2>3 DEF DaemonInv
<1>4. ASSUME EndRequest(p) PROVE DaemonInv'
  <2>1. /\ process[p] = "working" /\ p \in shared /\ shared' = shared \ {p}
        /\ created' = created + 1 /\ knows' = [knows EXCEPT ![p] = @ + 1]
        /\ UNCHANGED <<umbrella, current, starting, exclusive, ready, process, allowed>>
    BY <1>4 DEF EndRequest, umbrellaVars
  <2>2. p = current /\ ~exclusive
    BY <2>1 DEF DaemonInv, OnlyCurrentWorks, LockHeld
  <2>3. umbrella \notin {"starting", "takeover"}
    BY <2>2, <1>0 DEF DaemonInv, LockHeld
  <2>4. TypesOK'
    BY <2>1 DEF DaemonInv, TypesOK
  <2>5. ForkedInOrder' /\ OnlyCurrentWorks'
    BY <2>1 DEF DaemonInv, ForkedInOrder, OnlyCurrentWorks
  <2>6. StartingOK' /\ LockHeld'
    BY <2>1 DEF DaemonInv, StartingOK, LockHeld
  <2>7. ObjectsKnown'
    BY <1>0, <2>1, <2>2, <2>3 DEF DaemonInv, TypesOK, ObjectsKnown
  <2> QED
    BY <2>4, <2>5, <2>6, <2>7 DEF DaemonInv
<1> QED
  BY <1>1, <1>2, <1>3, <1>4 DEF Worker

-----------------------------------------------------------------------------
\* The invariant holds at first, and no step of the daemon ends it.
LEMMA DaemonInductive == DaemonSpec => []DaemonInv
<1>1. DaemonInit => DaemonInv
  <2> SUFFICES ASSUME DaemonInit PROVE DaemonInv
    OBVIOUS
  <2> USE DaemonAssumption DEF DaemonInit
  <2>1. TypesOK /\ OnlyCurrentWorks /\ StartingOK /\ LockHeld /\ ObjectsKnown
    BY DEF TypesOK, OnlyCurrentWorks, StartingOK, LockHeld, ObjectsKnown
  <2>2. ForkedInOrder
    <3>1. {q \in Pids : process[q] # "none"} = 1 .. 0
      OBVIOUS
    <3>2. 0 \in 0 .. MaxWorkers
      OBVIOUS
    <3> QED
      BY <3>1, <3>2 DEF ForkedInOrder
  <2> QED
    BY <2>1, <2>2 DEF DaemonInv
<1>2. DaemonInv /\ [DaemonNext]_daemonVars => DaemonInv'
  <2> SUFFICES ASSUME DaemonInv, [DaemonNext]_daemonVars PROVE DaemonInv'
    OBVIOUS
  <2>1. CASE UNCHANGED daemonVars
    BY <2>1 DEF daemonVars, DaemonInv, TypesOK, ForkedInOrder, OnlyCurrentWorks, StartingOK, LockHeld,
                ObjectsKnown
  <2> QED
    BY <2>1, StartStep, LoopStep, WorkerStep DEF DaemonNext, Umbrella
<1> QED
  BY <1>1, <1>2, PTL DEF DaemonSpec

\* Whatever is forked, crashes, is reloaded and terminated: at most one worker does the
\* work, and it knows every object that was ever created by an API request.
THEOREM WorkersHandOver == DaemonSpec => []Handover
<1>1. DaemonInv => Handover
  <2> SUFFICES ASSUME DaemonInv PROVE Handover
    OBVIOUS
  <2> DEFINE working == {p \in Pids : process[p] = "working"}
  <2>1. working \subseteq {current}
    BY DEF DaemonInv, OnlyCurrentWorks
  <2>2. Cardinality(working) <= 1
    <3>1. IsFiniteSet({current}) /\ Cardinality({current}) = 1
      BY FS_Singleton
    <3> QED
      BY <2>1, <3>1, FS_Subset
  <2>3. \A p \in Pids : process[p] = "working" => knows[p] = created
    <3>1. 0 \notin Pids
      BY DaemonAssumption DEF Pids
    <3> QED
      BY <3>1 DEF DaemonInv, OnlyCurrentWorks, ObjectsKnown
  <2> QED
    BY <2>2, <2>3 DEF Handover
<1> QED
  BY <1>1, DaemonInductive, PTL
=============================================================================

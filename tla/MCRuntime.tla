----------------------------- MODULE MCRuntime -----------------------------
(***************************************************************************)
(* What everything else runs on: the parts of lib/base and the processes of *)
(* the daemon. They share no state, so the initial state chooses the one    *)
(* that runs: the run explores the behaviours of each instead of all their  *)
(* interleavings.                                                           *)
(***************************************************************************)
EXTENDS WorkQueue, CpuBoundWork, Timer, Daemon

CONSTANTS t1, t2, t3, c1, c2
MCPriority == [t \in Tasks |-> IF t = t2 THEN 2 ELSE 0]
MCParent == [t \in Tasks |-> IF t \in {c1, c2} THEN t1 ELSE NoTask]

VARIABLE part

vars == <<part, wqVars, cpuVars, timerVars, daemonVars>>

Init == /\ part \in {"WorkQueue", "CpuBoundWork", "Timer", "Daemon"}
        /\ WorkQueueInit /\ CpuBoundInit /\ TimerInit /\ DaemonInit

RunWorkQueue == /\ part = "WorkQueue"
                /\ WorkQueueNext
                /\ UNCHANGED <<part, cpuVars, timerVars, daemonVars>>

RunCpuBoundWork == /\ part = "CpuBoundWork"
                   /\ CpuBoundNext
                   /\ UNCHANGED <<part, wqVars, timerVars, daemonVars>>

RunTimer == /\ part = "Timer"
            /\ TimerNext
            /\ UNCHANGED <<part, wqVars, cpuVars, daemonVars>>

RunDaemon == /\ part = "Daemon"
             /\ DaemonNext
             /\ UNCHANGED <<part, wqVars, cpuVars, timerVars>>

Next == RunWorkQueue \/ RunCpuBoundWork \/ RunTimer \/ RunDaemon

\* DaemonFairness for the part. Of the others nothing has to happen in their initial
\* state, so their fairness asks nothing of a part that does not run.
RunDaemonFairness ==
    /\ WF_daemonVars(part = "Daemon" /\ Umbrella)
    /\ \A p \in Pids : WF_daemonVars(part = "Daemon" /\ Worker(p))

Spec == /\ Init /\ [][Next]_vars
        /\ WorkQueueFairness /\ CpuBoundFairness /\ TimerFairness /\ RunDaemonFairness
=============================================================================

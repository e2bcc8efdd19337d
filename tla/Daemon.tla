------------------------------- MODULE Daemon -------------------------------
(***************************************************************************)
(* The processes of a daemon (lib/cli/daemoncommand.cpp): the umbrella      *)
(* process forks a worker, waits until it has loaded its configuration and  *)
(* lets it work. On SIGHUP it starts another one, which takes over once the *)
(* old one has ended; on SIGTERM it passes the signal on. Signal handlers   *)
(* only set flags, so a signal is delivered at once. While a new worker is  *)
(* started the umbrella holds the lock of the config objects, which API     *)
(* requests of the old worker need, too. Re-opening logs is left out.       *)
(***************************************************************************)
EXTENDS Naturals, FiniteSets

CONSTANTS MaxWorkers,   \* bound on the workers
          MaxReloads,   \* bound on SIGHUPs
          MaxCreated    \* bound on objects created by API requests

ASSUME DaemonAssumption == {MaxWorkers, MaxReloads, MaxCreated} \subseteq Nat

Pids == 1..MaxWorkers

VARIABLES umbrella,      \* where the umbrella process is
          current,       \* currentWorker, 0 if there is none
          starting,      \* l_CurrentlyStartingUnixWorkerPid, nextWorker
          ready,         \* l_CurrentlyStartingUnixWorkerReady
          termSignal,    \* l_TermSignal is set; the handler is the default one now
          forwarded,     \* requestedTermination
          reload,        \* l_RequestedReload
          exclusive,     \* the umbrella has the ConfigObjectsExclusiveLock
          shared,        \* workers with a ConfigObjectsSharedLock
          process,       \* pid -> where the worker is
          allowed,       \* workers with l_AllowedToWork
          shutdown,      \* workers with m_ShuttingDown
          created,       \* objects the API has created
          knows,         \* ghost: pid -> how many of them it knows
          hups,          \* ghost: SIGHUPs so far
          tried          \* ghost: SIGHUPs before the last start of a worker

daemonVars == <<umbrella, current, starting, ready, termSignal, forwarded, reload, exclusive,
                shared, process, allowed, shutdown, created, knows, hups, tried>>
processVars == <<shared, process, allowed, shutdown, created, knows>>

DaemonInit ==
    /\ umbrella = "fork" /\ current = 0
    /\ starting = 0 /\ ready = FALSE
    /\ termSignal = FALSE /\ forwarded = FALSE /\ reload = FALSE
    /\ exclusive = FALSE /\ shared = {}
    /\ process = [p \in Pids |-> "none"]
    /\ allowed = {} /\ shutdown = {}
    /\ created = 0 /\ knows = [p \in Pids |-> 0]
    /\ hups = 0 /\ tried = 0

Ended == umbrella \in {"exited", "killed"}
Become(p, where) == process' = [process EXCEPT ![p] = where]
----------------------------------------------------------------------------
(* The umbrella process                                                     *)

\* What happens if no worker was started: the first time the daemon gives up.
NoWorker == /\ umbrella' = IF current = 0 THEN "exited" ELSE "check"
            /\ exclusive' = FALSE

\* StartUnixWorker(): fork(), which may fail, with the signals blocked.
Fork ==
    /\ umbrella = "fork"
    /\ tried' = hups
    /\ \/ /\ NoWorker
          /\ UNCHANGED <<starting, processVars>>
       \/ \E p \in Pids :
            /\ p = Cardinality({q \in Pids : process[q] # "none"}) + 1
            /\ Become(p, "loading")
            /\ starting' = p
            /\ umbrella' = "starting"
            /\ UNCHANGED <<exclusive, shared, allowed, shutdown, created, knows>>
    /\ UNCHANGED <<current, ready, termSignal, forwarded, reload, hups>>

\* StartUnixWorker() looks for the end of the new process first.
StartFailed ==
    /\ umbrella = "starting" /\ process[starting] = "zombie"
    /\ Become(starting, "reaped")
    /\ starting' = 0 /\ ready' = FALSE
    /\ NoWorker
    /\ UNCHANGED <<current, termSignal, forwarded, reload, shared, allowed, shutdown,
                   created, knows, hups, tried>>

\* Mutation of StartSucceeded: the new worker may work while the old one still ends.
StartSucceededBoth ==
    /\ umbrella = "starting" /\ process[starting] # "zombie" /\ ready
    /\ ready' = FALSE
    /\ allowed' = allowed \cup {starting}
    /\ IF current = 0
       THEN current' = starting /\ umbrella' = "term" /\ UNCHANGED shutdown
       ELSE /\ shutdown' = shutdown \cup {current}
            /\ umbrella' = "takeover"
            /\ UNCHANGED current
    /\ UNCHANGED <<starting, termSignal, forwarded, reload, exclusive, shared, process,
                   created, knows, hups, tried>>

\* Mutation of StartSucceeded: the request is done only when the worker is ready.
StartSucceededClears ==
    /\ umbrella = "starting" /\ process[starting] # "zombie" /\ ready
    /\ ready' = FALSE /\ reload' = FALSE
    /\ IF current = 0
       THEN /\ allowed' = allowed \cup {starting}
            /\ current' = starting /\ umbrella' = "term"
            /\ UNCHANGED shutdown
       ELSE /\ shutdown' = shutdown \cup {current}
            /\ umbrella' = "takeover"
            /\ UNCHANGED <<allowed, current>>
    /\ UNCHANGED <<starting, termSignal, forwarded, exclusive, shared, process, created,
                   knows, hups, tried>>

\* The first worker may work at once; otherwise the old one is asked to end.
StartSucceeded ==
    /\ umbrella = "starting" /\ process[starting] # "zombie" /\ ready
    /\ ready' = FALSE
    /\ IF current = 0
       THEN /\ allowed' = allowed \cup {starting}
            /\ current' = starting /\ umbrella' = "term"
            /\ UNCHANGED shutdown
       ELSE /\ shutdown' = shutdown \cup {current}
            /\ umbrella' = "takeover"
            /\ UNCHANGED <<allowed, current>>
    /\ UNCHANGED <<starting, termSignal, forwarded, reload, exclusive, shared, process,
                   created, knows, hups, tried>>

\* waitpid() for the old worker, then the new one may work.
Takeover ==
    /\ umbrella = "takeover" /\ process[current] = "zombie"
    /\ Become(current, "reaped")
    /\ allowed' = allowed \cup {starting}
    /\ current' = starting
    /\ exclusive' = FALSE
    /\ umbrella' = "check"
    /\ UNCHANGED <<starting, ready, termSignal, forwarded, reload, shared, shutdown, created,
                   knows, hups, tried>>

\* The loop of Run(): forward a termination signal once, ...
ForwardTermination ==
    /\ umbrella = "term"
    /\ umbrella' = "reload"
    /\ IF termSignal /\ ~forwarded
       THEN forwarded' = TRUE /\ shutdown' = shutdown \cup {current}
       ELSE UNCHANGED <<forwarded, shutdown>>
    /\ UNCHANGED <<current, starting, ready, termSignal, reload, exclusive, shared, process,
                   allowed, created, knows, hups, tried>>

\* ... start the reload, ...
HandleReload ==
    /\ umbrella = "reload"
    /\ reload' = FALSE
    /\ umbrella' = IF reload THEN "lock" ELSE "check"
    /\ UNCHANGED <<current, starting, ready, termSignal, forwarded, exclusive, processVars,
                   hups, tried>>

ExclusiveLock ==
    /\ umbrella = "lock" /\ shared = {}
    /\ exclusive' = TRUE
    /\ umbrella' = "fork"
    /\ UNCHANGED <<current, starting, ready, termSignal, forwarded, reload, processVars,
                   hups, tried>>

\* ... and look whether the worker has ended.
CheckWorker ==
    /\ umbrella = "check"
    /\ IF process[current] = "zombie"
       THEN Become(current, "reaped") /\ umbrella' = "exited"
       ELSE UNCHANGED process /\ umbrella' = "term"
    /\ UNCHANGED <<current, starting, ready, termSignal, forwarded, reload, exclusive, shared,
                   allowed, shutdown, created, knows, hups, tried>>

Umbrella == \/ Fork \/ StartFailed \/ StartSucceeded \/ Takeover
            \/ ForwardTermination \/ HandleReload \/ ExclusiveLock \/ CheckWorker

umbrellaVars == <<umbrella, current, starting, termSignal, forwarded, reload, exclusive,
                  hups, tried>>
----------------------------------------------------------------------------
(* Workers                                                                  *)

\* LoadConfigFiles(): SIGUSR2 counts if it comes from the worker being started.
LoadConfig(p) ==
    /\ process[p] = "loading"
    /\ Become(p, "waiting")
    /\ knows' = [knows EXCEPT ![p] = created]
    /\ ready' = (ready \/ p = starting)
    /\ UNCHANGED <<umbrellaVars, shared, allowed, shutdown, created>>

\* The configuration is invalid, or the worker crashes; a lock it has is not given back.
Die(p) ==
    /\ process[p] \in {"loading", "waiting", "working"}
    /\ Become(p, "zombie")
    /\ UNCHANGED <<umbrellaVars, ready, shared, allowed, shutdown, created, knows>>

StartWorking(p) ==
    /\ process[p] = "waiting" /\ p \in allowed
    /\ Become(p, "working")
    /\ UNCHANGED <<umbrellaVars, ready, shared, allowed, shutdown, created, knows>>

\* The event loop ends and the worker waits for its API requests.
EndWorker(p) ==
    /\ process[p] = "working" /\ p \in shutdown /\ p \notin shared
    /\ Become(p, "zombie")
    /\ UNCHANGED <<umbrellaVars, ready, shared, allowed, shutdown, created, knows>>

\* An API request gets the shared lock, or answers "Icinga is reloading".
BeginRequest(p) ==
    /\ process[p] = "working" /\ p \notin shared /\ created < MaxCreated
    /\ ~exclusive
    /\ shared' = shared \cup {p}
    /\ UNCHANGED <<umbrellaVars, ready, process, allowed, shutdown, created, knows>>

EndRequest(p) ==
    /\ process[p] = "working" /\ p \in shared
    /\ shared' = shared \ {p}
    /\ created' = created + 1
    /\ knows' = [knows EXCEPT ![p] = @ + 1]
    /\ UNCHANGED <<umbrellaVars, ready, process, allowed, shutdown>>

\* A worker asks for a restart, as does anybody else, by SIGHUP.
RequestReload ==
    /\ ~Ended /\ hups < MaxReloads
    /\ hups' = hups + 1
    /\ reload' = TRUE
    /\ UNCHANGED <<umbrella, current, starting, ready, termSignal, forwarded, exclusive,
                   processVars, tried>>

\* The handler of a termination signal restores the default: the second one kills.
Terminate ==
    /\ ~Ended
    /\ IF termSignal THEN umbrella' = "killed" /\ UNCHANGED termSignal
                     ELSE termSignal' = TRUE /\ UNCHANGED umbrella
    /\ UNCHANGED <<current, starting, ready, forwarded, reload, exclusive, processVars, hups,
                   tried>>

Worker(p) == LoadConfig(p) \/ StartWorking(p) \/ EndWorker(p) \/ EndRequest(p)

DaemonNext == \/ Umbrella
              \/ \E p \in Pids : Worker(p) \/ Die(p) \/ BeginRequest(p)
              \/ RequestReload \/ Terminate

\* The processes run; requests are answered.
DaemonFairness == /\ WF_daemonVars(Umbrella)
                  /\ \A p \in Pids : WF_daemonVars(Worker(p))

DaemonSpec == DaemonInit /\ [][DaemonNext]_daemonVars /\ DaemonFairness

DaemonTypeOK ==
    /\ umbrella \in {"fork", "starting", "takeover", "term", "reload", "lock", "check",
                     "exited", "killed"}
    /\ current \in Pids \cup {0} /\ starting \in Pids \cup {0}
    /\ {ready, termSignal, forwarded, reload, exclusive} \subseteq BOOLEAN
    /\ shared \cup allowed \cup shutdown \subseteq Pids
    /\ process \in [Pids -> {"none", "loading", "waiting", "working", "zombie", "reaped"}]
    /\ created \in 0..MaxCreated /\ knows \in [Pids -> 0..MaxCreated]
    /\ tried \in 0..hups /\ hups \in 0..MaxReloads
----------------------------------------------------------------------------
\* At most one worker does the work, and it knows every object the API has created,
\* by itself or by the worker before: "Its config changes would not be visible to the
\* new one after config load."
Handover ==
    /\ Cardinality({p \in Pids : process[p] = "working"}) <= 1
    /\ \A p \in Pids : process[p] = "working" => knows[p] = created

\* A termination that was forwarded before a reload replaced the worker is forgotten.
Forgotten == forwarded /\ current \notin shutdown

\* A worker that died with its lock leaves the umbrella waiting for it.
Abandoned == \E p \in shared : process[p] # "working"

\* Nothing that is asked of the daemon by a signal is lost: after a termination request
\* it ends, and for every reload request a worker is started afterwards, unless it ends
\* or one of the two cases above comes up. (Limited by the number of workers.)
SignalsAreObeyed ==
    /\ termSignal ~> Ended \/ Forgotten \/ Abandoned
    /\ [](reload => <>((~reload /\ tried = hups) \/ Ended \/ Abandoned))
=============================================================================

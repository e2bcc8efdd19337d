------------------------------ MODULE FileSync ------------------------------
(***************************************************************************)
(* The configuration files of a zone on their way from the config master    *)
(* down the levels of the cluster (lib/remote/apilistener-filesync.cpp).    *)
(* Node 1 is the config master; every other node gets what the one above it *)
(* has in production, with each new connection. An update is staged,        *)
(* validated by a process of its own, copied file by file over the          *)
(* production directory, and activated by a reload. Updates are handled by  *)
(* detached threads behind one lock; processes crash, or are replaced while *)
(* such a thread works. There is one zone, which is global.                 *)
(***************************************************************************)
EXTENDS Integers, Sequences

CONSTANTS Depth,        \* the number of nodes, one per level
          NumFiles,     \* the number of files, in the order they are copied
          Deployments,  \* what zones.d of the master may hold: file -> content, or 0
          Loadable,     \* what the other nodes can load
          MaxEvents     \* bound: publications, crashes, breaks, write errors, reloads by hand

NoFiles == [f \in 1..NumFiles |-> 0]

ASSUME FileSyncAssumption ==
    /\ {Depth, NumFiles} \subseteq Nat \ {0} /\ MaxEvents \in Nat
    /\ Deployments \cup Loadable \subseteq [1..NumFiles -> Nat]
    /\ NoFiles \in Loadable

Levels == 2..Depth
Directories == [exists : BOOLEAN, ts : 0..MaxEvents, files : [1..NumFiles -> Nat]]
Handlers == [pc : {"idle", "validate", "purge", "copy"}, stage : Directories,
             todo : SUBSET (0..NumFiles)]

\* A directory that does not exist, and a process that does not
NoDirectory == [exists |-> FALSE, ts |-> 0, files |-> NoFiles]
NoProcess == <<>>
Idle == [pc |-> "idle", stage |-> NoDirectory, todo |-> {}]

VARIABLES
    production, \* node -> api/zones: ts is the content of .timestamp, 0 if it is missing
    published,  \* history: what the master published; the timestamp is the position
    incoming,   \* node -> config::Update messages sent to it that no thread has begun with
    handler,    \* node -> the thread that holds m_ConfigSyncStageLock
    failed,     \* nodes with last_failed_zones_stage_validation
    requested,  \* nodes with m_RequestRestart
    reload,     \* nodes whose umbrella process has got SIGHUP
    loading,    \* node -> what the worker to come has loaded
    loaded,     \* node -> what its worker has loaded
    attached,   \* nodes that are connected to the one above
    faults,
    forgotten,  \* ghost: nodes that changed their files and will not be asked to restart
    latest,     \* ghost: node -> the last update sent to it
    outdated    \* ghost: nodes that handled an older update after the last one

fileSyncVars == <<production, published, incoming, handler, failed, requested, reload,
                  loading, loaded, attached, faults, forgotten, latest, outdated>>
orderVars == <<latest, outdated>>

FileSyncInit ==
    /\ production = [n \in 1..Depth |-> NoDirectory]
    /\ published = <<>>
    /\ incoming = [n \in Levels |-> {}]
    /\ handler = [n \in Levels |-> Idle]
    /\ failed = {} /\ requested = {} /\ reload = {} /\ attached = {}
    /\ forgotten = {} /\ outdated = {}
    /\ latest = [n \in Levels |-> NoDirectory]
    /\ loading = [n \in Levels |-> NoProcess]
    /\ loaded = [n \in Levels |-> NoFiles]
    /\ faults = 0

\* The bound on what happens from outside is not reached.
MoreToCome == Len(published) + faults < MaxEvents

-----------------------------------------------------------------------------
(* Connections                                                              *)

\* The process of the node above ends: messages that were not received are lost.
LoseUpdates(n, here) ==
    \E rest \in SUBSET (IF n + 1 \in Levels THEN incoming[n + 1] ELSE {}) :
        incoming' = [m \in Levels |-> CASE m = n -> here
                                       [] m = n + 1 -> rest
                                       [] OTHER -> incoming[m]]

\* The master starts with the files of zones.d: SyncLocalZoneDir(). The directory is
\* replaced, and gets a new timestamp, unless there are no files any more.
SyncLocalZoneDir(files) ==
    /\ MoreToCome
    /\ IF files = NoFiles
         THEN UNCHANGED <<production, published>>
         ELSE /\ published' = Append(published, files)
              /\ production' = [production EXCEPT ![1] =
                                   [exists |-> TRUE, ts |-> Len(published'), files |-> files]]
    /\ attached' = attached \ {2}
    /\ LoseUpdates(1, {})
    /\ UNCHANGED <<handler, failed, requested, reload, loading, loaded, faults, forgotten,
                   orderVars>>

\* SendConfigUpdate() to a node that has connected, from the production directory as it is.
SendConfigUpdate(n) ==
    /\ n \notin attached
    /\ loaded[n] # NoProcess /\ (n - 1 \in Levels => loaded[n - 1] # NoProcess)
    /\ attached' = attached \cup {n}
    /\ incoming' = [incoming EXCEPT ![n] = @ \cup {production[n - 1]}]
    /\ latest' = [latest EXCEPT ![n] = production[n - 1]]
    /\ UNCHANGED <<production, published, handler, failed, requested, reload, loading, loaded,
                   faults, forgotten, outdated>>

ConnectionBreaks(n) ==
    /\ n \in attached /\ MoreToCome
    /\ faults' = faults + 1
    /\ attached' = attached \ {n}
    /\ \E rest \in SUBSET incoming[n] : incoming' = [incoming EXCEPT ![n] = rest]
    /\ UNCHANGED <<production, published, handler, failed, requested, reload, loading, loaded,
                   forgotten, orderVars>>

-----------------------------------------------------------------------------
(* HandleConfigUpdate() and TryActivateZonesStage(), under the lock         *)

\* CompareTimestampsConfigChange(): a missing timestamp is in the future when received.
TimestampChanged(old, new) == new.ts = 0 \/ old.ts < new.ts

\* Mutation of CheckConfigChange: only what is there already is compared.
CheckOldChecksums(old, new) == \E f \in 1..NumFiles : old.files[f] \notin {0, new.files[f]}

\* Checksums are compared in both directions, internal files are not.
CheckConfigChange(old, new) == old.files # new.files

\* The update does not have a path of the production directory, .timestamp included.
PathRemoved(old, new) ==
    \/ old.ts # 0 /\ new.ts = 0
    \/ \E f \in 1..NumFiles : old.files[f] # 0 /\ new.files[f] = 0

HandleConfigUpdate(n) ==
    /\ handler[n] = Idle
    /\ \E new \in incoming[n] :
         LET old == production[n]
             change == /\ new.exists /\ TimestampChanged(old, new)
                       /\ CheckConfigChange(old, new) \/ PathRemoved(old, new)
         IN /\ incoming' = [incoming EXCEPT ![n] = @ \ {new}]
            /\ production' = [production EXCEPT ![n].exists = @ \/ new.exists]
            /\ IF change
                 THEN /\ handler' = [handler EXCEPT ![n].pc = "validate", ![n].stage = new]
                      /\ UNCHANGED failed
                 ELSE /\ failed' = failed \ {n}
                      /\ UNCHANGED handler
            /\ outdated' = IF latest[n] \in incoming'[n] \cup {new} THEN outdated \ {n}
                                                                    ELSE outdated \cup {n}
    /\ UNCHANGED <<published, requested, reload, loading, loaded, attached, faults, forgotten,
                   latest>>

\* The validating process succeeds ...
StageValidated(n) ==
    /\ handler[n].pc = "validate"
    /\ handler[n].stage.files \in Loadable
    /\ handler' = [handler EXCEPT ![n].pc = "purge"]
    /\ UNCHANGED <<production, published, incoming, failed, requested, reload, loading, loaded,
                   attached, faults, forgotten, orderVars>>

\* ... or fails, if only because it is killed after the reload timeout.
StageRejected(n) ==
    /\ handler[n].pc = "validate"
    /\ handler' = [handler EXCEPT ![n] = Idle]
    /\ failed' = failed \cup {n}
    /\ UNCHANGED <<production, published, incoming, requested, reload, loading, loaded, attached,
                   faults, forgotten, orderVars>>

\* The paths of a directory: 0 is .timestamp, which is sorted and copied first.
PathsOf(dir) == {f \in 1..NumFiles : dir.files[f] # 0} \cup (IF dir.ts = 0 THEN {} ELSE {0})

PurgeProduction(n) ==
    /\ handler[n].pc = "purge"
    /\ production' = [production EXCEPT ![n] = NoDirectory]
    /\ handler' = [handler EXCEPT ![n].pc = "copy", ![n].todo = PathsOf(handler[n].stage)]
    /\ UNCHANGED <<published, incoming, failed, requested, reload, loading, loaded, attached,
                   faults, forgotten, orderVars>>

CopyFile(n) ==
    /\ handler[n].pc = "copy"
    /\ \E path \in handler[n].todo :
         LET stage == handler[n].stage
         IN /\ \A other \in handler[n].todo : path <= other
            /\ production' = [production EXCEPT ![n] =
                   IF path = 0 THEN [@ EXCEPT !.exists = TRUE, !.ts = stage.ts]
                   ELSE [@ EXCEPT !.exists = TRUE, !.files[path] = stage.files[path]]]
            /\ handler' = [handler EXCEPT ![n].todo = @ \ {path}]
    /\ UNCHANGED <<published, incoming, failed, requested, reload, loading, loaded, attached,
                   faults, forgotten, orderVars>>

\* A file cannot be written: the thread ends with the exception. The next update may
\* find nothing to change, so that what was copied is not loaded.
CopyFails(n) ==
    /\ handler[n].pc = "copy" /\ handler[n].todo # {} /\ MoreToCome
    /\ faults' = faults + 1
    /\ handler' = [handler EXCEPT ![n] = Idle]
    /\ failed' = failed \cup {n} /\ forgotten' = forgotten \cup {n}
    /\ UNCHANGED <<production, published, incoming, requested, reload, loading, loaded, attached,
                   orderVars>>

\* Everything is copied: the failure is forgotten and RequestRestart() called.
StageActivated(n) ==
    /\ handler[n].pc = "copy" /\ handler[n].todo = {}
    /\ handler' = [handler EXCEPT ![n] = Idle]
    /\ failed' = failed \ {n}
    /\ requested' = requested \cup {n}
    /\ UNCHANGED <<production, published, incoming, reload, loading, loaded, attached, faults,
                   forgotten, orderVars>>

-----------------------------------------------------------------------------
(* Processes                                                                *)

\* RunEventLoop() forwards the request to the umbrella process.
ForwardRequest(n) ==
    /\ n \in requested
    /\ requested' = requested \ {n} /\ reload' = reload \cup {n}
    /\ UNCHANGED <<production, published, incoming, handler, failed, loading, loaded, attached,
                   faults, forgotten, orderVars>>

ReloadByHand(n) ==
    /\ n \notin reload /\ loaded[n] # NoProcess /\ MoreToCome
    /\ reload' = reload \cup {n} /\ faults' = faults + 1
    /\ UNCHANGED <<production, published, incoming, handler, failed, requested, loading, loaded,
                   attached, forgotten, orderVars>>

\* The new worker reads the production directory (IncludeNonLocalZone()). If it cannot
\* load the files the old one stays.
LoadConfigFiles(n) ==
    /\ n \in reload /\ loading[n] = NoProcess
    /\ reload' = reload \ {n}
    /\ IF production[n].files \in Loadable
         THEN /\ loading' = [loading EXCEPT ![n] = production[n].files]
              /\ forgotten' = forgotten \ {n}
         ELSE UNCHANGED <<loading, forgotten>>
    /\ UNCHANGED <<production, published, incoming, handler, failed, requested, loaded, attached,
                   faults, orderVars>>

\* A directory of which some files, and maybe .timestamp, are removed
Remainder(dir, ts, kept) ==
    [exists |-> dir.exists, ts |-> ts,
     files |-> [f \in 1..NumFiles |-> IF f \in kept THEN dir.files[f] ELSE 0]]

\* What is left of the directory: a purge may not have got to its end.
Remains(n) ==
    LET dir == production[n]
    IN IF handler[n].pc # "purge" THEN {dir}
       ELSE {Remainder(dir, ts, kept) : ts \in {0, dir.ts}, kept \in SUBSET (1..NumFiles)}

\* The old worker ends with its threads: ApiListener::Stop() does not wait for the one
\* that handles an update.
EndProcess(n) ==
    /\ handler' = [handler EXCEPT ![n] = Idle]
    /\ attached' = attached \ {n, n + 1}
    /\ LoseUpdates(n, {})
    /\ requested' = requested \ {n}

TakeOver(n) ==
    /\ loading[n] # NoProcess
    /\ loaded' = [loaded EXCEPT ![n] = loading[n]]
    /\ loading' = [loading EXCEPT ![n] = NoProcess]
    /\ forgotten' = IF n \in requested \/ handler[n].pc \in {"purge", "copy"}
                    THEN forgotten \cup {n} ELSE forgotten
    /\ production' \in {[production EXCEPT ![n] = dir] : dir \in Remains(n)}
    /\ EndProcess(n)
    /\ UNCHANGED <<published, failed, reload, faults, orderVars>>

\* Umbrella process and worker are killed; the node starts again if it can. The state file
\* it restores may be older: a failure is lost, or one that was cleared is back.
Crash(n) ==
    /\ loaded[n] # NoProcess /\ MoreToCome
    /\ faults' = faults + 1
    /\ \E dir \in Remains(n) :
         /\ production' = [production EXCEPT ![n] = dir]
         /\ loaded' = [loaded EXCEPT ![n] = IF dir.files \in Loadable THEN dir.files
                                                                      ELSE NoProcess]
    /\ loading' = [loading EXCEPT ![n] = NoProcess]
    /\ reload' = reload \ {n}
    /\ forgotten' = forgotten \ {n}
    /\ failed' \in {failed \ {n}, failed \cup {n}}
    /\ EndProcess(n)
    /\ UNCHANGED <<published, orderVars>>

-----------------------------------------------------------------------------
FileSyncNext ==
    \/ \E files \in Deployments : SyncLocalZoneDir(files)
    \/ \E n \in Levels :
         \/ SendConfigUpdate(n) \/ ConnectionBreaks(n)
         \/ HandleConfigUpdate(n) \/ StageValidated(n) \/ StageRejected(n)
         \/ PurgeProduction(n) \/ CopyFile(n) \/ CopyFails(n) \/ StageActivated(n)
         \/ ForwardRequest(n) \/ ReloadByHand(n) \/ LoadConfigFiles(n) \/ TakeOver(n)
         \/ Crash(n)

FileSyncSpec == FileSyncInit /\ [][FileSyncNext]_fileSyncVars

-----------------------------------------------------------------------------
\* Every variable has its type.
FileSyncTypeOK ==
    /\ production \in [1..Depth -> Directories]
    /\ published \in Seq(Deployments)
    /\ incoming \in [Levels -> SUBSET Directories]
    /\ handler \in [Levels -> Handlers]
    /\ failed \cup requested \cup reload \cup attached \cup forgotten \cup outdated \subseteq Levels
    /\ loading \in [Levels -> Loadable \cup {NoProcess}]
    /\ loaded \in [Levels -> Loadable \cup {NoProcess}]
    /\ latest \in [Levels -> Directories]
    /\ faults \in 0..MaxEvents

\* All messages are handled and all nodes connected, nothing is about to be activated.
FilesSettled ==
    /\ attached = Levels
    /\ \A n \in Levels : incoming[n] = {} /\ handler[n] = Idle /\ loading[n] = NoProcess
    /\ requested \cup reload = {}

\* The directory has its timestamp but not the files that were published with it.
Torn(n) == production[n].ts # 0 /\ production[n].files # published[production[n].ts]

\* Once everything is settled a node has the files of the one above it, and its process
\* has loaded them, whatever crashed, broke or was reloaded on the way. Except where the
\* code gives up: the last validation failed; the threads of two updates took the lock in
\* the wrong order; the node above went back to an older version that way; the copy was
\* cut off after .timestamp, so that the same update does not count as a change any more;
\* the node above has such a directory itself, or none, and the update does not mention
\* the zone; or files were replaced, but nobody asks for a restart any more.
FilesInSync ==
    FilesSettled => \A n \in Levels :
        \/ n \in failed \cup outdated
        \/ production[n].ts > production[n - 1].ts
        \/ production[n].ts = production[n - 1].ts /\ Torn(n)
        \/ production[n - 1].ts = 0 \/ Torn(n - 1)
        \/ /\ production[n].files = production[n - 1].files
           /\ loaded[n] = production[n].files \/ n \in forgotten
=============================================================================

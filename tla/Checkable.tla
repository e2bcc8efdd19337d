------------------------------ MODULE Checkable ------------------------------
(* The state of one host or service on the node that has authority over it:   *)
(* Checkable::ProcessCheckResult (lib/icinga/checkable-check.cpp), the         *)
(* acknowledgements of lib/icinga/checkable.cpp and the suppressed             *)
(* notifications of lib/icinga/checkable-notification.cpp.                     *)
(*                                                                             *)
(* ProcessCheckResult runs under the ObjectLock of the checkable and is one    *)
(* step.  FireSuppressedNotifications takes that lock only at its end, so it   *)
(* is two: it looks at the state and requests notifications, and then clears   *)
(* the types it has dealt with.                                                *)
EXTENDS Naturals

CONSTANTS IsHost,            \* a host (Up, Down) or a service
          States,            \* the plugin states that occur, including "OK"
          Volatile,          \* Checkable: volatile
          EnableFlapping,    \* Checkable: enable_flapping
          Peers,             \* other nodes of the cluster send acknowledgements
          MaxCheckAttempts   \* Checkable: max_check_attempts

ServiceStates == {"OK", "WARNING", "CRITICAL", "UNKNOWN"}

ASSUME CheckableAssumption ==
    /\ IsHost \in BOOLEAN
    /\ States \subseteq ServiceStates
    /\ "OK" \in States
    /\ Volatile \in BOOLEAN
    /\ EnableFlapping \in BOOLEAN
    /\ Peers \in BOOLEAN
    /\ MaxCheckAttempts \in Nat \ {0}

StateTypes == {"Problem", "Recovery"}
FlappingTypes == {"FlappingStart", "FlappingEnd"}
NotificationTypes == StateTypes \cup FlappingTypes

VARIABLES
    stateRaw, stateType, checkAttempt, \* state_raw, state_type, check_attempt
    lastHardState,     \* last_hard_state_raw
    acknowledgement,   \* acknowledgement: "none", "normal" or "sticky"
    downtime,          \* "none", a flexible one that is "armed", "active"
    reachable,         \* IsReachable(DependencyNotification)
    flapping,          \* flapping
    suppressed,        \* suppressed_notifications, as a set of types
    stateBefore,       \* state_before_suppression
    firing,            \* FireSuppressedNotifications is about to subtract these
    requested,         \* history: OnNotificationsRequested types of this step
    told,              \* history: the state the last request reported
    lost,              \* history: why a notification may have been dropped
    streak, everOK     \* history: NOT-OK results in a row, any OK result yet

stateVars == <<stateRaw, stateType, checkAttempt, lastHardState>>
envVars == <<acknowledgement, downtime, reachable>>
suppressVars == <<suppressed, stateBefore>>
history == <<lost, streak, everOK>>
vars == <<stateRaw, stateType, checkAttempt, lastHardState,
          acknowledgement, downtime, reachable, flapping, suppressed,
          stateBefore, firing, requested, told, lost, streak,
          everOK>>

TypeOK ==
    /\ stateRaw \in ServiceStates
    /\ stateType \in {"Soft", "Hard"}
    /\ checkAttempt \in 1..MaxCheckAttempts
    /\ lastHardState \in ServiceStates
    /\ acknowledgement \in {"none", "normal", "sticky"}
    /\ downtime \in {"none", "armed", "active"}
    /\ reachable \in BOOLEAN
    /\ flapping \in BOOLEAN
    /\ suppressed \subseteq NotificationTypes
    /\ stateBefore \in ServiceStates
    /\ firing \subseteq NotificationTypes
    /\ requested \subseteq NotificationTypes
    /\ told \in ServiceStates
    /\ lost \subseteq {"race", "flapping"}
    /\ streak \in 0..MaxCheckAttempts
    /\ everOK \in BOOLEAN

\* The defaults of checkable.ti: UNKNOWN, SOFT, first attempt, nothing suppressed.
Init ==
    /\ stateRaw = "UNKNOWN"
    /\ stateType = "Soft"
    /\ checkAttempt = 1
    /\ lastHardState = "UNKNOWN"
    /\ acknowledgement = "none"
    /\ downtime = "none"
    /\ reachable = TRUE
    /\ flapping = FALSE
    /\ suppressed = {}
    /\ stateBefore = "OK"
    /\ firing = {}
    /\ requested = {}
    /\ told = "OK"
    /\ lost = {}
    /\ streak = 0
    /\ everOK = FALSE

-----------------------------------------------------------------------------
\* Host::IsStateOK and Service::IsStateOK
IsStateOK(s) == s = "OK" \/ (IsHost /\ s = "WARNING")

\* What a user sees: Host::CalculateState, or the service state itself.
Level(s) == IF ~IsHost THEN s ELSE IF IsStateOK(s) THEN "Up" ELSE "Down"

\* The pieces of ProcessCheckResult for a result with state new, computed from
\* the state before it.
Attempt(new) ==
    IF ~IsStateOK(new) /\ ~IsStateOK(stateRaw) /\ stateType = "Soft"
    THEN checkAttempt + 1
    ELSE 1

\* Mutation of NewStateType: the problem is hard one attempt early.
NewStateTypeEarly(new) ==
    IF \/ IsStateOK(new)
       \/ Attempt(new) + 1 >= MaxCheckAttempts
       \/ stateType = "Hard" /\ ~IsStateOK(stateRaw)
    THEN "Hard"
    ELSE "Soft"

NewStateType(new) ==
    IF \/ IsStateOK(new)
       \/ Attempt(new) >= MaxCheckAttempts
       \/ stateType = "Hard" /\ ~IsStateOK(stateRaw)
    THEN "Hard"
    ELSE "Soft"

NewAttempt(new) == IF Attempt(new) >= MaxCheckAttempts THEN 1 ELSE Attempt(new)

Recovery(new) == IsStateOK(new) /\ ~IsStateOK(stateRaw)

StateChange(new) == Level(new) # Level(stateRaw)

HardChange(new) ==
    NewStateType(new) = "Hard" /\ (stateType = "Soft" \/ StateChange(new))

\* A normal acknowledgement ends with any state change, a sticky one with OK.
NewAcknowledgement(new) ==
    IF /\ StateChange(new)
       /\ acknowledgement = "normal" \/ IsStateOK(new)
    THEN "none"
    ELSE acknowledgement

\* TriggerDowntimes: a NOT-OK result starts flexible downtimes.
NewDowntime(new) ==
    IF ~IsStateOK(new) /\ downtime = "armed" THEN "active" ELSE downtime

SuppressNotification(new) ==
    ~reachable \/ NewDowntime(new) = "active" \/ NewAcknowledgement(new) # "none"

SendNotification(new) ==
    /\ \/ HardChange(new) /\ ~(stateType = "Soft" /\ IsStateOK(new))
       \/ Volatile /\ NewStateType(new) = "Hard"
    /\ ~(IsStateOK(stateRaw) /\ stateType = "Soft")
    /\ ~(Volatile /\ IsStateOK(stateRaw) /\ IsStateOK(new))

StateNotification(new) == IF Recovery(new) THEN "Recovery" ELSE "Problem"

\* The flapping notification, if UpdateFlappingStatus changed the flag.
FlappingNotification(flap) ==
    IF flap = flapping THEN {}
    ELSE IF flap THEN {"FlappingStart"} ELSE {"FlappingEnd"}

\* suppressed_types: withheld because of a downtime, an acknowledgement or a
\* failed dependency, or because other state notifications still wait.
Withheld(new, flap) ==
    (IF NewDowntime(new) = "active" THEN FlappingNotification(flap) ELSE {})
    \cup
    (IF /\ SendNotification(new)
        /\ ~flap
        /\ SuppressNotification(new) \/ suppressed \cap StateTypes # {}
     THEN {StateNotification(new)} ELSE {})

\* The notifications that are requested right away.
Requested(new, flap) ==
    (FlappingNotification(flap)
        \cup (IF SendNotification(new) /\ ~flap THEN {StateNotification(new)}
              ELSE {}))
    \ Withheld(new, flap)

\* Flapping start and end cancel out each other.
Conflict(types) ==
    IF FlappingTypes \subseteq types THEN types \ FlappingTypes ELSE types

\* Mutation of NewStateBefore: a soft state is remembered like a hard one.
NewStateBeforeSoft(new, flap) ==
    IF suppressed \cap StateTypes = {} /\ Withheld(new, flap) \cap StateTypes # {}
    THEN stateRaw ELSE stateBefore

\* The state before the first state notification was withheld.
NewStateBefore(new, flap) ==
    IF suppressed \cap StateTypes = {} /\ Withheld(new, flap) \cap StateTypes # {}
    THEN IF stateType = "Hard" THEN stateRaw ELSE "OK"
    ELSE stateBefore

NewLastHardState(new) ==
    IF HardChange(new) \/ Volatile THEN new ELSE lastHardState

-----------------------------------------------------------------------------
\* A result is accepted.  The flag flap is what IsFlapping() says after
\* UpdateFlappingStatus (module Flapping).
ProcessCheckResult(new, flap) ==
    /\ flap => EnableFlapping
    /\ stateRaw' = new
    /\ stateType' = NewStateType(new)
    /\ checkAttempt' = NewAttempt(new)
    /\ lastHardState' = NewLastHardState(new)
    /\ acknowledgement' = NewAcknowledgement(new)
    /\ downtime' = NewDowntime(new)
    /\ flapping' = flap
    /\ suppressed' = Conflict(suppressed \cup Withheld(new, flap))
    /\ stateBefore' = NewStateBefore(new, flap)
    /\ requested' = Requested(new, flap)
    /\ told' = IF Requested(new, flap) \cap StateTypes # {} THEN new ELSE told
    /\ lost' = lost
               \cup (IF firing # {} /\ Withheld(new, flap) # {} THEN {"race"} ELSE {})
               \cup (IF SendNotification(new) /\ flap THEN {"flapping"} ELSE {})
    /\ streak' = IF IsStateOK(new) THEN 0
                 ELSE IF streak < MaxCheckAttempts THEN streak + 1 ELSE streak
    /\ everOK' = (everOK \/ IsStateOK(new))
    /\ UNCHANGED <<reachable, firing>>

\* NotificationReasonSuppressed for Problem and Recovery
StateSuppressed ==
    ~reachable \/ downtime = "active" \/ acknowledgement # "none"

\* Mutation of FireState: soft states are reported as well.
FireStateSoft(soon) == suppressed \cap StateTypes # {} /\ ~StateSuppressed /\ ~soon

\* The four conditions for dealing with the withheld state notifications; soon
\* stands for a check or a parent's recovery that must be waited for.
FireState(soon) ==
    /\ suppressed \cap StateTypes # {}
    /\ ~StateSuppressed
    /\ stateType = "Hard"
    /\ ~soon

\* NotificationReasonApplies for the flapping types
FlappingApplies(t) == (t = "FlappingStart") <=> flapping

\* The types a round of FireSuppressedNotifications requests ...
FireRequests(soon) ==
    (IF FireState(soon) /\ stateRaw # stateBefore
     THEN {IF IsStateOK(stateRaw) THEN "Recovery" ELSE "Problem"} ELSE {})
    \cup {t \in suppressed \cap FlappingTypes :
            FlappingApplies(t) /\ downtime # "active" /\ ~soon}

\* ... and the ones it subtracts.
FireSubtracts(soon) ==
    (IF FireState(soon) THEN StateTypes ELSE {})
    \cup {t \in suppressed \cap FlappingTypes : ~FlappingApplies(t)}
    \cup (FireRequests(soon) \cap FlappingTypes)

\* FireSuppressedNotifications up to the point where it takes the lock ...
FireSuppressedNotifications(soon) ==
    /\ firing = {}
    /\ FireSubtracts(soon) # {}
    /\ firing' = FireSubtracts(soon)
    /\ requested' = FireRequests(soon)
    /\ told' = IF FireRequests(soon) \cap StateTypes # {} THEN stateRaw ELSE told
    /\ UNCHANGED <<stateVars, envVars, flapping, suppressVars, history>>

\* ... and the rest of it, under the lock.
SubtractSuppressed ==
    /\ firing # {}
    /\ suppressed' = suppressed \ firing
    /\ firing' = {}
    /\ requested' = {}
    /\ UNCHANGED <<stateVars, envVars, flapping, stateBefore, told, history>>

-----------------------------------------------------------------------------
(* What users, downtimes and dependencies do to the object                    *)

\* Everything but the given part of the environment stays, nothing is requested.
Quiet ==
    /\ requested' = {}
    /\ UNCHANGED <<stateVars, flapping, suppressVars, firing, told, history>>

\* The early returns of ProcessCheckResult: the component that produced the
\* result is stopping, the object is inactive, or the current result is newer.
RefuseCheckResult == Quiet /\ UNCHANGED envVars

\* A user acknowledges a problem that is not acknowledged yet.
AcknowledgeProblem(type) ==
    /\ ~IsStateOK(stateRaw)
    /\ acknowledgement = "none"
    /\ acknowledgement' = type
    /\ Quiet
    /\ UNCHANGED <<downtime, reachable>>

\* The acknowledgement of a user of another node: the state is not looked at.
AcknowledgementSetAPIHandler(type) ==
    /\ Peers
    /\ acknowledgement = "none"
    /\ acknowledgement' = type
    /\ Quiet
    /\ UNCHANGED <<downtime, reachable>>

\* ClearAcknowledgement: removed by a user, or found to be expired.
ClearAcknowledgement ==
    /\ acknowledgement # "none"
    /\ acknowledgement' = "none"
    /\ Quiet
    /\ UNCHANGED <<downtime, reachable>>

\* A fixed downtime begins, a flexible one waits for a problem, one ends.
SetDowntime(d) ==
    /\ downtime # d
    /\ (d = "armed") => downtime = "none"
    /\ downtime' = d
    /\ Quiet
    /\ UNCHANGED <<acknowledgement, reachable>>

\* A parent fails or recovers.
SetReachable ==
    /\ reachable' = ~reachable
    /\ Quiet
    /\ UNCHANGED <<acknowledgement, downtime>>

Next ==
    \/ \E new \in States, flap \in BOOLEAN : ProcessCheckResult(new, flap)
    \/ RefuseCheckResult
    \/ \E soon \in BOOLEAN : FireSuppressedNotifications(soon)
    \/ SubtractSuppressed
    \/ \E type \in {"normal", "sticky"} : AcknowledgeProblem(type)
    \/ \E type \in {"normal", "sticky"} : AcknowledgementSetAPIHandler(type)
    \/ ClearAcknowledgement
    \/ \E d \in {"none", "armed", "active"} : SetDowntime(d)
    \/ SetReachable

Spec == Init /\ [][Next]_vars

-----------------------------------------------------------------------------
(* Properties                                                                *)

\* The state the users should know of: problems count once they are hard.
HardLevel == IF stateType = "Hard" THEN Level(stateRaw) ELSE Level("OK")

\* Whatever downtimes, acknowledgements and dependencies do to notifications: if
\* none is waiting, the last one requested reported the current hard state.
\* Excused are notifications dropped while flapping, and results that arrive
\* while FireSuppressedNotifications is between its two steps.
NothingLost ==
    lost = {} /\ suppressed \cap StateTypes = {} => Level(told) = HardLevel

\* The same without the second excuse.  ProcessCheckResult: "If there are still
\* some pending suppressed state notification, keep the suppression until these
\* are handled by Checkable::FireSuppressedNotifications()."
NothingLostInRace ==
    "flapping" \notin lost /\ suppressed \cap StateTypes = {} /\ firing = {}
        => Level(told) = HardLevel

\* A state notification always tells something new, unless the object is
\* volatile: none repeats the state that was reported before.
OnlyNews ==
    [][lost' = {} /\ ~Volatile /\ requested' \cap StateTypes # {}
        => Level(told') # Level(told)]_vars

\* last_hard_state follows the state in every way it can become hard.
HardStateRecorded ==
    stateType = "Hard" => Level(lastHardState) = Level(stateRaw)

\* The initial UNKNOWN of an object that never was OK counts as one more result.
InitialResult == IF everOK THEN 0 ELSE 1

\* A problem becomes hard only after max_check_attempts results in a row, the
\* initial UNKNOWN included.
HardAfterRechecks ==
    stateType = "Hard" /\ ~IsStateOK(stateRaw) =>
        streak + InitialResult >= MaxCheckAttempts

\* An acknowledgement never outlives the problem it was made for.
AckOnlyForProblems == acknowledgement # "none" => ~IsStateOK(stateRaw)
=============================================================================

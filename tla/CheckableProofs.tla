--------------------------- MODULE CheckableProofs ---------------------------
(* Theorems about Checkable for any set of states, any max_check_attempts,     *)
(* hosts and services, volatile or not, with or without flapping.              *)
EXTENDS Checkable, TLAPS

USE CheckableAssumption

-----------------------------------------------------------------------------
\* The operators that describe a result return states, types and counters.
LEMMA ResultTypes ==
    ASSUME TypeOK, NEW new \in States, NEW flap \in BOOLEAN
    PROVE  /\ new \in ServiceStates
           /\ NewStateType(new) \in {"Soft", "Hard"}
           /\ NewAttempt(new) \in 1..MaxCheckAttempts
           /\ NewLastHardState(new) \in ServiceStates
           /\ NewAcknowledgement(new) \in {"none", "normal", "sticky"}
           /\ NewDowntime(new) \in {"none", "armed", "active"}
           /\ StateNotification(new) \in StateTypes
           /\ FlappingNotification(flap) \subseteq FlappingTypes
           /\ NewStateBefore(new, flap) \in ServiceStates
  <1>1. new \in ServiceStates
    OBVIOUS
  <1>2. NewStateType(new) \in {"Soft", "Hard"}
    BY DEF NewStateType
  <1>3. NewAttempt(new) \in 1..MaxCheckAttempts
    <2>1. Attempt(new) \in Nat \ {0}
      BY DEF Attempt, TypeOK
    <2> QED BY <2>1 DEF NewAttempt
  <1>4. NewLastHardState(new) \in ServiceStates
    BY <1>1 DEF NewLastHardState, TypeOK
  <1>5. NewAcknowledgement(new) \in {"none", "normal", "sticky"}
    BY DEF NewAcknowledgement, TypeOK
  <1>6. NewDowntime(new) \in {"none", "armed", "active"}
    BY DEF NewDowntime, TypeOK
  <1>7. StateNotification(new) \in StateTypes
    BY DEF StateNotification, StateTypes
  <1>8. FlappingNotification(flap) \subseteq FlappingTypes
    BY DEF FlappingNotification, FlappingTypes
  <1>9. NewStateBefore(new, flap) \in ServiceStates
    BY DEF NewStateBefore, TypeOK, ServiceStates
  <1> QED BY <1>1, <1>2, <1>3, <1>4, <1>5, <1>6, <1>7, <1>8, <1>9

\* What is withheld or requested is a set of notification types.
LEMMA NotificationSets ==
    ASSUME TypeOK, NEW new \in States, NEW flap \in BOOLEAN
    PROVE  /\ Withheld(new, flap) \subseteq NotificationTypes
           /\ Requested(new, flap) \subseteq NotificationTypes
           /\ Conflict(suppressed \cup Withheld(new, flap)) \subseteq NotificationTypes
  <1>1. /\ StateNotification(new) \in StateTypes
        /\ FlappingNotification(flap) \subseteq FlappingTypes
    BY ResultTypes
  <1>2. Withheld(new, flap) \subseteq NotificationTypes
    BY <1>1 DEF Withheld, NotificationTypes
  <1>3. Requested(new, flap) \subseteq NotificationTypes
    BY <1>1 DEF Requested, NotificationTypes
  <1>4. Conflict(suppressed \cup Withheld(new, flap)) \subseteq NotificationTypes
    BY <1>2 DEF Conflict, TypeOK
  <1> QED BY <1>2, <1>3, <1>4

\* The defaults of a new object have the right types.
LEMMA InitTypes == Init => TypeOK
  <1> SUFFICES ASSUME Init PROVE TypeOK
    OBVIOUS
  <1>1. /\ stateRaw \in ServiceStates
        /\ lastHardState \in ServiceStates
        /\ stateBefore \in ServiceStates
        /\ told \in ServiceStates
    BY DEF Init, ServiceStates
  <1>2. checkAttempt \in 1..MaxCheckAttempts /\ streak \in 0..MaxCheckAttempts
    BY DEF Init
  <1> QED BY <1>1, <1>2 DEF Init, TypeOK

\* Every operation keeps the types.
LEMMA TypeStep == TypeOK /\ [Next]_vars => TypeOK'
  <1> SUFFICES ASSUME TypeOK, [Next]_vars PROVE TypeOK'
    OBVIOUS
  <1>1. ASSUME NEW new \in States, NEW flap \in BOOLEAN,
               ProcessCheckResult(new, flap)
        PROVE  TypeOK'
    <2>1. /\ stateRaw' \in ServiceStates
          /\ stateType' \in {"Soft", "Hard"}
          /\ checkAttempt' \in 1..MaxCheckAttempts
          /\ lastHardState' \in ServiceStates
          /\ acknowledgement' \in {"none", "normal", "sticky"}
          /\ downtime' \in {"none", "armed", "active"}
          /\ stateBefore' \in ServiceStates
      BY <1>1, ResultTypes DEF ProcessCheckResult
    <2>2. suppressed' \subseteq NotificationTypes /\ requested' \subseteq NotificationTypes
      BY <1>1, NotificationSets DEF ProcessCheckResult
    <2>3. told' \in ServiceStates /\ lost' \subseteq {"race", "flapping"}
      BY <1>1, <2>1 DEF ProcessCheckResult, TypeOK
    <2>4. streak' \in 0..MaxCheckAttempts /\ everOK' \in BOOLEAN
      BY <1>1 DEF ProcessCheckResult, TypeOK, IsStateOK
    <2>5. reachable' \in BOOLEAN /\ flapping' \in BOOLEAN /\ firing' \subseteq NotificationTypes
      BY <1>1 DEF ProcessCheckResult, TypeOK
    <2> QED BY <2>1, <2>2, <2>3, <2>4, <2>5 DEF TypeOK
  <1>2. ASSUME NEW soon \in BOOLEAN, FireSuppressedNotifications(soon)
        PROVE  TypeOK'
    <2>1. FireRequests(soon) \subseteq NotificationTypes
      BY DEF FireRequests, NotificationTypes, StateTypes, FlappingTypes
    <2>2. FireSubtracts(soon) \subseteq NotificationTypes
      BY <2>1 DEF FireSubtracts, NotificationTypes
    <2> QED BY <1>2, <2>1, <2>2
        DEF FireSuppressedNotifications, TypeOK, stateVars, envVars, suppressVars, history
  <1>3. CASE SubtractSuppressed
    BY <1>3 DEF SubtractSuppressed, TypeOK, stateVars, envVars, history
  <1>4. CASE RefuseCheckResult
    BY <1>4 DEF RefuseCheckResult, Quiet, TypeOK, stateVars, envVars, suppressVars, history
  <1>5. ASSUME NEW type \in {"normal", "sticky"},
               AcknowledgeProblem(type) \/ AcknowledgementSetAPIHandler(type)
        PROVE  TypeOK'
    BY <1>5 DEF AcknowledgeProblem, AcknowledgementSetAPIHandler, Quiet, TypeOK, stateVars,
               suppressVars, history
  <1>6. CASE ClearAcknowledgement
    BY <1>6 DEF ClearAcknowledgement, Quiet, TypeOK, stateVars, suppressVars, history
  <1>7. ASSUME NEW d \in {"none", "armed", "active"}, SetDowntime(d)
        PROVE  TypeOK'
    BY <1>7 DEF SetDowntime, Quiet, TypeOK, stateVars, suppressVars, history
  <1>8. CASE SetReachable
    BY <1>8 DEF SetReachable, Quiet, TypeOK, stateVars, suppressVars, history
  <1>9. CASE UNCHANGED vars
    BY <1>9 DEF TypeOK, vars
  <1> QED BY <1>1, <1>2, <1>3, <1>4, <1>5, <1>6, <1>7, <1>8, <1>9 DEF Next

-----------------------------------------------------------------------------
(* The inductive invariant                                                   *)

Waiting == suppressed \cap StateTypes # {}
Firing == firing \cap StateTypes # {}

\* A soft state is never OK.
SoftIsProblem == stateType = "Soft" => ~IsStateOK(stateRaw)

\* FireSuppressedNotifications subtracts both state types or none, and they stay
\* set until it does.
FiringWhole == Firing => StateTypes \subseteq firing /\ Waiting

\* What the users know: the hard state if nothing waits or what waited has just
\* been reported, the state before the suppression otherwise.
Known ==
    lost = {} =>
        /\ ~Waiting \/ Firing => Level(told) = HardLevel
        /\ Waiting /\ ~Firing => Level(told) = Level(stateBefore)

\* The counter of a soft state is backed by that many results.
AttemptsCounted ==
    stateType = "Soft" => streak + InitialResult >= checkAttempt

IInv ==
    /\ TypeOK
    /\ SoftIsProblem
    /\ FiringWhole
    /\ Known
    /\ HardStateRecorded
    /\ AttemptsCounted
    /\ HardAfterRechecks

\* No notification type is of both kinds.
LEMMA Kinds == StateTypes \cap FlappingTypes = {}
  BY DEF StateTypes, FlappingTypes

\* Cancelling the flapping types does not touch the state types.
LEMMA ConflictState ==
    ASSUME NEW types PROVE Conflict(types) \cap StateTypes = types \cap StateTypes
  BY Kinds DEF Conflict

\* A state notification is withheld or requested exactly if one is to be sent.
LEMMA StateTypesOfResult ==
    ASSUME TypeOK, NEW new \in States, NEW flap \in BOOLEAN
    PROVE  /\ Withheld(new, flap) \cap StateTypes # {} <=>
                 SendNotification(new) /\ ~flap /\ (SuppressNotification(new) \/ Waiting)
           /\ Requested(new, flap) \cap StateTypes # {} <=>
                 SendNotification(new) /\ ~flap /\ ~(SuppressNotification(new) \/ Waiting)
  <1> DEFINE W == SuppressNotification(new) \/ Waiting
             F == FlappingNotification(flap)
  <1>1. StateNotification(new) \in StateTypes /\ F \cap StateTypes = {}
    BY ResultTypes, Kinds
  <1>2. Withheld(new, flap) \cap StateTypes =
            IF SendNotification(new) /\ ~flap /\ W THEN {StateNotification(new)} ELSE {}
    BY <1>1 DEF Withheld, Waiting
  <1>3. Requested(new, flap) \cap StateTypes =
            (IF SendNotification(new) /\ ~flap THEN {StateNotification(new)} ELSE {})
                \ Withheld(new, flap)
    BY <1>1 DEF Requested
  <1> QED BY <1>1, <1>2, <1>3

\* Levels distinguish OK from every problem.
LEMMA Levels ==
    ASSUME NEW s, NEW t, Level(s) = Level(t)
    PROVE  IsStateOK(s) <=> IsStateOK(t)
  BY DEF Level, IsStateOK

\* All states that are OK have the level of "OK".
LEMMA LevelOK == ASSUME NEW s, IsStateOK(s) PROVE Level(s) = Level("OK")
  BY DEF Level, IsStateOK

\* A result that sends nothing leaves the level of the hard state alone.
LEMMA NoSendSameLevel ==
    ASSUME TypeOK, SoftIsProblem, NEW new \in States, NEW flap \in BOOLEAN,
           ProcessCheckResult(new, flap), ~SendNotification(new)
    PROVE  HardLevel' = HardLevel
  <1>1. stateRaw' = new /\ stateType' = NewStateType(new)
    BY DEF ProcessCheckResult
  <1>2. CASE NewStateType(new) = "Soft"
    <2>1. stateType = "Soft" \/ IsStateOK(stateRaw)
      BY <1>2 DEF NewStateType, TypeOK
    <2>2. HardLevel = Level("OK")
      BY <2>1, LevelOK DEF HardLevel
    <2>3. HardLevel' = Level("OK")
      BY <1>1, <1>2 DEF HardLevel, Level, IsStateOK
    <2> QED BY <2>2, <2>3
  <1>3. CASE NewStateType(new) = "Hard"
    <2>1. HardLevel' = Level(new)
      BY <1>1, <1>3 DEF HardLevel, Level, IsStateOK
    <2>2. CASE stateType = "Soft"
      <3>1. ~IsStateOK(stateRaw)
        BY <2>2 DEF SoftIsProblem
      <3>2. IsStateOK(new)
        BY <1>3, <2>2, <3>1 DEF SendNotification, HardChange
      <3> QED BY <2>1, <2>2, <3>2, LevelOK DEF HardLevel
    <2>3. CASE stateType = "Hard"
      <3>1. ~StateChange(new) \/ (IsStateOK(stateRaw) /\ IsStateOK(new))
        BY <1>3, <2>3 DEF SendNotification, HardChange
      <3> QED BY <2>1, <2>3, <3>1, LevelOK DEF HardLevel, StateChange
    <2> QED BY <2>2, <2>3 DEF TypeOK
  <1> QED BY <1>2, <1>3 DEF NewStateType

\* A state notification that is requested reports a new hard state.
LEMMA SendNewLevel ==
    ASSUME TypeOK, SoftIsProblem, NEW new \in States, SendNotification(new)
    PROVE  NewStateType(new) = "Hard" /\ (~Volatile => Level(new) # HardLevel)
  <1>1. NewStateType(new) = "Hard"
    BY DEF SendNotification, HardChange
  <1>2. ASSUME ~Volatile PROVE Level(new) # HardLevel
    <2>1. HardChange(new) /\ ~(stateType = "Soft" /\ IsStateOK(new))
      BY <1>2 DEF SendNotification
    <2>2. CASE stateType = "Soft"
      BY <2>1, <2>2, Levels DEF HardLevel, IsStateOK
    <2>3. CASE stateType = "Hard"
      BY <2>1, <2>3 DEF HardLevel, HardChange, StateChange
    <2> QED BY <2>2, <2>3 DEF TypeOK
  <1> QED BY <1>1, <1>2

-----------------------------------------------------------------------------
\* A new object satisfies the invariant.
LEMMA InitIInv == Init => IInv
  <1> SUFFICES ASSUME Init PROVE IInv
    OBVIOUS
  <1>1. TypeOK
    BY InitTypes
  <1>2. SoftIsProblem /\ HardStateRecorded /\ HardAfterRechecks /\ AttemptsCounted
    BY DEF Init, SoftIsProblem, HardStateRecorded, HardAfterRechecks, AttemptsCounted,
           InitialResult, IsStateOK
  <1>3. FiringWhole /\ Known
    BY DEF Init, FiringWhole, Known, Waiting, Firing, HardLevel
  <1> QED BY <1>1, <1>2, <1>3 DEF IInv

\* Steps of users, downtimes and dependencies, refused results and stuttering
\* touch nothing the rest of the invariant is about.
LEMMA OtherStep ==
    ASSUME IInv, TypeOK',
           UNCHANGED <<stateVars, suppressed, stateBefore, firing, told, lost, streak, everOK>>
    PROVE  IInv'
  BY DEF IInv, SoftIsProblem, FiringWhole, Known, Waiting, Firing, HardStateRecorded,
         AttemptsCounted, HardAfterRechecks, InitialResult, HardLevel, Level, IsStateOK,
         stateVars

\* An accepted result keeps the part of the invariant about soft and hard states.
LEMMA ResultStates ==
    ASSUME IInv, NEW new \in States, NEW flap \in BOOLEAN, ProcessCheckResult(new, flap)
    PROVE  /\ SoftIsProblem'
           /\ HardStateRecorded'
           /\ AttemptsCounted'
           /\ HardAfterRechecks'
  <1>1. /\ stateRaw' = new
        /\ stateType' = NewStateType(new)
        /\ checkAttempt' = NewAttempt(new)
        /\ lastHardState' = NewLastHardState(new)
    BY DEF ProcessCheckResult
  <1>2. SoftIsProblem'
    BY <1>1 DEF SoftIsProblem, NewStateType, IsStateOK
  <1>3. HardStateRecorded'
    <2>1. SUFFICES ASSUME NewStateType(new) = "Hard"
                   PROVE  Level(NewLastHardState(new)) = Level(new)
      BY <1>1 DEF HardStateRecorded, Level, IsStateOK
    <2>2. CASE HardChange(new) \/ Volatile
      BY <2>2 DEF NewLastHardState
    <2>3. CASE ~(HardChange(new) \/ Volatile)
      <3>1. stateType = "Hard" /\ Level(new) = Level(stateRaw)
        BY <2>1, <2>3 DEF HardChange, StateChange, IInv, TypeOK
      <3> QED BY <2>3, <3>1 DEF NewLastHardState, IInv, HardStateRecorded
    <2> QED BY <2>2, <2>3
  <1>4. /\ streak' = IF IsStateOK(new) THEN 0
                     ELSE IF streak < MaxCheckAttempts THEN streak + 1 ELSE streak
        /\ everOK' = (everOK \/ IsStateOK(new))
    BY DEF ProcessCheckResult
  <1>5. /\ streak \in 0..MaxCheckAttempts
        /\ checkAttempt \in 1..MaxCheckAttempts
        /\ everOK \in BOOLEAN
        /\ stateType \in {"Soft", "Hard"}
        /\ MaxCheckAttempts \in Nat \ {0}
    BY DEF IInv, TypeOK
  <1>6. CASE IsStateOK(new)
    BY <1>1, <1>2, <1>3, <1>6 DEF AttemptsCounted, HardAfterRechecks, NewStateType, IsStateOK
  <1>7. CASE ~IsStateOK(new)
    <2>1. InitialResult \in {0, 1} /\ InitialResult' = InitialResult
      BY <1>4, <1>5, <1>7 DEF InitialResult
    <2>2. streak' = IF streak < MaxCheckAttempts THEN streak + 1 ELSE streak
      BY <1>4, <1>7
    <2>3. CASE stateType = "Soft" /\ ~IsStateOK(stateRaw)
      <3>1. streak + InitialResult >= checkAttempt
        BY <2>3 DEF IInv, AttemptsCounted
      <3>2. Attempt(new) = checkAttempt + 1
        BY <1>7, <2>3 DEF Attempt
      <3>3. streak' + InitialResult >= Attempt(new) \/ streak' = MaxCheckAttempts
        BY <3>1, <3>2, <2>1, <2>2, <1>5
      <3>4. NewStateType(new) = "Hard" <=> Attempt(new) >= MaxCheckAttempts
        BY <1>7, <2>3 DEF NewStateType
      <3>5. NewAttempt(new) <= MaxCheckAttempts /\ (NewStateType(new) = "Soft" => NewAttempt(new) = Attempt(new))
        BY <3>2, <3>4, <1>5 DEF NewAttempt
      <3>6. AttemptsCounted'
        BY <1>1, <1>5, <2>1, <3>2, <3>3, <3>5 DEF AttemptsCounted
      <3>7. HardAfterRechecks'
        BY <1>1, <1>5, <2>1, <2>2, <3>2, <3>3, <3>4 DEF HardAfterRechecks
      <3> QED BY <1>2, <1>3, <3>6, <3>7
    <2>4. CASE ~(stateType = "Soft" /\ ~IsStateOK(stateRaw))
      <3>1. Attempt(new) = 1 /\ NewAttempt(new) = 1
        BY <1>7, <2>4 DEF Attempt, NewAttempt
      <3>2. streak' >= 1 /\ streak' \in Nat /\ streak' + InitialResult' >= 1
        BY <2>1, <2>2, <1>5
      <3>3. AttemptsCounted'
        BY <1>1, <1>5, <2>1, <3>1, <3>2 DEF AttemptsCounted
      <3>4. HardAfterRechecks'
        <4>1. CASE MaxCheckAttempts = 1
          BY <1>5, <2>1, <3>2, <4>1 DEF HardAfterRechecks
        <4>2. CASE MaxCheckAttempts # 1 /\ stateType = "Hard" /\ ~IsStateOK(stateRaw)
          <5>1. streak + InitialResult >= MaxCheckAttempts
            BY <4>2 DEF IInv, HardAfterRechecks
          <5> QED BY <5>1, <2>1, <2>2, <1>5 DEF HardAfterRechecks
        <4>3. CASE MaxCheckAttempts # 1 /\ ~(stateType = "Hard" /\ ~IsStateOK(stateRaw))
          <5>1. NewStateType(new) = "Soft"
            BY <1>5, <1>7, <2>4, <3>1, <4>3 DEF NewStateType
          <5> QED BY <1>1, <5>1 DEF HardAfterRechecks
        <4> QED BY <4>1, <4>2, <4>3
      <3> QED BY <1>2, <1>3, <3>3, <3>4
    <2> QED BY <2>3, <2>4
  <1> QED BY <1>2, <1>3, <1>6, <1>7

\* An accepted result keeps what the users know in step with the hard state.
LEMMA ResultKnown ==
    ASSUME IInv, NEW new \in States, NEW flap \in BOOLEAN, ProcessCheckResult(new, flap)
    PROVE  FiringWhole' /\ Known'
  <1> DEFINE Send == SendNotification(new) /\ ~flap
             Hold == SuppressNotification(new) \/ Waiting
  <1>1. /\ suppressed' \cap StateTypes = (suppressed \cup Withheld(new, flap)) \cap StateTypes
        /\ firing' = firing
        /\ stateBefore' = NewStateBefore(new, flap)
        /\ stateRaw' = new
        /\ stateType' = NewStateType(new)
        /\ told' = IF Requested(new, flap) \cap StateTypes # {} THEN new ELSE told
    BY ConflictState DEF ProcessCheckResult
  <1>2. /\ Withheld(new, flap) \cap StateTypes # {} <=> Send /\ Hold
        /\ Requested(new, flap) \cap StateTypes # {} <=> Send /\ ~Hold
    BY StateTypesOfResult DEF IInv
  <1>3. /\ Waiting' <=> Waiting \/ (Send /\ Hold)
        /\ Firing' <=> Firing
    BY <1>1, <1>2 DEF Waiting, Firing
  <1>4. FiringWhole'
    BY <1>1, <1>3 DEF IInv, FiringWhole
  <1>5. ASSUME lost' = {} PROVE /\ ~Waiting' \/ Firing' => Level(told)' = HardLevel'
                                /\ Waiting' /\ ~Firing' => Level(told)' = Level(stateBefore)'
    <2>1. lost = {} /\ ~(SendNotification(new) /\ flap)
                    /\ ~(firing # {} /\ Withheld(new, flap) # {})
      BY <1>5 DEF ProcessCheckResult
    <2>2. /\ ~Waiting \/ Firing => Level(told) = HardLevel
          /\ Waiting /\ ~Firing => Level(told) = Level(stateBefore)
          /\ Firing => Waiting
      BY <2>1 DEF IInv, Known, FiringWhole
    <2>3. Firing => ~Send
      BY <2>1, <2>2, <1>2 DEF Firing
    <2>4. Level(told)' = Level(told') /\ Level(stateBefore)' = Level(stateBefore')
      BY DEF Level, IsStateOK
    <2>5. CASE ~Send
      <3>1. HardLevel' = HardLevel
        BY <2>1, <2>5, NoSendSameLevel DEF IInv
      <3>2. told' = told /\ (Waiting' <=> Waiting)
        BY <1>1, <1>2, <1>3, <2>5
      <3>3. stateBefore' = stateBefore
        BY <1>1, <1>2, <2>5 DEF NewStateBefore
      <3> QED BY <1>3, <2>2, <2>4, <3>1, <3>2, <3>3
    <2>6. CASE Send /\ ~Hold
      <3>1. told' = new /\ ~Waiting' /\ ~Firing
        BY <1>1, <1>2, <1>3, <2>3, <2>6
      <3>2. NewStateType(new) = "Hard"
        BY <2>6, SendNewLevel DEF IInv
      <3>3. HardLevel' = Level(new)
        BY <1>1, <3>2 DEF HardLevel, Level, IsStateOK
      <3> QED BY <1>3, <2>4, <3>1, <3>3
    <2>7. CASE Send /\ Hold
      <3>1. told' = told /\ Waiting' /\ ~Firing /\ ~Firing'
        BY <1>1, <1>2, <1>3, <2>3, <2>7
      <3>2. CASE Waiting
        BY <1>1, <2>2, <2>4, <3>1, <3>2 DEF NewStateBefore, Waiting
      <3>3. CASE ~Waiting
        <4>1. stateBefore' = IF stateType = "Hard" THEN stateRaw ELSE "OK"
          BY <1>1, <1>2, <2>7, <3>3 DEF NewStateBefore, Waiting
        <4>2. Level(stateBefore') = HardLevel
          BY <4>1 DEF HardLevel
        <4> QED BY <2>2, <2>4, <3>1, <3>3, <4>2
      <3> QED BY <3>2, <3>3
    <2> QED BY <2>5, <2>6, <2>7
  <1> QED BY <1>4, <1>5 DEF Known

\* FireSuppressedNotifications leaves the users with the current hard state.
LEMMA FireKnown ==
    ASSUME IInv, NEW soon \in BOOLEAN, FireSuppressedNotifications(soon)
    PROVE  FiringWhole' /\ Known'
  <1>1. /\ firing = {}
        /\ firing' = FireSubtracts(soon)
        /\ told' = IF FireRequests(soon) \cap StateTypes # {} THEN stateRaw ELSE told
        /\ UNCHANGED <<stateRaw, stateType, suppressed, stateBefore, lost>>
    BY DEF FireSuppressedNotifications, stateVars, suppressVars, history
  <1>2. ~Firing /\ (Waiting' <=> Waiting)
    BY <1>1 DEF Firing, Waiting
  <1>3. Firing' <=> FireState(soon)
    BY <1>1, Kinds DEF Firing, FireSubtracts, StateTypes, FlappingTypes
  <1>4. FireState(soon) => StateTypes \subseteq firing' /\ Waiting /\ stateType = "Hard"
    BY <1>1 DEF FireSubtracts, FireState, Waiting
  <1>5. FiringWhole'
    BY <1>2, <1>3, <1>4 DEF FiringWhole
  <1>6. FireRequests(soon) \cap StateTypes # {} <=> FireState(soon) /\ stateRaw # stateBefore
    BY Kinds DEF FireRequests, StateTypes, FlappingTypes
  <1>7. Level(told)' = Level(told') /\ Level(stateBefore)' = Level(stateBefore)
                                    /\ HardLevel' = HardLevel
    BY <1>1 DEF Level, IsStateOK, HardLevel
  <1>8. ASSUME lost = {}, FireState(soon) PROVE Level(told') = HardLevel
    <2>1. Level(told) = Level(stateBefore) /\ HardLevel = Level(stateRaw)
      BY <1>2, <1>4, <1>8 DEF IInv, Known, HardLevel
    <2> QED BY <1>1, <1>6, <1>8, <2>1
  <1>9. ASSUME lost = {}, ~FireState(soon) PROVE told' = told
    BY <1>1, <1>6, <1>9
  <1> QED BY <1>1, <1>2, <1>3, <1>5, <1>7, <1>8, <1>9 DEF Known, IInv

\* Clearing the types that were dealt with changes nothing the users know.
LEMMA SubtractKnown ==
    ASSUME IInv, SubtractSuppressed
    PROVE  FiringWhole' /\ Known'
  <1>1. /\ suppressed' = suppressed \ firing
        /\ firing' = {}
        /\ UNCHANGED <<stateRaw, stateType, stateBefore, told, lost>>
    BY DEF SubtractSuppressed, stateVars, history
  <1>2. ~Firing' /\ FiringWhole'
    BY <1>1 DEF FiringWhole, Firing
  <1>3. /\ Firing => ~Waiting'
        /\ ~Firing => (Waiting' <=> Waiting)
    BY <1>1 DEF IInv, FiringWhole, Firing, Waiting
  <1>4. Level(told)' = Level(told) /\ Level(stateBefore)' = Level(stateBefore)
                                   /\ HardLevel' = HardLevel
    BY <1>1 DEF Level, IsStateOK, HardLevel
  <1> QED BY <1>1, <1>2, <1>3, <1>4 DEF IInv, Known

\* The invariant is inductive.
LEMMA IInvStep == IInv /\ [Next]_vars => IInv'
  <1> SUFFICES ASSUME IInv, [Next]_vars PROVE IInv'
    OBVIOUS
  <1>0. TypeOK'
    BY TypeStep DEF IInv
  <1>1. ASSUME NEW new \in States, NEW flap \in BOOLEAN, ProcessCheckResult(new, flap)
        PROVE  IInv'
    BY <1>0, <1>1, ResultStates, ResultKnown DEF IInv
  <1>2. ASSUME NEW soon \in BOOLEAN, FireSuppressedNotifications(soon)
        PROVE  IInv'
    <2>1. UNCHANGED <<stateVars, streak, everOK>>
      BY <1>2 DEF FireSuppressedNotifications, history
    <2>2. SoftIsProblem' /\ HardStateRecorded' /\ AttemptsCounted' /\ HardAfterRechecks'
      BY <2>1 DEF IInv, SoftIsProblem, HardStateRecorded, AttemptsCounted,
                  HardAfterRechecks, InitialResult, Level, IsStateOK, stateVars
    <2> QED BY <1>0, <1>2, <2>2, FireKnown DEF IInv
  <1>3. CASE SubtractSuppressed
    <2>1. UNCHANGED <<stateVars, streak, everOK>>
      BY <1>3 DEF SubtractSuppressed, history
    <2>2. SoftIsProblem' /\ HardStateRecorded' /\ AttemptsCounted' /\ HardAfterRechecks'
      BY <2>1 DEF IInv, SoftIsProblem, HardStateRecorded, AttemptsCounted,
                  HardAfterRechecks, InitialResult, Level, IsStateOK, stateVars
    <2> QED BY <1>0, <1>3, <2>2, SubtractKnown DEF IInv
  <1>4. ASSUME UNCHANGED <<stateVars, suppressed, stateBefore, firing, told, lost, streak, everOK>>
        PROVE  IInv'
    BY <1>0, <1>4, OtherStep
  <1>5. CASE Quiet \/ UNCHANGED vars
    BY <1>4, <1>5 DEF Quiet, vars, stateVars, suppressVars, history
  <1>6. ASSUME NEW type, AcknowledgeProblem(type) \/ AcknowledgementSetAPIHandler(type)
        PROVE  Quiet
    BY <1>6 DEF AcknowledgeProblem, AcknowledgementSetAPIHandler
  <1>7. ASSUME NEW d, SetDowntime(d) PROVE Quiet
    BY <1>7 DEF SetDowntime
  <1>8. ASSUME RefuseCheckResult \/ ClearAcknowledgement \/ SetReachable PROVE Quiet
    BY <1>8 DEF RefuseCheckResult, ClearAcknowledgement, SetReachable
  <1> QED BY <1>1, <1>2, <1>3, <1>5, <1>6, <1>7, <1>8 DEF Next

\* The types of the state of a checkable, in every reachable state.
THEOREM TypeCorrect == Spec => []TypeOK
  BY InitTypes, TypeStep, PTL DEF Spec

\* The inductive invariant holds in every reachable state of a checkable.
LEMMA Invariance == Spec => []IInv
  BY InitIInv, IInvStep, PTL DEF Spec

\* However downtimes, acknowledgements, failed dependencies and check results
\* interleave with FireSuppressedNotifications: if no state notification waits,
\* the last one requested reported the current hard state.
THEOREM NobodyIsLeftBehind == Spec => []NothingLost
  <1>1. IInv => NothingLost
    BY DEF IInv, Known, NothingLost, Waiting
  <1> QED BY <1>1, Invariance, PTL

\* last_hard_state is the level of every hard state, for hosts and services.
THEOREM HardStateFollows == Spec => []HardStateRecorded
  <1>1. IInv => HardStateRecorded
    BY DEF IInv
  <1> QED BY <1>1, Invariance, PTL

\* A problem becomes hard only after max_check_attempts results in a row, the
\* initial UNKNOWN included.
THEOREM HardNeedsAttempts == Spec => []HardAfterRechecks
  <1>1. IInv => HardAfterRechecks
    BY DEF IInv
  <1> QED BY <1>1, Invariance, PTL

\* A state notification for a service that is not volatile never repeats the
\* state that was reported before.
THEOREM ServicesHearNews ==
    ASSUME IsHost = FALSE
    PROVE  Spec => OnlyNews
  <1>1. ASSUME IInv, [Next]_vars, lost' = {}, ~Volatile, requested' \cap StateTypes # {},
               requested' # requested \/ told' # told \/ lost' # lost \/ ~UNCHANGED vars
        PROVE  Level(told') # Level(told)
    <2>1. ASSUME NEW new \in States, NEW flap \in BOOLEAN, ProcessCheckResult(new, flap)
          PROVE  Level(told') # Level(told)
      <3>1. Requested(new, flap) \cap StateTypes # {} /\ told' = new /\ lost = {}
        BY <1>1, <2>1 DEF ProcessCheckResult
      <3>2. SendNotification(new) /\ ~Waiting
        BY <1>1, <3>1, StateTypesOfResult DEF IInv
      <3>3. Level(told) = HardLevel
        BY <1>1, <3>1, <3>2 DEF IInv, Known
      <3> QED BY <1>1, <3>1, <3>2, <3>3, SendNewLevel DEF IInv
    <2>2. ASSUME NEW soon \in BOOLEAN, FireSuppressedNotifications(soon)
          PROVE  Level(told') # Level(told)
      <3>1. FireRequests(soon) \cap StateTypes # {} /\ told' = stateRaw /\ lost = {}
                /\ firing = {}
        BY <1>1, <2>2 DEF FireSuppressedNotifications, history
      <3>2. Waiting /\ stateRaw # stateBefore
        BY <3>1, Kinds DEF FireRequests, FireState, Waiting, StateTypes, FlappingTypes
      <3>3. Level(told) = Level(stateBefore)
        BY <1>1, <3>1, <3>2 DEF IInv, Known, Firing
      <3> QED BY <3>1, <3>2, <3>3 DEF Level
    <2>3. ASSUME SubtractSuppressed \/ Quiet PROVE FALSE
      BY <1>1, <2>3 DEF SubtractSuppressed, Quiet
    <2>4. ASSUME NEW type, AcknowledgeProblem(type) \/ AcknowledgementSetAPIHandler(type)
          PROVE  Quiet
      BY <2>4 DEF AcknowledgeProblem, AcknowledgementSetAPIHandler
    <2>5. ASSUME NEW d, SetDowntime(d) PROVE Quiet
      BY <2>5 DEF SetDowntime
    <2>6. ASSUME RefuseCheckResult \/ ClearAcknowledgement \/ SetReachable PROVE Quiet
      BY <2>6 DEF RefuseCheckResult, ClearAcknowledgement, SetReachable
    <2>7. ASSUME UNCHANGED vars PROVE FALSE
      BY <1>1, <2>7 DEF vars
    <2> QED BY <1>1, <2>1, <2>2, <2>3, <2>4, <2>5, <2>6, <2>7 DEF Next
  <1>2. IInv /\ [Next]_vars =>
            [lost' = {} /\ ~Volatile /\ requested' \cap StateTypes # {}
                => Level(told') # Level(told)]_vars
    BY <1>1
  <1> QED BY <1>2, Invariance, PTL DEF Spec, OnlyNews

\* Without peers an acknowledgement never outlives the problem it was made for.
THEOREM AcknowledgementsEnd ==
    ASSUME Peers = FALSE
    PROVE  Spec => []AckOnlyForProblems
  <1>1. Init => AckOnlyForProblems
    BY DEF Init, AckOnlyForProblems
  <1>2. AckOnlyForProblems /\ [Next]_vars => AckOnlyForProblems'
    <2> SUFFICES ASSUME AckOnlyForProblems, [Next]_vars PROVE AckOnlyForProblems'
      OBVIOUS
    <2>1. ASSUME NEW new \in States, NEW flap \in BOOLEAN, ProcessCheckResult(new, flap)
          PROVE  AckOnlyForProblems'
      <3>1. stateRaw' = new /\ acknowledgement' = NewAcknowledgement(new)
        BY <2>1 DEF ProcessCheckResult
      <3>2. IsStateOK(new) => NewAcknowledgement(new) = "none"
        BY Levels DEF NewAcknowledgement, StateChange, AckOnlyForProblems
      <3> QED BY <3>1, <3>2 DEF AckOnlyForProblems, IsStateOK
    <2>2. ASSUME NEW type, AcknowledgeProblem(type) PROVE AckOnlyForProblems'
      BY <2>2 DEF AcknowledgeProblem, AckOnlyForProblems, IsStateOK, Quiet, stateVars
    <2>3. ASSUME NEW type, AcknowledgementSetAPIHandler(type) PROVE FALSE
      BY <2>3 DEF AcknowledgementSetAPIHandler
    <2>4. ASSUME UNCHANGED <<stateRaw, acknowledgement>> PROVE AckOnlyForProblems'
      BY <2>4 DEF AckOnlyForProblems, IsStateOK
    <2>5. CASE ClearAcknowledgement
      BY <2>5 DEF ClearAcknowledgement, AckOnlyForProblems
    <2>6. ASSUME NEW soon, FireSuppressedNotifications(soon)
          PROVE  UNCHANGED <<stateRaw, acknowledgement>>
      BY <2>6 DEF FireSuppressedNotifications, stateVars, envVars
    <2>7. ASSUME NEW d, SetDowntime(d) PROVE UNCHANGED <<stateRaw, acknowledgement>>
      BY <2>7 DEF SetDowntime, Quiet, stateVars
    <2>8. ASSUME RefuseCheckResult \/ SubtractSuppressed \/ SetReachable \/ UNCHANGED vars
          PROVE  UNCHANGED <<stateRaw, acknowledgement>>
      BY <2>8 DEF RefuseCheckResult, SubtractSuppressed, SetReachable, Quiet, vars, stateVars,
                  envVars
    <2> QED BY <2>1, <2>2, <2>3, <2>4, <2>5, <2>6, <2>7, <2>8 DEF Next
  <1> QED BY <1>1, <1>2, PTL DEF Spec
=============================================================================

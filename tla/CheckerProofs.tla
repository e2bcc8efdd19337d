---------------------------- MODULE CheckerProofs ----------------------------
(* Proofs about CheckerComponent, for any sets of checkables and helpers, any *)
(* intervals and any limit of concurrent checks.                              *)
EXTENDS CheckerComponent, FiniteSetTheorems, TLAPS

\* Every step keeps the types of the scheduler's, the helpers' and the other
\* threads' state.
LEMMA TypeStep == TypeOK /\ [Next]_vars => TypeOK'
<1> SUFFICES ASSUME TypeOK, [Next]_vars PROVE TypeOK'
  OBVIOUS
<1> USE CheckerAssumption DEF SchedPcs, HelperPcs, ProcPcs, StopPcs, objVars,
    timeVars, queueVars, stopVars, schedVars, helperVars, remoteVars, markVars, slotVars
<1>1. ASSUME SchedulerWait PROVE TypeOK'
  BY <1>1 DEF TypeOK, SchedulerWait
<1>2. ASSUME SchedulerSleep PROVE TypeOK'
  BY <1>2 DEF TypeOK, SchedulerSleep
<1>3. ASSUME SchedulerTimeout PROVE TypeOK'
  BY <1>3 DEF TypeOK, SchedulerTimeout
<1>4. ASSUME SchedulerStop PROVE TypeOK'
  BY <1>4 DEF TypeOK, SchedulerStop
<1>5. ASSUME SchedulerReschedule PROVE TypeOK'
  BY <1>5 DEF TypeOK, SchedulerReschedule, UpdateNextCheck
<1>6. ASSUME SchedulerSignal PROVE TypeOK'
  BY <1>6 DEF TypeOK, SchedulerSignal, Reindex
<1>7. ASSUME SchedulerDispatch PROVE TypeOK'
  BY <1>7 DEF TypeOK, SchedulerDispatch
<1>8. ASSUME NEW c \in Checkables, SchedulerSkip(c) PROVE TypeOK'
  BY <1>8 DEF TypeOK, SchedulerSkip, Running
<1>9. ASSUME NEW c \in Checkables, SchedulerPend(c) PROVE TypeOK'
  BY <1>9 DEF TypeOK, SchedulerPend, Running
<1>10. ASSUME NEW h \in Helpers, HelperBegin(h) PROVE TypeOK'
  BY <1>10 DEF TypeOK, HelperBegin, HelperStep, UpdateNextCheck
<1>11. ASSUME NEW h \in Helpers, HelperSignal(h) PROVE TypeOK'
  BY <1>11 DEF TypeOK, HelperSignal, HelperStep, NextCheckChangedHandler,
      Reindex, Notify
<1>12. ASSUME NEW h \in Helpers, HelperGuard(h) PROVE TypeOK'
  BY <1>12 DEF TypeOK, HelperGuard
<1>13. ASSUME NEW h \in Helpers, HelperPlugin(h) PROVE TypeOK'
  BY <1>13 DEF TypeOK, HelperPlugin, HelperStep
<1>14. ASSUME NEW h \in Helpers, HelperCount(h) PROVE TypeOK'
  BY <1>14 DEF TypeOK, HelperCount, HelperStep
<1>15. ASSUME NEW h \in Helpers, HelperInline(h) PROVE TypeOK'
  BY <1>15 DEF TypeOK, HelperInline, HelperStep
<1>16. ASSUME NEW h \in Helpers, HelperInlineDone(h) PROVE TypeOK'
  BY <1>16 DEF TypeOK, HelperInlineDone, HelperStep
<1>17. ASSUME NEW h \in Helpers, HelperRemote(h) PROVE TypeOK'
  BY <1>17 DEF TypeOK, HelperRemote, HelperBranch
<1>18. ASSUME NEW h \in Helpers, HelperUnconnected(h) PROVE TypeOK'
  BY <1>18 DEF TypeOK, HelperUnconnected, HelperBranch
<1>19. ASSUME NEW h \in Helpers, HelperRemoteSignal(h) PROVE TypeOK'
  BY <1>19 DEF TypeOK, HelperRemoteSignal, HelperStep,
      NextCheckChangedHandler, Reindex, Notify
<1>20. ASSUME NEW h \in Helpers, HelperRemoteClear(h) PROVE TypeOK'
  BY <1>20 DEF TypeOK, HelperRemoteClear, ClearedBy, HelperStep
<1>21. ASSUME NEW h \in Helpers, HelperFinish(h) PROVE TypeOK'
  BY <1>21 DEF TypeOK, HelperFinish, HelperStep
<1>22. ASSUME NEW h \in Helpers, HelperReturn(h) PROVE TypeOK'
  BY <1>22 DEF TypeOK, HelperReturn, HelperStep, InsertIdle, Notify
<1>23. ASSUME NEW h \in Helpers, ProcExit(h) PROVE TypeOK'
  BY <1>23 DEF TypeOK, ProcExit, ProcStep
<1>24. ASSUME NEW h \in Helpers, ProcDiscard(h) PROVE TypeOK'
  BY <1>24 DEF TypeOK, ProcDiscard, ClearedBy, ProcStep
<1>25. ASSUME NEW h \in Helpers, ProcResult(h) PROVE TypeOK'
  BY <1>25 DEF TypeOK, ProcResult, ClearedBy, ProcStep, UpdateNextCheck
<1>26. ASSUME NEW h \in Helpers, ProcSignal(h) PROVE TypeOK'
  BY <1>26 DEF TypeOK, ProcSignal, ProcStep, NextCheckChangedHandler,
      Reindex, Notify
<1>27. ASSUME RemoteAcquire PROVE TypeOK'
  BY <1>27 DEF TypeOK, RemoteAcquire
<1>28. ASSUME RemoteExecute PROVE TypeOK'
  BY <1>28 DEF TypeOK, RemoteExecute
<1>29. ASSUME RemoteReject PROVE TypeOK'
  BY <1>29 DEF TypeOK, RemoteReject
<1>30. ASSUME RemoteRelease PROVE TypeOK'
  BY <1>30 DEF TypeOK, RemoteRelease
<1>31. ASSUME RemoteExit PROVE TypeOK'
  BY <1>31 DEF TypeOK, RemoteExit
<1>32. ASSUME NEW c \in Checkables, NEW b \in BOOLEAN, SetAuthority(c, b)
    PROVE TypeOK'
  BY <1>32 DEF TypeOK, SetAuthority
<1>33. ASSUME NEW c \in Checkables, Deactivate(c) PROVE TypeOK'
  BY <1>33 DEF TypeOK, Deactivate
<1>34. ASSUME NEW c \in Checkables, AuthoritySignal(c) PROVE TypeOK'
  BY <1>34 DEF TypeOK, AuthoritySignal, ObjectHandler, InsertIdle, Notify
<1>35. ASSUME NEW c \in Checkables, ActiveSignal(c) PROVE TypeOK'
  BY <1>35 DEF TypeOK, ActiveSignal, ObjectHandler, InsertIdle, Notify
<1>36. ASSUME NEW c \in Checkables, NEW b \in BOOLEAN, RescheduleCheck(c, b)
    PROVE TypeOK'
  BY <1>36 DEF TypeOK, RescheduleCheck
<1>37. ASSUME NEW c \in Checkables, PassiveResult(c) PROVE TypeOK'
  BY <1>37 DEF TypeOK, PassiveResult, ClearedByOther
<1>38. ASSUME NEW c \in Checkables, ApiSignal(c) PROVE TypeOK'
  BY <1>38 DEF TypeOK, ApiSignal, NextCheckChangedHandler, Reindex, Notify
<1>39. ASSUME StopBegin PROVE TypeOK'
  BY <1>39 DEF TypeOK, StopBegin, Notify
<1>40. ASSUME StopJoin PROVE TypeOK'
  BY <1>40 DEF TypeOK, StopJoin
<1>41. ASSUME StopReturn PROVE TypeOK'
  BY <1>41 DEF TypeOK, StopReturn
<1>42. ASSUME Tick PROVE TypeOK'
  BY <1>42 DEF TypeOK, Tick, Later
<1>43. CASE UNCHANGED vars
  BY <1>43 DEF TypeOK, vars
<1>44. ASSUME NEW h \in Helpers, HelperMacroError(h) PROVE TypeOK'
  BY <1>44 DEF TypeOK, HelperMacroError, HelperStep
<1>45. ASSUME NEW h \in Helpers, HelperMacroErrorDone(h) PROVE TypeOK'
  BY <1>45 DEF TypeOK, HelperMacroErrorDone, HelperStep
<1>46. ASSUME NEW h \in Helpers, HelperComplain(h) PROVE TypeOK'
  BY <1>46 DEF TypeOK, HelperComplain, HelperBranch
<1>47. ASSUME NEW h \in Helpers, HelperComplainDone(h) PROVE TypeOK'
  BY <1>47 DEF TypeOK, HelperComplainDone, HelperStep
<1>48. ASSUME NEW c \in Checkables, EndpointResult(c) PROVE TypeOK'
  BY <1>48 DEF TypeOK, EndpointResult, UpdateNextCheck, ClearedByOther
<1>49. ASSUME NEW c \in Checkables, PeerResult(c) PROVE TypeOK'
  BY <1>49 DEF TypeOK, PeerResult, ClearedByOther
<1>50. ASSUME NEW c \in Checkables, PeerNextCheck(c) PROVE TypeOK'
  BY <1>50 DEF TypeOK, PeerNextCheck
<1> QED
  BY <1>1, <1>2, <1>3, <1>4, <1>5, <1>6, <1>7, <1>8, <1>9, <1>10, <1>11, <1>12,
      <1>13, <1>14, <1>15, <1>16, <1>17, <1>18, <1>19, <1>20, <1>21, <1>22,
      <1>23, <1>24, <1>25, <1>26, <1>27, <1>28, <1>29, <1>30, <1>31, <1>32,
      <1>33, <1>34, <1>35, <1>36, <1>37, <1>38, <1>39, <1>40, <1>41, <1>42,
      <1>43, <1>44, <1>45, <1>46, <1>47, <1>48, <1>49, <1>50 DEF Next,
      Scheduler, Helper, Proc, Remote, Api, Stopping

\* The types of the initial state.
LEMMA InitType == Init => TypeOK
<1> SUFFICES ASSUME Init PROVE TypeOK
  OBVIOUS
<1>1. PICK c \in Checkables : schedObj = c /\ helperObj = [h \in Helpers |-> c]
  BY DEF Init
<1>2. /\ schedObj \in Checkables
      /\ helperObj \in [Helpers -> Checkables]
  BY <1>1
<1>3. /\ active \in [Checkables -> BOOLEAN]
      /\ paused \in [Checkables -> BOOLEAN]
      /\ forceNextCheck \in [Checkables -> BOOLEAN]
      /\ checkRunning \in [Checkables -> BOOLEAN]
  BY DEF Init
<1>4. /\ nextCheck \in [Checkables -> Int]
      /\ idleAt \in [Checkables -> Int]
      /\ pendingChecks \in Int /\ wakeIn \in Int /\ remoteProcs \in Nat
      /\ disowned \subseteq Helpers /\ leaked \in Nat
  BY DEF Init
<1>5. /\ helperPc \in [Helpers -> HelperPcs]
      /\ procPc \in [Helpers -> ProcPcs]
  BY DEF Init, HelperPcs, ProcPcs
<1>6. /\ idle \subseteq Checkables /\ pending \subseteq Checkables
      /\ authSignal \subseteq Checkables /\ activeSignal \subseteq Checkables
      /\ apiSignal \subseteq Checkables
  BY DEF Init
<1>7. /\ stopped \in BOOLEAN /\ joined \in BOOLEAN /\ schedForced \in BOOLEAN
      /\ stopPc \in StopPcs /\ schedPc \in SchedPcs
      /\ remotePc \in {"idle", "acquired", "release"}
  BY DEF Init, StopPcs, SchedPcs
<1> QED
  BY <1>2, <1>3, <1>4, <1>5, <1>6, <1>7 DEF TypeOK

\* The state of the scheduler, of every helper and of every other thread always
\* has its type.
THEOREM TypeCorrect == Spec => []TypeOK
  BY InitType, TypeStep, PTL DEF Spec

-----------------------------------------------------------------------------
\* The moves between the two sets keep them disjoint.
LEMMA IdleOrPendingStep ==
  TypeOK /\ IdleOrPending /\ [Next]_vars => IdleOrPending'
<1> SUFFICES ASSUME TypeOK, IdleOrPending, [Next]_vars PROVE IdleOrPending'
  OBVIOUS
<1> USE CheckerAssumption DEF objVars, timeVars, queueVars, stopVars,
    schedVars, helperVars, remoteVars, markVars, slotVars
<1>1. ASSUME UNCHANGED <<idle, pending>> PROVE IdleOrPending'
  BY <1>1 DEF IdleOrPending
<1>2. ASSUME NEW c \in Checkables, SchedulerPend(c) PROVE IdleOrPending'
  BY <1>2 DEF IdleOrPending, SchedulerPend, Running
<1>3. ASSUME NEW h \in Helpers, HelperReturn(h) PROVE IdleOrPending'
  BY <1>3 DEF IdleOrPending, HelperReturn, HelperStep, InsertIdle, Notify
<1>4. ASSUME NEW c \in Checkables, AuthoritySignal(c) PROVE IdleOrPending'
  BY <1>4 DEF IdleOrPending, AuthoritySignal, ObjectHandler, InsertIdle,
      Notify
<1>5. ASSUME NEW c \in Checkables, ActiveSignal(c) PROVE IdleOrPending'
  BY <1>5 DEF IdleOrPending, ActiveSignal, ObjectHandler, InsertIdle, Notify
<1> QED
  BY <1>1, <1>2, <1>3, <1>4, <1>5 DEF HelperMacroError, HelperMacroErrorDone,
      HelperComplain, HelperComplainDone, EndpointResult, PeerResult,
      PeerNextCheck, HelperBranch, Next, Scheduler, Helper, Proc, Remote, Api,
      Stopping, vars, SchedulerWait, SchedulerSleep, SchedulerTimeout,
      SchedulerStop, SchedulerReschedule, SchedulerSignal, SchedulerDispatch,
      SchedulerSkip, HelperBegin, HelperSignal, HelperGuard, HelperPlugin,
      HelperCount, HelperInline, HelperInlineDone, HelperRemote,
      HelperUnconnected, HelperRemoteSignal, HelperRemoteClear, HelperFinish,
      ProcExit, ProcDiscard, ProcResult, ProcSignal, RemoteAcquire,
      RemoteExecute, RemoteReject, RemoteRelease, RemoteExit, SetAuthority,
      Deactivate, RescheduleCheck, PassiveResult, ApiSignal, StopBegin,
      StopJoin, StopReturn, Tick, HelperStep, ProcStep

\* Only an announced authority change lets an object enter or leave both sets.

LEMMA ResponsibilityStep ==
  TypeOK /\ Responsibility /\ [Next]_vars => Responsibility'
<1> SUFFICES ASSUME TypeOK, Responsibility, [Next]_vars PROVE Responsibility'
  OBVIOUS
<1> USE CheckerAssumption DEF objVars, timeVars, queueVars, stopVars,
    schedVars, helperVars, remoteVars, markVars, slotVars
<1>1. ASSUME UNCHANGED <<active, paused, authSignal, idle, pending>> PROVE
    Responsibility'
  BY <1>1 DEF Responsibility, Authoritative, TypeOK
<1>2. ASSUME NEW c \in Checkables, SchedulerPend(c) PROVE Responsibility'
  BY <1>2 DEF Responsibility, Authoritative, TypeOK, SchedulerPend, Running,
      Due, Earliest
<1>3. ASSUME NEW h \in Helpers, HelperReturn(h) PROVE Responsibility'
  BY <1>3 DEF Responsibility, Authoritative, TypeOK, HelperReturn,
      HelperStep, InsertIdle, Notify
<1>4. ASSUME NEW c \in Checkables, NEW b \in BOOLEAN, SetAuthority(c, b)
    PROVE Responsibility'
  BY <1>4 DEF Responsibility, Authoritative, TypeOK, SetAuthority
<1>5. ASSUME NEW c \in Checkables, Deactivate(c) PROVE Responsibility'
  BY <1>5 DEF Responsibility, Authoritative, TypeOK, Deactivate
<1>6. ASSUME NEW c \in Checkables, AuthoritySignal(c) PROVE Responsibility'
  BY <1>6 DEF Responsibility, Authoritative, TypeOK, AuthoritySignal,
      ObjectHandler, InsertIdle, Notify
<1>7. ASSUME NEW c \in Checkables, ActiveSignal(c) PROVE Responsibility'
  BY <1>7 DEF Responsibility, Authoritative, TypeOK, ActiveSignal,
      ObjectHandler, InsertIdle, Notify
<1> QED
  BY <1>1, <1>2, <1>3, <1>4, <1>5, <1>6, <1>7 DEF HelperMacroError,
      HelperMacroErrorDone, HelperComplain, HelperComplainDone, EndpointResult,
      PeerResult, PeerNextCheck, HelperBranch, Next, Scheduler, Helper, Proc,
      Remote, Api, Stopping, vars, SchedulerWait, SchedulerSleep,
      SchedulerTimeout, SchedulerStop, SchedulerReschedule, SchedulerSignal,
      SchedulerDispatch, SchedulerSkip, HelperBegin, HelperSignal, HelperGuard,
      HelperPlugin, HelperCount, HelperInline, HelperInlineDone, HelperRemote,
      HelperUnconnected, HelperRemoteSignal, HelperRemoteClear, HelperFinish,
      ProcExit, ProcDiscard, ProcResult, ProcSignal, RemoteAcquire,
      RemoteExecute, RemoteReject, RemoteRelease, RemoteExit, RescheduleCheck,
      PassiveResult, ApiSignal, StopBegin, StopJoin, StopReturn, Tick,
      HelperStep, ProcStep

\* Whoever sets next_check runs the handler later; the handler repairs the key.

LEMMA IndexFreshStep ==
  TypeOK /\ NotStarted /\ IndexFresh /\ [Next]_vars => IndexFresh'
<1> SUFFICES ASSUME TypeOK, NotStarted, IndexFresh, [Next]_vars PROVE
    IndexFresh'
  OBVIOUS
<1> USE CheckerAssumption DEF objVars, timeVars, queueVars, stopVars,
    schedVars, helperVars, remoteVars, markVars, slotVars
<1>1. ASSUME UNCHANGED <<idle, idleAt, nextCheck, apiSignal, schedPc,
    schedObj, helperPc, helperObj, procPc>> PROVE IndexFresh'
  BY <1>1 DEF IndexFresh, Reindexing, NotStarted, TypeOK
<1>2. ASSUME SchedulerWait PROVE IndexFresh'
  BY <1>2 DEF IndexFresh, Reindexing, NotStarted, TypeOK, SchedulerWait,
      Running
<1>3. ASSUME SchedulerSleep PROVE IndexFresh'
  BY <1>3 DEF IndexFresh, Reindexing, NotStarted, TypeOK, SchedulerSleep,
      Running
<1>4. ASSUME SchedulerTimeout PROVE IndexFresh'
  BY <1>4 DEF IndexFresh, Reindexing, NotStarted, TypeOK, SchedulerTimeout
<1>5. ASSUME SchedulerStop PROVE IndexFresh'
  BY <1>5 DEF IndexFresh, Reindexing, NotStarted, TypeOK, SchedulerStop
<1>6. ASSUME SchedulerReschedule PROVE IndexFresh'
  BY <1>6 DEF IndexFresh, Reindexing, NotStarted, TypeOK,
      SchedulerReschedule, UpdateNextCheck
<1>7. ASSUME SchedulerSignal PROVE IndexFresh'
  BY <1>7 DEF IndexFresh, Reindexing, NotStarted, TypeOK, SchedulerSignal,
      Reindex
<1>8. ASSUME SchedulerDispatch PROVE IndexFresh'
  BY <1>8 DEF IndexFresh, Reindexing, NotStarted, TypeOK, SchedulerDispatch
<1>9. ASSUME NEW c \in Checkables, SchedulerSkip(c) PROVE IndexFresh'
  BY <1>9 DEF IndexFresh, Reindexing, NotStarted, TypeOK, SchedulerSkip,
      Running
<1>10. ASSUME NEW c \in Checkables, SchedulerPend(c) PROVE IndexFresh'
  BY <1>10 DEF IndexFresh, Reindexing, NotStarted, TypeOK, SchedulerPend,
      Running
<1>11. ASSUME NEW h \in Helpers, HelperBegin(h) PROVE IndexFresh'
  BY <1>11 DEF IndexFresh, Reindexing, NotStarted, TypeOK, HelperBegin,
      HelperStep, UpdateNextCheck
<1>12. ASSUME NEW h \in Helpers, HelperSignal(h) PROVE IndexFresh'
  BY <1>12 DEF IndexFresh, Reindexing, NotStarted, TypeOK, HelperSignal,
      HelperStep, NextCheckChangedHandler, Reindex, Notify
<1>13. ASSUME NEW h \in Helpers, HelperGuard(h) PROVE IndexFresh'
  BY <1>13 DEF IndexFresh, Reindexing, NotStarted, TypeOK, HelperGuard
<1>14. ASSUME NEW h \in Helpers, HelperPlugin(h) PROVE IndexFresh'
  BY <1>14 DEF IndexFresh, Reindexing, NotStarted, TypeOK, HelperPlugin,
      HelperStep
<1>15. ASSUME NEW h \in Helpers, HelperCount(h) PROVE IndexFresh'
  BY <1>15 DEF IndexFresh, Reindexing, NotStarted, TypeOK, HelperCount,
      HelperStep
<1>16. ASSUME NEW h \in Helpers, HelperInline(h) PROVE IndexFresh'
  BY <1>16 DEF IndexFresh, Reindexing, NotStarted, TypeOK, HelperInline,
      HelperStep
<1>17. ASSUME NEW h \in Helpers, HelperInlineDone(h) PROVE IndexFresh'
  BY <1>17 DEF IndexFresh, Reindexing, NotStarted, TypeOK, HelperInlineDone,
      HelperStep
<1>18. ASSUME NEW h \in Helpers, HelperRemote(h) PROVE IndexFresh'
  BY <1>18 DEF IndexFresh, Reindexing, NotStarted, TypeOK, HelperRemote,
      HelperBranch
<1>19. ASSUME NEW h \in Helpers, HelperUnconnected(h) PROVE IndexFresh'
  BY <1>19 DEF IndexFresh, Reindexing, NotStarted, TypeOK, HelperUnconnected,
      HelperBranch
<1>20. ASSUME NEW h \in Helpers, HelperRemoteSignal(h) PROVE IndexFresh'
  BY <1>20 DEF IndexFresh, Reindexing, NotStarted, TypeOK,
      HelperRemoteSignal, HelperStep, NextCheckChangedHandler, Reindex,
      Notify
<1>21. ASSUME NEW h \in Helpers, HelperRemoteClear(h) PROVE IndexFresh'
  BY <1>21 DEF IndexFresh, Reindexing, NotStarted, TypeOK, HelperRemoteClear,
      HelperStep
<1>22. ASSUME NEW h \in Helpers, HelperFinish(h) PROVE IndexFresh'
  BY <1>22 DEF IndexFresh, Reindexing, NotStarted, TypeOK, HelperFinish,
      HelperStep
<1>23. ASSUME NEW h \in Helpers, HelperReturn(h) PROVE IndexFresh'
  BY <1>23 DEF IndexFresh, Reindexing, NotStarted, TypeOK, HelperReturn,
      HelperStep, InsertIdle, Notify
<1>24. ASSUME NEW h \in Helpers, ProcExit(h) PROVE IndexFresh'
  BY <1>24 DEF IndexFresh, Reindexing, NotStarted, TypeOK, ProcExit, ProcStep
<1>25. ASSUME NEW h \in Helpers, ProcDiscard(h) PROVE IndexFresh'
  BY <1>25 DEF IndexFresh, Reindexing, NotStarted, TypeOK, ProcDiscard,
      ProcStep
<1>26. ASSUME NEW h \in Helpers, ProcResult(h) PROVE IndexFresh'
  BY <1>26 DEF IndexFresh, Reindexing, NotStarted, TypeOK, ProcResult,
      ProcStep, UpdateNextCheck
<1>27. ASSUME NEW h \in Helpers, ProcSignal(h) PROVE IndexFresh'
  BY <1>27 DEF IndexFresh, Reindexing, NotStarted, TypeOK, ProcSignal,
      ProcStep, NextCheckChangedHandler, Reindex, Notify
<1>28. ASSUME NEW c \in Checkables, AuthoritySignal(c) PROVE IndexFresh'
  BY <1>28 DEF IndexFresh, Reindexing, NotStarted, TypeOK, AuthoritySignal,
      ObjectHandler, InsertIdle, Notify
<1>29. ASSUME NEW c \in Checkables, ActiveSignal(c) PROVE IndexFresh'
  BY <1>29 DEF IndexFresh, Reindexing, NotStarted, TypeOK, ActiveSignal,
      ObjectHandler, InsertIdle, Notify
<1>30. ASSUME NEW c \in Checkables, NEW b \in BOOLEAN, RescheduleCheck(c, b)
    PROVE IndexFresh'
  BY <1>30 DEF IndexFresh, Reindexing, NotStarted, TypeOK, RescheduleCheck
<1>31. ASSUME NEW c \in Checkables, PassiveResult(c) PROVE IndexFresh'
  BY <1>31 DEF IndexFresh, Reindexing, NotStarted, TypeOK, PassiveResult
<1>32. ASSUME NEW c \in Checkables, ApiSignal(c) PROVE IndexFresh'
  BY <1>32 DEF IndexFresh, Reindexing, NotStarted, TypeOK, ApiSignal,
      NextCheckChangedHandler, Reindex, Notify
<1>33. ASSUME StopBegin PROVE IndexFresh'
  BY <1>33 DEF IndexFresh, Reindexing, NotStarted, TypeOK, StopBegin, Notify
<1>34. ASSUME Tick PROVE IndexFresh'
  BY <1>34 DEF IndexFresh, Reindexing, NotStarted, TypeOK, Tick, Later
<1>35. ASSUME NEW h \in Helpers, HelperMacroError(h) PROVE IndexFresh'
  BY <1>35 DEF IndexFresh, Reindexing, NotStarted, TypeOK, HelperMacroError, HelperStep
<1>36. ASSUME NEW h \in Helpers, HelperMacroErrorDone(h) PROVE IndexFresh'
  BY <1>36 DEF IndexFresh, Reindexing, NotStarted, TypeOK, HelperMacroErrorDone, HelperStep
<1>37. ASSUME NEW h \in Helpers, HelperComplain(h) PROVE IndexFresh'
  BY <1>37 DEF IndexFresh, Reindexing, NotStarted, TypeOK, HelperComplain, HelperBranch
<1>38. ASSUME NEW h \in Helpers, HelperComplainDone(h) PROVE IndexFresh'
  BY <1>38 DEF IndexFresh, Reindexing, NotStarted, TypeOK, HelperComplainDone, HelperStep
<1>39. ASSUME NEW c \in Checkables, EndpointResult(c) PROVE IndexFresh'
  BY <1>39 DEF IndexFresh, Reindexing, NotStarted, TypeOK, EndpointResult,
      UpdateNextCheck, ClearedByOther
<1>40. ASSUME NEW c \in Checkables, PeerNextCheck(c) PROVE IndexFresh'
  BY <1>40 DEF IndexFresh, Reindexing, NotStarted, TypeOK, PeerNextCheck
<1> QED
  BY <1>1, <1>2, <1>3, <1>4, <1>5, <1>6, <1>7, <1>8, <1>9, <1>10, <1>11, <1>12,
      <1>13, <1>14, <1>15, <1>16, <1>17, <1>18, <1>19, <1>20, <1>21, <1>22,
      <1>23, <1>24, <1>25, <1>26, <1>27, <1>28, <1>29, <1>30, <1>31, <1>32,
      <1>33, <1>34, <1>35, <1>36, <1>37, <1>38, <1>39, <1>40 DEF PeerResult,
      HelperBranch, Next, Scheduler, Helper, Proc, Remote, Api, Stopping, vars,
      RemoteAcquire, RemoteExecute, RemoteReject, RemoteRelease, RemoteExit,
      SetAuthority, Deactivate, StopJoin, StopReturn

\* Whatever makes an entry earlier, adds one or stops the thread notifies it.

LEMMA NoMissedWakeupStep ==
  TypeOK /\ NoMissedWakeup /\ [Next]_vars => NoMissedWakeup'
<1> SUFFICES ASSUME TypeOK, NoMissedWakeup, [Next]_vars PROVE NoMissedWakeup'
  OBVIOUS
<1> USE CheckerAssumption DEF objVars, timeVars, queueVars, stopVars,
    schedVars, helperVars, remoteVars, markVars, slotVars
<1>1. ASSUME UNCHANGED <<idle, idleAt, schedPc, wakeIn, stopped>> PROVE
    NoMissedWakeup'
  BY <1>1 DEF NoMissedWakeup, TypeOK
<1>2. ASSUME SchedulerWait PROVE NoMissedWakeup'
  BY <1>2 DEF NoMissedWakeup, TypeOK, SchedulerWait, Running, Earliest
<1>3. ASSUME SchedulerSleep PROVE NoMissedWakeup'
  BY <1>3 DEF NoMissedWakeup, TypeOK, SchedulerSleep, Running, Earliest
<1>4. ASSUME SchedulerTimeout PROVE NoMissedWakeup'
  BY <1>4 DEF NoMissedWakeup, TypeOK, SchedulerTimeout
<1>5. ASSUME SchedulerStop PROVE NoMissedWakeup'
  BY <1>5 DEF NoMissedWakeup, TypeOK, SchedulerStop
<1>6. ASSUME SchedulerReschedule PROVE NoMissedWakeup'
  BY <1>6 DEF NoMissedWakeup, TypeOK, SchedulerReschedule, UpdateNextCheck
<1>7. ASSUME SchedulerSignal PROVE NoMissedWakeup'
  BY <1>7 DEF NoMissedWakeup, TypeOK, SchedulerSignal, Reindex
<1>8. ASSUME SchedulerDispatch PROVE NoMissedWakeup'
  BY <1>8 DEF NoMissedWakeup, TypeOK, SchedulerDispatch
<1>9. ASSUME NEW c \in Checkables, SchedulerSkip(c) PROVE NoMissedWakeup'
  BY <1>9 DEF NoMissedWakeup, TypeOK, SchedulerSkip, Running
<1>10. ASSUME NEW c \in Checkables, SchedulerPend(c) PROVE NoMissedWakeup'
  BY <1>10 DEF NoMissedWakeup, TypeOK, SchedulerPend, Running
<1>11. ASSUME NEW h \in Helpers, HelperSignal(h) PROVE NoMissedWakeup'
  BY <1>11 DEF NoMissedWakeup, TypeOK, HelperSignal, HelperStep,
      NextCheckChangedHandler, Reindex, Notify
<1>12. ASSUME NEW h \in Helpers, HelperRemoteSignal(h) PROVE NoMissedWakeup'
  BY <1>12 DEF NoMissedWakeup, TypeOK, HelperRemoteSignal, HelperStep,
      NextCheckChangedHandler, Reindex, Notify
<1>13. ASSUME NEW h \in Helpers, HelperReturn(h) PROVE NoMissedWakeup'
  BY <1>13 DEF NoMissedWakeup, TypeOK, HelperReturn, HelperStep, InsertIdle,
      Notify
<1>14. ASSUME NEW h \in Helpers, ProcSignal(h) PROVE NoMissedWakeup'
  BY <1>14 DEF NoMissedWakeup, TypeOK, ProcSignal, ProcStep,
      NextCheckChangedHandler, Reindex, Notify
<1>15. ASSUME NEW c \in Checkables, AuthoritySignal(c) PROVE NoMissedWakeup'
  BY <1>15 DEF NoMissedWakeup, TypeOK, AuthoritySignal, ObjectHandler,
      InsertIdle, Notify
<1>16. ASSUME NEW c \in Checkables, ActiveSignal(c) PROVE NoMissedWakeup'
  BY <1>16 DEF NoMissedWakeup, TypeOK, ActiveSignal, ObjectHandler,
      InsertIdle, Notify
<1>17. ASSUME NEW c \in Checkables, ApiSignal(c) PROVE NoMissedWakeup'
  BY <1>17 DEF NoMissedWakeup, TypeOK, ApiSignal, NextCheckChangedHandler,
      Reindex, Notify
<1>18. ASSUME StopBegin PROVE NoMissedWakeup'
  BY <1>18 DEF NoMissedWakeup, TypeOK, StopBegin, Notify
<1>19. ASSUME Tick PROVE NoMissedWakeup'
  BY <1>19 DEF NoMissedWakeup, TypeOK, Tick, Later
<1> QED
  BY <1>1, <1>2, <1>3, <1>4, <1>5, <1>6, <1>7, <1>8, <1>9, <1>10, <1>11, <1>12,
      <1>13, <1>14, <1>15, <1>16, <1>17, <1>18, <1>19 DEF HelperMacroError,
      HelperMacroErrorDone, HelperComplain, HelperComplainDone, EndpointResult,
      PeerResult, PeerNextCheck, HelperBranch, Next, Scheduler, Helper, Proc,
      Remote, Api, Stopping, vars, HelperBegin, HelperGuard, HelperPlugin,
      HelperCount, HelperInline, HelperInlineDone, HelperRemote,
      HelperUnconnected, HelperRemoteClear, HelperFinish, ProcExit, ProcDiscard,
      ProcResult, RemoteAcquire, RemoteExecute, RemoteReject, RemoteRelease,
      RemoteExit, SetAuthority, Deactivate, RescheduleCheck, PassiveResult,
      StopJoin, StopReturn, HelperStep, ProcStep

\* A helper slot is reused only when its command is over.

LEMMA NotStartedStep ==
  TypeOK /\ NotStarted /\ [Next]_vars => NotStarted'
<1> SUFFICES ASSUME TypeOK, NotStarted, [Next]_vars PROVE NotStarted'
  OBVIOUS
<1> USE CheckerAssumption DEF objVars, timeVars, queueVars, stopVars,
    schedVars, helperVars, remoteVars, markVars, slotVars
<1>1. ASSUME UNCHANGED <<helperPc, procPc>> PROVE NotStarted'
  BY <1>1 DEF NotStarted, TypeOK
<1>2. ASSUME SchedulerDispatch PROVE NotStarted'
  BY <1>2 DEF NotStarted, TypeOK, SchedulerDispatch
<1>3. ASSUME NEW h \in Helpers, HelperBegin(h) PROVE NotStarted'
  BY <1>3 DEF NotStarted, TypeOK, HelperBegin, HelperStep, UpdateNextCheck
<1>4. ASSUME NEW h \in Helpers, HelperSignal(h) PROVE NotStarted'
  BY <1>4 DEF NotStarted, TypeOK, HelperSignal, HelperStep,
      NextCheckChangedHandler, Reindex, Notify
<1>5. ASSUME NEW h \in Helpers, HelperGuard(h) PROVE NotStarted'
  BY <1>5 DEF NotStarted, TypeOK, HelperGuard
<1>6. ASSUME NEW h \in Helpers, HelperPlugin(h) PROVE NotStarted'
  BY <1>6 DEF NotStarted, TypeOK, HelperPlugin, HelperStep
<1>7. ASSUME NEW h \in Helpers, HelperCount(h) PROVE NotStarted'
  BY <1>7 DEF NotStarted, TypeOK, HelperCount, HelperStep
<1>8. ASSUME NEW h \in Helpers, HelperInline(h) PROVE NotStarted'
  BY <1>8 DEF NotStarted, TypeOK, HelperInline, HelperStep
<1>9. ASSUME NEW h \in Helpers, HelperInlineDone(h) PROVE NotStarted'
  BY <1>9 DEF NotStarted, TypeOK, HelperInlineDone, HelperStep
<1>10. ASSUME NEW h \in Helpers, HelperRemote(h) PROVE NotStarted'
  BY <1>10 DEF NotStarted, TypeOK, HelperRemote, HelperBranch
<1>11. ASSUME NEW h \in Helpers, HelperUnconnected(h) PROVE NotStarted'
  BY <1>11 DEF NotStarted, TypeOK, HelperUnconnected, HelperBranch
<1>12. ASSUME NEW h \in Helpers, HelperRemoteSignal(h) PROVE NotStarted'
  BY <1>12 DEF NotStarted, TypeOK, HelperRemoteSignal, HelperStep,
      NextCheckChangedHandler, Reindex, Notify
<1>13. ASSUME NEW h \in Helpers, HelperRemoteClear(h) PROVE NotStarted'
  BY <1>13 DEF NotStarted, TypeOK, HelperRemoteClear, HelperStep
<1>14. ASSUME NEW h \in Helpers, HelperFinish(h) PROVE NotStarted'
  BY <1>14 DEF NotStarted, TypeOK, HelperFinish, HelperStep
<1>15. ASSUME NEW h \in Helpers, HelperReturn(h) PROVE NotStarted'
  BY <1>15 DEF NotStarted, TypeOK, HelperReturn, HelperStep, InsertIdle,
      Notify
<1>16. ASSUME NEW h \in Helpers, ProcExit(h) PROVE NotStarted'
  BY <1>16 DEF NotStarted, TypeOK, ProcExit, ProcStep
<1>17. ASSUME NEW h \in Helpers, ProcDiscard(h) PROVE NotStarted'
  BY <1>17 DEF NotStarted, TypeOK, ProcDiscard, ProcStep
<1>18. ASSUME NEW h \in Helpers, ProcResult(h) PROVE NotStarted'
  BY <1>18 DEF NotStarted, TypeOK, ProcResult, ProcStep, UpdateNextCheck
<1>19. ASSUME NEW h \in Helpers, ProcSignal(h) PROVE NotStarted'
  BY <1>19 DEF NotStarted, TypeOK, ProcSignal, ProcStep,
      NextCheckChangedHandler, Reindex, Notify
<1>20. ASSUME NEW h \in Helpers, HelperMacroError(h) PROVE NotStarted'
  BY <1>20 DEF NotStarted, TypeOK, HelperMacroError, HelperStep
<1>21. ASSUME NEW h \in Helpers, HelperMacroErrorDone(h) PROVE NotStarted'
  BY <1>21 DEF NotStarted, TypeOK, HelperMacroErrorDone, HelperStep
<1>22. ASSUME NEW h \in Helpers, HelperComplain(h) PROVE NotStarted'
  BY <1>22 DEF NotStarted, TypeOK, HelperComplain, HelperBranch
<1>23. ASSUME NEW h \in Helpers, HelperComplainDone(h) PROVE NotStarted'
  BY <1>23 DEF NotStarted, TypeOK, HelperComplainDone, HelperStep
<1> QED
  BY <1>1, <1>2, <1>3, <1>4, <1>5, <1>6, <1>7, <1>8, <1>9, <1>10, <1>11, <1>12,
      <1>13, <1>14, <1>15, <1>16, <1>17, <1>18, <1>19, <1>20, <1>21, <1>22,
      <1>23 DEF EndpointResult, PeerResult, PeerNextCheck, HelperBranch, Next,
      Scheduler, Helper, Proc, Remote, Api, Stopping, vars, SchedulerWait,
      SchedulerSleep, SchedulerTimeout, SchedulerStop, SchedulerReschedule,
      SchedulerSignal, SchedulerSkip, SchedulerPend, RemoteAcquire,
      RemoteExecute, RemoteReject, RemoteRelease, RemoteExit, SetAuthority,
      Deactivate, AuthoritySignal, ActiveSignal, RescheduleCheck, PassiveResult,
      ApiSignal, StopBegin, StopJoin, StopReturn, Tick

\* m_CheckRunning is passed by one helper; who else clears it disowns that one.

LEMMA OwnershipStep ==
  TypeOK /\ NotStarted /\ Ownership /\ [Next]_vars => Ownership'
<1> SUFFICES ASSUME TypeOK, NotStarted, Ownership, [Next]_vars PROVE
    Ownership'
  OBVIOUS
<1> USE CheckerAssumption DEF objVars, timeVars, queueVars, stopVars,
    schedVars, helperVars, remoteVars, markVars, slotVars
<1>1. ASSUME UNCHANGED <<helperPc, procPc, helperObj, checkRunning, disowned>> PROVE
    Ownership'
  BY <1>1 DEF Ownership, Owner, NotStarted, TypeOK
<1>2. ASSUME SchedulerDispatch PROVE Ownership'
  BY <1>2 DEF Ownership, Owner, NotStarted, TypeOK, SchedulerDispatch
<1>3. ASSUME NEW h \in Helpers, HelperBegin(h) PROVE Ownership'
  BY <1>3 DEF Ownership, Owner, NotStarted, TypeOK, HelperBegin, HelperStep,
      UpdateNextCheck
<1>4. ASSUME NEW h \in Helpers, HelperSignal(h) PROVE Ownership'
  BY <1>4 DEF Ownership, Owner, NotStarted, TypeOK, HelperSignal, HelperStep,
      NextCheckChangedHandler, Reindex, Notify
<1>5. ASSUME NEW h \in Helpers, HelperGuard(h) PROVE Ownership'
  BY <1>5 DEF Ownership, Owner, NotStarted, TypeOK, HelperGuard
<1>6. ASSUME NEW h \in Helpers, HelperPlugin(h) PROVE Ownership'
  BY <1>6 DEF Ownership, Owner, NotStarted, TypeOK, HelperPlugin, HelperStep
<1>7. ASSUME NEW h \in Helpers, HelperCount(h) PROVE Ownership'
  BY <1>7 DEF Ownership, Owner, NotStarted, TypeOK, HelperCount, HelperStep
<1>8. ASSUME NEW h \in Helpers, HelperInline(h) PROVE Ownership'
  BY <1>8 DEF Ownership, Owner, NotStarted, TypeOK, HelperInline, HelperStep
<1>9. ASSUME NEW h \in Helpers, HelperInlineDone(h) PROVE Ownership'
  BY <1>9 DEF Ownership, Owner, NotStarted, TypeOK, HelperInlineDone,
      HelperStep
<1>10. ASSUME NEW h \in Helpers, HelperRemote(h) PROVE Ownership'
  BY <1>10 DEF Ownership, Owner, NotStarted, TypeOK, HelperRemote, HelperBranch
<1>11. ASSUME NEW h \in Helpers, HelperUnconnected(h) PROVE Ownership'
  BY <1>11 DEF Ownership, Owner, NotStarted, TypeOK, HelperUnconnected,
      HelperBranch
<1>12. ASSUME NEW h \in Helpers, HelperRemoteSignal(h) PROVE Ownership'
  BY <1>12 DEF Ownership, Owner, NotStarted, TypeOK, HelperRemoteSignal,
      HelperStep, NextCheckChangedHandler, Reindex, Notify
<1>13. ASSUME NEW h \in Helpers, HelperRemoteClear(h) PROVE Ownership'
  BY <1>13 DEF Ownership, Owner, NotStarted, TypeOK, HelperRemoteClear, ClearedBy,
      HelperStep
<1>14. ASSUME NEW h \in Helpers, HelperFinish(h) PROVE Ownership'
  BY <1>14 DEF Ownership, Owner, NotStarted, TypeOK, HelperFinish, HelperStep
<1>15. ASSUME NEW h \in Helpers, HelperReturn(h) PROVE Ownership'
  BY <1>15 DEF Ownership, Owner, NotStarted, TypeOK, HelperReturn,
      HelperStep, InsertIdle, Notify
<1>16. ASSUME NEW h \in Helpers, ProcExit(h) PROVE Ownership'
  BY <1>16 DEF Ownership, Owner, NotStarted, TypeOK, ProcExit, ProcStep
<1>17. ASSUME NEW h \in Helpers, ProcDiscard(h) PROVE Ownership'
  BY <1>17 DEF Ownership, Owner, NotStarted, TypeOK, ProcDiscard, ClearedBy, ProcStep
<1>18. ASSUME NEW h \in Helpers, ProcResult(h) PROVE Ownership'
  BY <1>18 DEF Ownership, Owner, NotStarted, TypeOK, ProcResult, ClearedBy, ProcStep,
      UpdateNextCheck
<1>19. ASSUME NEW h \in Helpers, ProcSignal(h) PROVE Ownership'
  BY <1>19 DEF Ownership, Owner, NotStarted, TypeOK, ProcSignal, ProcStep,
      NextCheckChangedHandler, Reindex, Notify
<1>20. ASSUME NEW c \in Checkables, PassiveResult(c) PROVE Ownership'
  BY <1>20 DEF Ownership, Owner, NotStarted, TypeOK, PassiveResult, ClearedByOther
<1>21. ASSUME NEW h \in Helpers, HelperMacroError(h) PROVE Ownership'
  BY <1>21 DEF Ownership, Owner, NotStarted, TypeOK, HelperMacroError, HelperStep
<1>22. ASSUME NEW h \in Helpers, HelperMacroErrorDone(h) PROVE Ownership'
  BY <1>22 DEF Ownership, Owner, NotStarted, TypeOK, HelperMacroErrorDone, HelperStep
<1>23. ASSUME NEW h \in Helpers, HelperComplain(h) PROVE Ownership'
  BY <1>23 DEF Ownership, Owner, NotStarted, TypeOK, HelperComplain, HelperBranch
<1>24. ASSUME NEW h \in Helpers, HelperComplainDone(h) PROVE Ownership'
  BY <1>24 DEF Ownership, Owner, NotStarted, TypeOK, HelperComplainDone, HelperStep
<1>25. ASSUME NEW c \in Checkables, EndpointResult(c) PROVE Ownership'
  BY <1>25 DEF Ownership, Owner, NotStarted, TypeOK, EndpointResult,
      UpdateNextCheck, ClearedByOther
<1>26. ASSUME NEW c \in Checkables, PeerResult(c) PROVE Ownership'
  BY <1>26 DEF Ownership, Owner, NotStarted, TypeOK, PeerResult, ClearedByOther
<1> QED
  BY <1>1, <1>2, <1>3, <1>4, <1>5, <1>6, <1>7, <1>8, <1>9, <1>10, <1>11, <1>12,
      <1>13, <1>14, <1>15, <1>16, <1>17, <1>18, <1>19, <1>20, <1>21, <1>22,
      <1>23, <1>24, <1>25, <1>26 DEF PeerNextCheck, HelperBranch, Next,
      Scheduler, Helper, Proc, Remote, Api, Stopping, vars, SchedulerWait,
      SchedulerSleep, SchedulerTimeout, SchedulerStop, SchedulerReschedule,
      SchedulerSignal, SchedulerSkip, SchedulerPend, RemoteAcquire,
      RemoteExecute, RemoteReject, RemoteRelease, RemoteExit, SetAuthority,
      Deactivate, AuthoritySignal, ActiveSignal, RescheduleCheck, ApiSignal,
      StopBegin, StopJoin, StopReturn, Tick

\* Once the wait group is joined no result enters it.

LEMMA QuietStep ==
  TypeOK /\ StopOrder /\ QuietAfterStop /\ [Next]_vars => (StopOrder /\
      QuietAfterStop)'
<1> SUFFICES ASSUME TypeOK, StopOrder, QuietAfterStop, [Next]_vars PROVE
    (StopOrder /\ QuietAfterStop)'
  OBVIOUS
<1> USE CheckerAssumption DEF objVars, timeVars, queueVars, stopVars,
    schedVars, helperVars, remoteVars, markVars, slotVars
<1>1. ASSUME UNCHANGED <<schedPc, procPc, joined, stopPc>> PROVE (StopOrder
    /\ QuietAfterStop)'
  BY <1>1 DEF StopOrder, QuietAfterStop, TypeOK
<1>2. ASSUME SchedulerWait PROVE (StopOrder /\ QuietAfterStop)'
  BY <1>2 DEF StopOrder, QuietAfterStop, TypeOK, SchedulerWait, Running
<1>3. ASSUME SchedulerSleep PROVE (StopOrder /\ QuietAfterStop)'
  BY <1>3 DEF StopOrder, QuietAfterStop, TypeOK, SchedulerSleep, Running
<1>4. ASSUME SchedulerTimeout PROVE (StopOrder /\ QuietAfterStop)'
  BY <1>4 DEF StopOrder, QuietAfterStop, TypeOK, SchedulerTimeout
<1>5. ASSUME SchedulerStop PROVE (StopOrder /\ QuietAfterStop)'
  BY <1>5 DEF StopOrder, QuietAfterStop, TypeOK, SchedulerStop
<1>6. ASSUME SchedulerReschedule PROVE (StopOrder /\ QuietAfterStop)'
  BY <1>6 DEF StopOrder, QuietAfterStop, TypeOK, SchedulerReschedule,
      UpdateNextCheck
<1>7. ASSUME SchedulerSignal PROVE (StopOrder /\ QuietAfterStop)'
  BY <1>7 DEF StopOrder, QuietAfterStop, TypeOK, SchedulerSignal, Reindex
<1>8. ASSUME SchedulerDispatch PROVE (StopOrder /\ QuietAfterStop)'
  BY <1>8 DEF StopOrder, QuietAfterStop, TypeOK, SchedulerDispatch
<1>9. ASSUME NEW c \in Checkables, SchedulerSkip(c) PROVE (StopOrder /\
    QuietAfterStop)'
  BY <1>9 DEF StopOrder, QuietAfterStop, TypeOK, SchedulerSkip, Running
<1>10. ASSUME NEW c \in Checkables, SchedulerPend(c) PROVE (StopOrder /\
    QuietAfterStop)'
  BY <1>10 DEF StopOrder, QuietAfterStop, TypeOK, SchedulerPend, Running
<1>11. ASSUME NEW h \in Helpers, HelperSignal(h) PROVE (StopOrder /\
    QuietAfterStop)'
  BY <1>11 DEF StopOrder, QuietAfterStop, TypeOK, HelperSignal, HelperStep,
      NextCheckChangedHandler, Reindex, Notify
<1>12. ASSUME NEW h \in Helpers, HelperPlugin(h) PROVE (StopOrder /\
    QuietAfterStop)'
  BY <1>12 DEF StopOrder, QuietAfterStop, TypeOK, HelperPlugin, HelperStep
<1>13. ASSUME NEW h \in Helpers, HelperInline(h) PROVE (StopOrder /\
    QuietAfterStop)'
  BY <1>13 DEF StopOrder, QuietAfterStop, TypeOK, HelperInline, HelperStep
<1>14. ASSUME NEW h \in Helpers, HelperRemoteSignal(h) PROVE (StopOrder /\
    QuietAfterStop)'
  BY <1>14 DEF StopOrder, QuietAfterStop, TypeOK, HelperRemoteSignal,
      HelperStep, NextCheckChangedHandler, Reindex, Notify
<1>15. ASSUME NEW h \in Helpers, HelperReturn(h) PROVE (StopOrder /\
    QuietAfterStop)'
  BY <1>15 DEF StopOrder, QuietAfterStop, TypeOK, HelperReturn, HelperStep,
      InsertIdle, Notify
<1>16. ASSUME NEW h \in Helpers, ProcExit(h) PROVE (StopOrder /\
    QuietAfterStop)'
  BY <1>16 DEF StopOrder, QuietAfterStop, TypeOK, ProcExit, ProcStep
<1>17. ASSUME NEW h \in Helpers, ProcDiscard(h) PROVE (StopOrder /\
    QuietAfterStop)'
  BY <1>17 DEF StopOrder, QuietAfterStop, TypeOK, ProcDiscard, ProcStep
<1>18. ASSUME NEW h \in Helpers, ProcResult(h) PROVE (StopOrder /\
    QuietAfterStop)'
  BY <1>18 DEF StopOrder, QuietAfterStop, TypeOK, ProcResult, ProcStep,
      UpdateNextCheck
<1>19. ASSUME NEW h \in Helpers, ProcSignal(h) PROVE (StopOrder /\
    QuietAfterStop)'
  BY <1>19 DEF StopOrder, QuietAfterStop, TypeOK, ProcSignal, ProcStep,
      NextCheckChangedHandler, Reindex, Notify
<1>20. ASSUME NEW c \in Checkables, AuthoritySignal(c) PROVE (StopOrder /\
    QuietAfterStop)'
  BY <1>20 DEF StopOrder, QuietAfterStop, TypeOK, AuthoritySignal,
      ObjectHandler, InsertIdle, Notify
<1>21. ASSUME NEW c \in Checkables, ActiveSignal(c) PROVE (StopOrder /\
    QuietAfterStop)'
  BY <1>21 DEF StopOrder, QuietAfterStop, TypeOK, ActiveSignal,
      ObjectHandler, InsertIdle, Notify
<1>22. ASSUME NEW c \in Checkables, ApiSignal(c) PROVE (StopOrder /\
    QuietAfterStop)'
  BY <1>22 DEF StopOrder, QuietAfterStop, TypeOK, ApiSignal,
      NextCheckChangedHandler, Reindex, Notify
<1>23. ASSUME StopBegin PROVE (StopOrder /\ QuietAfterStop)'
  BY <1>23 DEF StopOrder, QuietAfterStop, TypeOK, StopBegin, Notify
<1>24. ASSUME StopJoin PROVE (StopOrder /\ QuietAfterStop)'
  BY <1>24 DEF StopOrder, QuietAfterStop, TypeOK, StopJoin
<1>25. ASSUME StopReturn PROVE (StopOrder /\ QuietAfterStop)'
  BY <1>25 DEF StopOrder, QuietAfterStop, TypeOK, StopReturn
<1>26. ASSUME NEW h \in Helpers, HelperMacroError(h) PROVE (StopOrder /\ QuietAfterStop)'
  BY <1>26 DEF StopOrder, QuietAfterStop, TypeOK, HelperMacroError, HelperStep
<1>27. ASSUME NEW h \in Helpers, HelperComplain(h) PROVE (StopOrder /\ QuietAfterStop)'
  BY <1>27 DEF StopOrder, QuietAfterStop, TypeOK, HelperComplain, HelperBranch
<1> QED
  BY <1>1, <1>2, <1>3, <1>4, <1>5, <1>6, <1>7, <1>8, <1>9, <1>10, <1>11, <1>12,
      <1>13, <1>14, <1>15, <1>16, <1>17, <1>18, <1>19, <1>20, <1>21, <1>22,
      <1>23, <1>24, <1>25, <1>26, <1>27 DEF HelperMacroErrorDone,
      HelperComplainDone, EndpointResult, PeerResult, PeerNextCheck,
      HelperBranch, Next, Scheduler, Helper, Proc, Remote, Api, Stopping, vars,
      HelperBegin, HelperGuard, HelperCount, HelperInlineDone, HelperRemote,
      HelperUnconnected, HelperRemoteClear, HelperFinish, RemoteAcquire,
      RemoteExecute, RemoteReject, RemoteRelease, RemoteExit, SetAuthority,
      Deactivate, RescheduleCheck, PassiveResult, Tick, HelperStep

-----------------------------------------------------------------------------
\* The inductive invariant: the properties themselves, the disjointness of the
\* two sets, who owns m_CheckRunning, and the order of the steps of Stop().
IInv ==
    /\ TypeOK /\ IdleOrPending /\ Responsibility
    /\ NotStarted /\ IndexFresh /\ NoMissedWakeup
    /\ Ownership /\ StopOrder /\ QuietAfterStop

\* IInv holds in every reachable state of the scheduler.

THEOREM Invariance == Spec => []IInv
<1>1. Init => IInv
  <2> SUFFICES ASSUME Init PROVE IInv
    OBVIOUS
  <2>1. TypeOK
    BY InitType
  <2>2. IdleOrPending /\ Responsibility /\ IndexFresh /\ NoMissedWakeup
    BY DEF Init, IdleOrPending, Responsibility, Authoritative, IndexFresh,
       NoMissedWakeup
  <2>3. NotStarted /\ Ownership
    BY DEF Init, NotStarted, Ownership, Owner
  <2>4. StopOrder /\ QuietAfterStop
    BY DEF Init, StopOrder, QuietAfterStop
  <2> QED
    BY <2>1, <2>2, <2>3, <2>4 DEF IInv
<1>2. IInv /\ [Next]_vars => IInv'
  BY TypeStep, IdleOrPendingStep, ResponsibilityStep, NotStartedStep,
     IndexFreshStep, NoMissedWakeupStep, OwnershipStep, QuietStep DEF IInv
<1> QED
  BY <1>1, <1>2, PTL DEF Spec

\* ObjectHandler, ExecuteCheckHelper and the scheduler together never lose an
\* object of this node and never keep one of another node.
THEOREM SchedulesItsOwn == Spec => [](Responsibility /\ IdleOrPending)
<1>1. IInv => Responsibility /\ IdleOrPending
  BY DEF IInv
<1> QED
  BY <1>1, Invariance, PTL

\* The scheduler thread always sees a due check in time: the idle set is sorted
\* by next_check up to a handler on its way, ...
THEOREM IndexIsSorted == Spec => []IndexFresh
<1>1. IInv => IndexFresh
  BY DEF IInv
<1> QED
  BY <1>1, Invariance, PTL

\* ... and no wakeup is missed.
THEOREM WakesUp == Spec => []NoMissedWakeup
<1>1. IInv => NoMissedWakeup
  BY DEF IInv
<1> QED
  BY <1>1, Invariance, PTL

\* m_CheckRunning keeps two processes from checking one object, as long as no
\* result of somebody else, from a user or an HA peer, takes the mark of a running
\* check away.
THEOREM OneProcessPerObject == Spec => []NoOverlap
<1>1. IInv => NoOverlap
  BY DEF IInv, Ownership, Owner, NoOverlap
<1> QED
  BY <1>1, Invariance, PTL

\* After Stop() has returned, no result of the component is processed.
THEOREM StopIsQuiet == Spec => []QuietAfterStop
<1>1. IInv => QuietAfterStop
  BY DEF IInv
<1> QED
  BY <1>1, Invariance, PTL

-----------------------------------------------------------------------------
(* The slots for checks: m_PendingChecks and the limit.                       *)

Holding == {"queued", "signal", "guard", "spawn", "inline", "failed", "answered",
            "complain", "remoteSignal", "remoteClear", "finish"}
Starting == {"queued", "signal", "guard", "spawn"}

SlotHolders == {h \in Helpers : helperPc[h] \in Holding}
Starters == {h \in Helpers : helperPc[h] \in Starting}
Processes == {h \in Helpers : procPc[h] = "run"}

One(b) == IF b THEN 1 ELSE 0

\* The checks that run and those that will without looking at the limit again:
\* a helper on its way, the remote check thread with its slot, and the one the
\* scheduler is about to dispatch.  Each leak has let one more in.
SlotsClaimed ==
    Cardinality(Processes) + remoteProcs + Cardinality(Starters)
        + One(remotePc = "acquired") + One(schedPc = "dispatch")
        <= MaxConcurrentChecks + 1 + leaked

\* SlotAccounting with the names of the sets.
SlotsCounted ==
    pendingChecks + leaked = Cardinality(SlotHolders) + Cardinality(Processes)
                             + remoteProcs + One(remotePc # "idle")

\* A helper or its process that moves changes what is counted by one at most.
LEMMA OneMoves ==
    ASSUME NEW A \in SUBSET Helpers, NEW h \in Helpers, NEW stays \in BOOLEAN
    PROVE  LET B == IF stays THEN (A \ {h}) \cup {h} ELSE A \ {h}
           IN /\ Cardinality(A) \in Nat
              /\ Cardinality(B) = Cardinality(A) + One(stays) - One(h \in A)
<1>1. IsFiniteSet(A) /\ IsFiniteSet(A \ {h})
  BY FS_Subset, CheckerAssumption
<1>2. Cardinality(A) \in Nat /\ Cardinality(A \ {h}) \in Nat
  BY <1>1, FS_CardinalityType
<1>3. Cardinality(A \ {h}) = Cardinality(A) - One(h \in A)
  BY <1>1, <1>2, FS_RemoveElement DEF One
<1>4. Cardinality((A \ {h}) \cup {h}) = Cardinality(A \ {h}) + 1
  BY <1>1, FS_AddElement
<1> QED
  BY <1>2, <1>3, <1>4 DEF One

\* What is counted stays countable.
LEMMA Countable ==
    /\ Cardinality(SlotHolders) \in Nat /\ Cardinality(Starters) \in Nat
    /\ Cardinality(Processes) \in Nat /\ Cardinality(Starters) <= Cardinality(SlotHolders)
<1>1. /\ SlotHolders \in SUBSET Helpers /\ Starters \in SUBSET Helpers
      /\ Processes \in SUBSET Helpers /\ Starters \subseteq SlotHolders
  BY DEF SlotHolders, Starters, Processes, Holding, Starting
<1>2. IsFiniteSet(SlotHolders) /\ IsFiniteSet(Starters) /\ IsFiniteSet(Processes)
  BY <1>1, FS_Subset, CheckerAssumption
<1> QED
  BY <1>1, <1>2, FS_CardinalityType, FS_Subset

\* ExecuteCheckHelper and the process it starts: the counter follows, and a process
\* is started only by a helper on its way.
LEMMA HelperMoves ==
    ASSUME TypeOK, SlotsCounted, SlotsClaimed, NEW h \in Helpers,
           NEW to \in HelperPcs, NEW proc \in ProcPcs,
           helperPc' = [helperPc EXCEPT ![h] = to], procPc' = [procPc EXCEPT ![h] = proc],
           UNCHANGED <<remotePc, remoteProcs>>,
           schedPc' = "dispatch" => schedPc = "dispatch",
           pendingChecks' \in Int, leaked' \in Nat, leaked <= leaked',
           pendingChecks' + leaked' = pendingChecks + leaked
               + One(to \in Holding) - One(helperPc[h] \in Holding)
               + One(proc = "run") - One(procPc[h] = "run"),
           One(to \in Starting) + One(proc = "run")
               <= One(helperPc[h] \in Starting) + One(procPc[h] = "run")
    PROVE  SlotsCounted' /\ SlotsClaimed'
<1> DEFINE holds == to \in Holding
           starts == to \in Starting
           runs == proc = "run"
<1>1. /\ SlotHolders \in SUBSET Helpers /\ (h \in SlotHolders <=> helperPc[h] \in Holding)
      /\ SlotHolders' = IF holds THEN (SlotHolders \ {h}) \cup {h} ELSE SlotHolders \ {h}
  BY DEF SlotHolders, TypeOK
<1>2. /\ Starters \in SUBSET Helpers /\ (h \in Starters <=> helperPc[h] \in Starting)
      /\ Starters' = IF starts THEN (Starters \ {h}) \cup {h} ELSE Starters \ {h}
  BY DEF Starters, TypeOK
<1>3. /\ Processes \in SUBSET Helpers /\ (h \in Processes <=> procPc[h] = "run")
      /\ Processes' = IF runs THEN (Processes \ {h}) \cup {h} ELSE Processes \ {h}
  BY DEF Processes, TypeOK
<1>4. holds \in BOOLEAN /\ starts \in BOOLEAN /\ runs \in BOOLEAN
  OBVIOUS
<1>5. \A b : One(b) \in {0, 1}
  BY DEF One
<1>6. /\ One(h \in SlotHolders) = One(helperPc[h] \in Holding)
      /\ One(h \in Starters) = One(helperPc[h] \in Starting)
      /\ One(h \in Processes) = One(procPc[h] = "run")
      /\ One((schedPc = "dispatch")') <= One(schedPc = "dispatch")
  BY <1>1, <1>2, <1>3 DEF One
<1>7. /\ One((remotePc = "acquired")') = One(remotePc = "acquired")
      /\ One((remotePc # "idle")') = One(remotePc # "idle")
  BY DEF One
<1> HIDE DEF holds, starts, runs
<1>8. /\ Cardinality(SlotHolders) \in Nat
      /\ Cardinality(SlotHolders') = Cardinality(SlotHolders) + One(holds) - One(h \in SlotHolders)
  BY <1>1, <1>4, OneMoves
<1>9. /\ Cardinality(Starters) \in Nat
      /\ Cardinality(Starters') = Cardinality(Starters) + One(starts) - One(h \in Starters)
  BY <1>2, <1>4, OneMoves
<1>10. /\ Cardinality(Processes) \in Nat
       /\ Cardinality(Processes') = Cardinality(Processes) + One(runs) - One(h \in Processes)
  BY <1>3, <1>4, OneMoves
<1> USE DEF holds, starts, runs
<1>11. SlotsCounted'
  BY <1>5, <1>6, <1>7, <1>8, <1>10 DEF SlotsCounted, TypeOK
<1>12. SlotsClaimed'
  BY <1>5, <1>6, <1>7, <1>9, <1>10, CheckerAssumption DEF SlotsClaimed, TypeOK
<1> QED
  BY <1>11, <1>12

\* What the steps of a helper and its process do to the slots.
SlotMove(h) ==
    \E to \in HelperPcs, proc \in ProcPcs :
        /\ helperPc' = [helperPc EXCEPT ![h] = to]
        /\ procPc' = [procPc EXCEPT ![h] = proc]
        /\ UNCHANGED <<remotePc, remoteProcs>>
        /\ schedPc' = "dispatch" => schedPc = "dispatch"
        /\ pendingChecks' \in Int /\ leaked' \in Nat /\ leaked <= leaked'
        /\ pendingChecks' + leaked' = pendingChecks + leaked
               + One(to \in Holding) - One(helperPc[h] \in Holding)
               + One(proc = "run") - One(procPc[h] = "run")
        /\ One(to \in Starting) + One(proc = "run")
               <= One(helperPc[h] \in Starting) + One(procPc[h] = "run")

\* IncreasePendingChecks and DecreasePendingChecks are called where they belong.
LEMMA HelpersCount ==
    ASSUME TypeOK, NotStarted, NEW h \in Helpers, Helper(h) \/ Proc(h)
    PROVE  SlotMove(h)
<1> USE DEF TypeOK, NotStarted, HelperPcs, ProcPcs, Holding, Starting, One, SlotMove,
            objVars, timeVars, queueVars, stopVars, schedVars, remoteVars, slotVars
<1>0. /\ helperPc = [helperPc EXCEPT ![h] = helperPc[h]] /\ helperPc[h] \in HelperPcs
      /\ procPc = [procPc EXCEPT ![h] = procPc[h]] /\ procPc[h] \in ProcPcs
  OBVIOUS
<1>1. ASSUME HelperBegin(h) PROVE SlotMove(h)
  BY <1>0, <1>1 DEF HelperBegin, HelperStep
<1>2. ASSUME HelperSignal(h) PROVE SlotMove(h)
  BY <1>0, <1>2 DEF HelperSignal, HelperStep, NextCheckChangedHandler, Notify
<1>3. ASSUME HelperGuard(h) PROVE SlotMove(h)
  <2>1. /\ helperPc[h] = "guard" /\ UNCHANGED <<pendingChecks, leaked, schedPc, procPc, remotePc,
                                                 remoteProcs>>
        /\ \E to \in {"finish", "spawn"} : helperPc' = [helperPc EXCEPT ![h] = to]
    BY <1>3 DEF HelperGuard
  <2>2. PICK to \in {"finish", "spawn"} : helperPc' = [helperPc EXCEPT ![h] = to]
    BY <2>1
  <2>3. CASE to = "finish"
    BY <1>0, <2>1, <2>2, <2>3
  <2>4. CASE to = "spawn"
    BY <1>0, <2>1, <2>2, <2>4
  <2> QED
    BY <2>2, <2>3, <2>4
<1>4. ASSUME HelperPlugin(h) PROVE SlotMove(h)
  BY <1>0, <1>4 DEF HelperPlugin, HelperStep
<1>5. ASSUME HelperCount(h) PROVE SlotMove(h)
  BY <1>0, <1>5 DEF HelperCount, HelperStep
<1>6. ASSUME HelperInline(h) PROVE SlotMove(h)
  BY <1>0, <1>6 DEF HelperInline, HelperStep
<1>7. ASSUME HelperInlineDone(h) PROVE SlotMove(h)
  BY <1>0, <1>7 DEF HelperInlineDone, HelperStep
<1>8. ASSUME HelperRemote(h) PROVE SlotMove(h)
  BY <1>0, <1>8 DEF HelperRemote, HelperBranch
<1>9. ASSUME HelperUnconnected(h) PROVE SlotMove(h)
  BY <1>0, <1>9 DEF HelperUnconnected, HelperBranch
<1>10. ASSUME HelperRemoteSignal(h) PROVE SlotMove(h)
  BY <1>0, <1>10 DEF HelperRemoteSignal, HelperStep, NextCheckChangedHandler, Notify
<1>11. ASSUME HelperRemoteClear(h) PROVE SlotMove(h)
  BY <1>0, <1>11 DEF HelperRemoteClear, HelperStep
<1>12. ASSUME HelperFinish(h) PROVE SlotMove(h)
  BY <1>0, <1>12 DEF HelperFinish, HelperStep
<1>13. ASSUME HelperReturn(h) PROVE SlotMove(h)
  BY <1>0, <1>13 DEF HelperReturn, HelperStep, Notify
<1>14. ASSUME ProcExit(h) PROVE SlotMove(h)
  BY <1>0, <1>14 DEF ProcExit, ProcStep
<1>15. ASSUME ProcDiscard(h) PROVE SlotMove(h)
  BY <1>0, <1>15 DEF ProcDiscard, ProcStep
<1>16. ASSUME ProcResult(h) PROVE SlotMove(h)
  BY <1>0, <1>16 DEF ProcResult, ProcStep
<1>17. ASSUME ProcSignal(h) PROVE SlotMove(h)
  BY <1>0, <1>17 DEF ProcSignal, ProcStep, NextCheckChangedHandler, Notify
<1>18. ASSUME HelperMacroError(h) PROVE SlotMove(h)
  BY <1>0, <1>18 DEF HelperMacroError, HelperStep
<1>19. ASSUME HelperMacroErrorDone(h) PROVE SlotMove(h)
  BY <1>0, <1>19 DEF HelperMacroErrorDone, HelperStep
<1>20. ASSUME HelperComplain(h) PROVE SlotMove(h)
  BY <1>0, <1>20 DEF HelperComplain, HelperBranch
<1>21. ASSUME HelperComplainDone(h) PROVE SlotMove(h)
  BY <1>0, <1>21 DEF HelperComplainDone, HelperStep
<1> QED
  BY <1>1, <1>2, <1>3, <1>4, <1>5, <1>6, <1>7, <1>8, <1>9, <1>10, <1>11, <1>12, <1>13,
     <1>14, <1>15, <1>16, <1>17, <1>18, <1>19, <1>20, <1>21 DEF Helper, Proc

\* Every step keeps the count and the claims. The limit is looked at by the scheduler,
\* before it dispatches, and by the remote check thread.
LEMMA SlotsStep ==
    TypeOK /\ NotStarted /\ SlotsCounted /\ SlotsClaimed /\ [Next]_vars
        => SlotsCounted' /\ SlotsClaimed'
<1> SUFFICES ASSUME TypeOK, NotStarted, SlotsCounted, SlotsClaimed, [Next]_vars
             PROVE  SlotsCounted' /\ SlotsClaimed'
  OBVIOUS
<1>0. /\ \A b : One(b) \in {0, 1}
      /\ pendingChecks \in Int /\ remoteProcs \in Nat /\ MaxConcurrentChecks \in Nat
      /\ leaked \in Nat
  BY CheckerAssumption DEF One, TypeOK
<1>1. ASSUME NEW h \in Helpers, Helper(h) \/ Proc(h) PROVE SlotsCounted' /\ SlotsClaimed'
  <2>1. SlotMove(h)
    BY <1>1, HelpersCount
  <2> QED
    BY <2>1, HelperMoves DEF SlotMove
<1>2. ASSUME UNCHANGED <<helperPc, procPc, remotePc, remoteProcs, pendingChecks, leaked>>,
             schedPc' = "dispatch" => schedPc = "dispatch"
      PROVE  SlotsCounted' /\ SlotsClaimed'
  <2>1. /\ SlotHolders' = SlotHolders /\ Processes' = Processes /\ Starters' = Starters
        /\ One((remotePc = "acquired")') = One(remotePc = "acquired")
        /\ One((remotePc # "idle")') = One(remotePc # "idle")
        /\ One((schedPc = "dispatch")') <= One(schedPc = "dispatch")
    BY <1>2 DEF SlotHolders, Processes, Starters, One
  <2> QED
    BY <1>0, <1>2, <2>1, Countable DEF SlotsCounted, SlotsClaimed
<1>3. ASSUME NEW c \in Checkables, SchedulerPend(c) PROVE SlotsCounted' /\ SlotsClaimed'
  <2>1. /\ UNCHANGED <<helperPc, procPc, remotePc, remoteProcs, pendingChecks, leaked>>
        /\ schedPc = "run" /\ schedPc' = "dispatch" /\ pendingChecks < MaxConcurrentChecks
    BY <1>0, <1>3 DEF SchedulerPend, Running, Due, Throttled, helperVars, remoteVars,
                       slotVars
  <2>2. /\ SlotHolders' = SlotHolders /\ Processes' = Processes /\ Starters' = Starters
        /\ One((remotePc = "acquired")') = One(remotePc = "acquired")
        /\ One((remotePc # "idle")') = One(remotePc # "idle")
        /\ One((schedPc = "dispatch")') = 1 /\ One(remotePc = "acquired") <= One(remotePc # "idle")
    BY <2>1 DEF SlotHolders, Processes, Starters, One
  <2> QED
    BY <1>0, <2>1, <2>2, Countable DEF SlotsCounted, SlotsClaimed
<1>4. ASSUME SchedulerDispatch PROVE SlotsCounted' /\ SlotsClaimed'
  <2>1. PICK h \in Helpers : /\ helperPc[h] = "free" /\ procPc[h] = "none"
                             /\ helperPc' = [helperPc EXCEPT ![h] = "queued"]
    BY <1>4 DEF SchedulerDispatch
  <2>2. /\ UNCHANGED <<procPc, remotePc, remoteProcs, leaked>> /\ pendingChecks' = pendingChecks + 1
        /\ schedPc = "dispatch" /\ schedPc' = "run"
    BY <1>4 DEF SchedulerDispatch, remoteVars
  <2>3. /\ SlotHolders \in SUBSET Helpers /\ h \notin SlotHolders
        /\ SlotHolders' = (SlotHolders \ {h}) \cup {h}
        /\ Starters \in SUBSET Helpers /\ h \notin Starters
        /\ Starters' = (Starters \ {h}) \cup {h}
        /\ Processes' = Processes
    BY <2>1, <2>2 DEF SlotHolders, Starters, Processes, Holding, Starting, TypeOK
  <2>4. PICK stays \in BOOLEAN : stays = TRUE
    OBVIOUS
  <2>5. Cardinality(SlotHolders') = Cardinality(SlotHolders) + One(stays) - One(h \in SlotHolders)
    BY <2>3, <2>4, OneMoves
  <2>6. Cardinality(Starters') = Cardinality(Starters) + One(stays) - One(h \in Starters)
    BY <2>3, <2>4, OneMoves
  <2>7. /\ One(stays) = 1 /\ One(h \in SlotHolders) = 0 /\ One(h \in Starters) = 0
        /\ One((remotePc = "acquired")') = One(remotePc = "acquired")
        /\ One((remotePc # "idle")') = One(remotePc # "idle")
        /\ One((schedPc = "dispatch")') = 0 /\ One(schedPc = "dispatch") = 1
    BY <2>2, <2>3, <2>4 DEF One
  <2> QED
    BY <1>0, <2>2, <2>3, <2>5, <2>6, <2>7, Countable DEF SlotsCounted, SlotsClaimed
<1>5. ASSUME RemoteAcquire \/ RemoteExecute \/ RemoteReject \/ RemoteRelease \/ RemoteExit
      PROVE  SlotsCounted' /\ SlotsClaimed'
  <2>1. UNCHANGED <<helperPc, procPc, schedPc, leaked>>
    BY <1>5 DEF RemoteAcquire, RemoteExecute, RemoteReject, RemoteRelease, RemoteExit,
                schedVars, helperVars, slotVars
  <2>2. /\ SlotHolders' = SlotHolders /\ Processes' = Processes /\ Starters' = Starters
        /\ One((schedPc = "dispatch")') = One(schedPc = "dispatch")
        /\ leaked' = leaked
    BY <2>1 DEF SlotHolders, Processes, Starters, One
  <2>3. CASE RemoteAcquire
    <3>1. /\ remoteProcs' = remoteProcs /\ pendingChecks' = pendingChecks + 1
          /\ pendingChecks < MaxConcurrentChecks
          /\ One(remotePc # "idle") = 0 /\ One((remotePc # "idle")') = 1
          /\ One(remotePc = "acquired") = 0 /\ One((remotePc = "acquired")') = 1
      BY <1>0, <2>3 DEF RemoteAcquire, Throttled, One
    <3> QED
      BY <1>0, <2>2, <3>1, Countable DEF SlotsCounted, SlotsClaimed
  <2>4. CASE RemoteExecute
    <3>1. /\ remoteProcs' = remoteProcs + 1 /\ pendingChecks' = pendingChecks + 1
          /\ One(remotePc # "idle") = 1 /\ One((remotePc # "idle")') = 1
          /\ One(remotePc = "acquired") = 1 /\ One((remotePc = "acquired")') = 0
      BY <2>4 DEF RemoteExecute, One
    <3> QED
      BY <1>0, <2>2, <3>1, Countable DEF SlotsCounted, SlotsClaimed
  <2>5. CASE RemoteReject
    <3>1. /\ remoteProcs' = remoteProcs /\ pendingChecks' = pendingChecks
          /\ One(remotePc # "idle") = 1 /\ One((remotePc # "idle")') = 1
          /\ One(remotePc = "acquired") = 1 /\ One((remotePc = "acquired")') = 0
      BY <2>5 DEF RemoteReject, One, slotVars
    <3> QED
      BY <1>0, <2>2, <3>1, Countable DEF SlotsCounted, SlotsClaimed
  <2>6. CASE RemoteRelease
    <3>1. /\ remoteProcs' = remoteProcs /\ pendingChecks' = pendingChecks - 1
          /\ One(remotePc # "idle") = 1 /\ One((remotePc # "idle")') = 0
          /\ One(remotePc = "acquired") = 0 /\ One((remotePc = "acquired")') = 0
      BY <2>6 DEF RemoteRelease, One
    <3> QED
      BY <1>0, <2>2, <3>1, Countable DEF SlotsCounted, SlotsClaimed
  <2>7. CASE RemoteExit
    <3>1. /\ remoteProcs' = remoteProcs - 1 /\ pendingChecks' = pendingChecks - 1
          /\ One((remotePc # "idle")') = One(remotePc # "idle")
          /\ One((remotePc = "acquired")') = One(remotePc = "acquired")
      BY <2>7 DEF RemoteExit, One
    <3> QED
      BY <1>0, <2>2, <3>1, Countable DEF SlotsCounted, SlotsClaimed
  <2> QED
    BY <1>5, <2>3, <2>4, <2>5, <2>6, <2>7
<1>6. ASSUME \/ SchedulerWait \/ SchedulerSleep \/ SchedulerTimeout \/ SchedulerStop
             \/ SchedulerReschedule \/ SchedulerSignal
             \/ \E c \in Checkables : SchedulerSkip(c)
             \/ \E c \in Checkables : \/ \E authority \in BOOLEAN : SetAuthority(c, authority)
                                      \/ Deactivate(c) \/ AuthoritySignal(c) \/ ActiveSignal(c)
                                      \/ Api(c) \/ ApiSignal(c)
             \/ Stopping \/ Tick \/ UNCHANGED vars
      PROVE  SlotsCounted' /\ SlotsClaimed'
  <2>1. /\ UNCHANGED <<helperPc, procPc, remotePc, remoteProcs, pendingChecks, leaked>>
        /\ schedPc' = "dispatch" => schedPc = "dispatch"
    BY <1>6 DEF SchedulerWait, SchedulerSleep, SchedulerTimeout, SchedulerStop,
        SchedulerReschedule, SchedulerSignal, SchedulerSkip, SetAuthority,
        Deactivate, AuthoritySignal, ActiveSignal, Api, RescheduleCheck,
        PassiveResult, EndpointResult, PeerResult, PeerNextCheck, ApiSignal,
        ObjectHandler, NextCheckChangedHandler, Notify, Stopping, StopBegin,
        StopJoin, StopReturn, Tick, vars, schedVars, helperVars, remoteVars,
        slotVars, markVars
  <2> QED
    BY <2>1, <1>2
<1> QED
  BY <1>1, <1>3, <1>4, <1>5, <1>6 DEF Next, Scheduler, Remote

\* Both hold from the start.
LEMMA SlotsInvariant == Spec => [](SlotsCounted /\ SlotsClaimed)
<1>1. Init => SlotsCounted /\ SlotsClaimed
  <2> SUFFICES ASSUME Init PROVE SlotsCounted /\ SlotsClaimed
    OBVIOUS
  <2>1. SlotHolders = {} /\ Starters = {} /\ Processes = {}
    BY DEF Init, SlotHolders, Starters, Processes, Holding, Starting
  <2>2. Cardinality({}) = 0
    BY FS_EmptySet
  <2>3. /\ One(remotePc # "idle") = 0 /\ One(remotePc = "acquired") = 0
        /\ One(schedPc = "dispatch") = 0 /\ remoteProcs = 0 /\ pendingChecks = 0
        /\ leaked = 0
    BY DEF Init, One
  <2> QED
    BY <2>1, <2>2, <2>3, CheckerAssumption DEF SlotsCounted, SlotsClaimed
<1>2. IInv => TypeOK /\ NotStarted
  BY DEF IInv
<1> QED
  BY <1>1, <1>2, Invariance, SlotsStep, PTL DEF Spec

\* m_PendingChecks counts each helper and each running process once, however many
\* helpers and remote checks there are: a slot is given back twice by nothing but an
\* execution for an endpoint whose macros cannot be resolved.
THEOREM SlotsAddUp == Spec => []SlotAccounting
<1>1. TypeOK /\ SlotsCounted => SlotAccounting
  <2> SUFFICES ASSUME TypeOK, SlotsCounted PROVE SlotAccounting
    OBVIOUS
  <2>1. SlotHolders = {h \in Helpers : helperPc[h] \notin {"free", "count", "return"}}
    BY DEF SlotHolders, Holding, TypeOK, HelperPcs
  <2>2. One(remotePc # "idle") = IF remotePc = "idle" THEN 0 ELSE 1
    BY DEF One
  <2> QED
    BY <2>1, <2>2 DEF SlotsCounted, SlotAccounting, Processes
<1>2. IInv => TypeOK
  BY DEF IInv
<1> QED
  BY <1>1, <1>2, Invariance, SlotsInvariant, PTL

\* Whatever the limit and the number of helpers and remote checks: at most one check
\* more than max_concurrent_checks runs, and one for each such execution.
THEOREM LimitHolds == Spec => []ConcurrencyBound
<1>1. TypeOK /\ SlotsClaimed => ConcurrencyBound
  <2> SUFFICES ASSUME TypeOK, SlotsClaimed PROVE ConcurrencyBound
    OBVIOUS
  <2>1. \A b : One(b) \in {0, 1}
    BY DEF One
  <2>2. RunningChecks = Cardinality(Processes) + remoteProcs
    BY DEF RunningChecks, Processes
  <2> QED
    BY <2>1, <2>2, Countable, CheckerAssumption DEF SlotsClaimed, ConcurrencyBound, TypeOK
<1>2. IInv => TypeOK
  BY DEF IInv
<1> QED
  BY <1>1, <1>2, Invariance, SlotsInvariant, PTL

=============================================================================

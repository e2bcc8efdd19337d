------------------------------ MODULE MCSlots ------------------------------
(***************************************************************************)
(* Who competes for the slots for checks: two helpers for one plugin check, *)
(* paused and resumed, while no remote check runs; or one helper, remote    *)
(* checks and executions that fail. The other combinations are cut off.     *)
(***************************************************************************)
EXTENDS CheckerComponent, TLC

\* Helper threads are interchangeable.
HelperSymmetry == Permutations(Helpers)

NoRemoteCheck == remotePc = "idle" /\ remoteProcs = 0

AHelperIsFree == \E h \in Helpers : helperPc[h] = "free" /\ procPc[h] = "none"

TwoHelpers == NoRemoteCheck /\ leaked = 0

\* Pausing and resuming has no part in the competition with remote checks.
OneHelperAndRemoteChecks == AHelperIsFree /\ (NoRemoteCheck \/ authSignal = {})

HelpersOrRemoteChecks == TwoHelpers \/ OneHelperAndRemoteChecks

\* Only objects without a command endpoint are ever removed.
EndpointChecksStay == \A c \in EndpointChecks : active[c]

\* Forced checks compete like others.
NoneForced == \A c \in Checkables : ~forceNextCheck[c]

\* No object gets an authority before all of them have been announced as active.
ActivationFirst == authSignal # {} => \A c \in activeSignal : ~active[c]
=============================================================================

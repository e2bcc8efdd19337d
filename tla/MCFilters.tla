------------------------------ MODULE MCFilters ------------------------------
(***************************************************************************)
(* What decides whether and when users are told. The initial state chooses   *)
(* the part that runs: the notification object of MCNotification ("periods", *)
(* with a time period, times.begin and reminders); one without a period and  *)
(* reminders that has a filter on states and a window with an end, for a     *)
(* service that flaps and a user with a time period of their own             *)
(* ("filters"); and what the two see as flags: whether an object can be      *)
(* reached, whether it flaps, and whether now is inside a time period.       *)
(***************************************************************************)
EXTENDS MCNotification, Reachability, Flapping, TimePeriod

\* A host h behind two routers and a service s of it. d1 and d2 make a redundancy group
\* of h that d3 joins while it has the same parents; d1 and d4 together are a cycle.
MCHostOf == [o \in Objects |-> IF o = "s" THEN "h" ELSE NoObject]
MCChild == ("d1" :> "h") @@ ("d2" :> "h") @@ ("d3" :> "s") @@ ("d4" :> "r1")
MCParent == ("d1" :> "r1") @@ ("d2" :> "r2") @@ ("d3" :> "r1") @@ ("d4" :> "h")
MCGroupName == [d \in Dependencies |-> IF d = "d4" THEN NoGroup ELSE "net"]
MCParentStates == [d \in Dependencies |-> {"Up"}]
MCResults == ("r1" :> {"Up", "SoftDown", "Down"}) @@ ("h" :> {"Down"})
             @@ [o \in Objects |-> {}]

\* A time period p that includes i and excludes e, each with ranges that meet, overlap
\* and repeat every day or every other day.
Daily(b, e) == [d \in 0..1 |-> <<Segment(b, e)>>]
EveryOtherDay(d, rs) == [k \in 0..1 |-> IF k = d THEN rs ELSE <<>>]
MCOrder == <<"p", "i", "e">>
MCRanges ==
    ("p" :> {Daily(0, 4), Daily(1, 3), EveryOtherDay(0, <<Segment(0, 2), Segment(3, 4)>>)})
    @@ ("i" :> {Daily(2, 4), EveryOtherDay(1, <<Segment(0, 1)>>)})
    @@ ("e" :> {Daily(1, 2), Daily(0, 1), EveryOtherDay(1, <<Segment(0, 4)>>)})
MCIncludes == ("p" :> <<"i">>) @@ ("i" :> <<>>) @@ ("e" :> <<>>)
MCExcludes == ("p" :> <<"e">>) @@ ("i" :> <<>>) @@ ("e" :> <<>>)

ASSUME FlatAssumption == Flat

VARIABLE part

\* The variables of the second notification object, with the names of the first
VARIABLES fState, fReported, fFlapping, fFlappingReported, fHeld, fProcessing, fAuthority,
          fInPeriod, fAway, fPhase, fStash, fN

fVars == <<fState, fReported, fFlapping, fFlappingReported, fHeld, fProcessing, fAuthority,
           fInPeriod, fAway, fPhase, fStash, fN>>

Filtered == INSTANCE Notification WITH
    StateFilter <- {"OK", "CRITICAL"}, PeriodUsers <- {"critical"},
    Period <- FALSE, TimesEnd <- TRUE, Interval <- FALSE,
    Holds <- {"downtime"}, EnableFlapping <- TRUE,
    state <- fState, reported <- fReported, flapping <- fFlapping,
    flappingReported <- fFlappingReported, held <- fHeld, processing <- fProcessing,
    updatedAuthority <- fAuthority, inPeriod <- fInPeriod, away <- fAway, phase <- fPhase,
    stash <- fStash, n <- fN

othersVars == <<reachabilityVars, flappingVars, timePeriodVars>>
filtersVars == <<part, vars, fVars, othersVars>>

FiltersInit ==
    /\ part \in {"periods", "filters", "reachability", "flapping", "timeperiods"}
    /\ Init /\ Filtered!Init /\ ReachabilityInit /\ FlappingInit /\ TimePeriodInit
    /\ part # "flapping" => flappingLastState = "OK"
    /\ part # "timeperiods" =>
          preferIncludes /\ \A p \in TimePeriods : ranges[p] = CHOOSE r \in Ranges[p] : TRUE

Notify == /\ part = "periods" /\ Next
          /\ UNCHANGED <<part, fVars, othersVars>>

NotifyFiltered == /\ part = "filters" /\ Filtered!Next
                  /\ UNCHANGED <<part, vars, othersVars>>

ReachObjects == /\ part = "reachability" /\ ReachabilityNext
                /\ UNCHANGED <<part, vars, fVars, flappingVars, timePeriodVars>>

Flap == /\ part = "flapping" /\ FlappingNext
        /\ UNCHANGED <<part, vars, fVars, reachabilityVars, timePeriodVars>>

KeepPeriods == /\ part = "timeperiods" /\ TimePeriodNext
               /\ UNCHANGED <<part, vars, fVars, reachabilityVars, flappingVars>>

FiltersNext == Notify \/ NotifyFiltered \/ ReachObjects \/ Flap \/ KeepPeriods

\* Fairness is that of the first object: what must happen in the end is asked of it.
FiltersSpec == /\ FiltersInit /\ [][FiltersNext]_filtersVars
               /\ Fairness

\* Without a time period of the notification nobody is told of the same problem
\* state twice in a row except by a reminder.
NoRepeat == [][Filtered!TellsNews]_filtersVars
=============================================================================

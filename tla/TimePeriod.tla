----------------------------- MODULE TimePeriod -----------------------------
(***************************************************************************)
(* Time periods (lib/icinga/timeperiod.cpp): a list of segments that is     *)
(* filled a day ahead by the update function, purged behind, and merged     *)
(* with the segments of included and excluded time periods.                 *)
(*                                                                          *)
(* The update function is LegacyTimePeriod::ScriptFunc, which works by      *)
(* whole days; day definitions and ranges are abstracted to the segments of *)
(* every day of a Week. UpdateRegion is one step: a period is updated by    *)
(* its Start and by the timer, which goes through all periods in an order.  *)
(***************************************************************************)
EXTENDS Integers, Sequences

CONSTANTS
    Order,          \* the time periods, in the order of GetObjectsByType
    Ranges,         \* [time periods -> set of possible [days of a Week -> sequences of segments]]
    Includes, Excludes,  \* [time periods -> sequences of time periods]
    Day,            \* units of time of a day; the timer fires once per unit
    Week,           \* days after which the ranges repeat
    Hour,           \* what is kept behind, in units of time
    MaxClock,       \* bound on the clock
    MaxRestarts     \* bound on the restarts

TimePeriods == {Order[k] : k \in DOMAIN Order}

ASSUME TimePeriodAssumption ==
    /\ {Day, Week, Hour, MaxClock, MaxRestarts} \subseteq Nat /\ Day > 0 /\ Week > 0
    /\ Order \in Seq(TimePeriods)
    /\ {Includes, Excludes} \subseteq [TimePeriods -> Seq(TimePeriods)]
    /\ DOMAIN Ranges = TimePeriods
    /\ \A p \in TimePeriods : \A r \in Ranges[p] :
          /\ r \in [0..(Week - 1) -> Seq([begin: 0..Day, end: 0..Day])]
          /\ \A d \in 0..(Week - 1) : \A k \in DOMAIN r[d] : r[d][k].begin <= r[d][k].end

VARIABLES
    clock,
    ticked,         \* the timer has yet to fire in this unit of time
    running,        \* the time periods that are active
    period,         \* [TimePeriods -> a time period]
    ranges,         \* [TimePeriods -> [0..Week-1 -> sequences of segments]]
    preferIncludes, \* prefer_includes of all
    restarts

timePeriodVars == <<clock, ticked, running, period, ranges, preferIncludes, restarts>>

Unset == -1
Segment(b, e) == [begin |-> b, end |-> e]

\* History: uncut, times that an exclude did not take away from a segment it shares an
\* end with; merged, until when each included and excluded period was known last time.
NewPeriod == [validBegin |-> Unset, validEnd |-> Unset, segments |-> <<>>,
              uncut |-> {}, merged |-> {}]

TimePeriodInit ==
    /\ clock = 0 /\ ticked = FALSE
    /\ running = {}
    /\ period = [p \in TimePeriods |-> NewPeriod]
    /\ ranges \in {r \in [TimePeriods -> UNION {Ranges[p] : p \in TimePeriods}] :
                      \A p \in TimePeriods : r[p] \in Ranges[p]}
    /\ preferIncludes \in BOOLEAN
    /\ restarts = 0

-----------------------------------------------------------------------------
(* Segments                                                                  *)

Lower(a, b) == IF a < b THEN a ELSE b
Upper(a, b) == IF a < b THEN b ELSE a

\* The first lines of AddSegment and RemoveSegment
Extend(tp, s) ==
    [tp EXCEPT !.validBegin = IF @ = Unset THEN s.begin ELSE Lower(@, s.begin),
               !.validEnd = Upper(@, s.end)]

\* The new segment is merged into the first one it overlaps or touches.
AddSegment(tp, s) ==
    LET segs == tp.segments
        Touches(k) == segs[k].begin <= s.end /\ s.begin <= segs[k].end
        first == CHOOSE k \in DOMAIN segs :
                    Touches(k) /\ \A l \in 1..(k - 1) : ~Touches(l)
        joint == Segment(Lower(segs[first].begin, s.begin), Upper(segs[first].end, s.end))
    IN [Extend(tp, s) EXCEPT !.segments =
           IF \E k \in DOMAIN segs : Touches(k) THEN [segs EXCEPT ![first] = joint]
           ELSE Append(segs, s)]

\* Mutation of Rest: what is behind the gap is forgotten.
RestBefore(s, r) ==
    IF s.begin >= r.begin /\ s.end <= r.end THEN <<>>
    ELSE IF s.begin < r.begin /\ s.end > r.end THEN <<Segment(s.begin, r.begin)>>
    ELSE <<s>>

\* What RemoveSegment leaves of a segment s. One that shares an end with r stays whole.
Rest(s, r) ==
    IF s.begin >= r.begin /\ s.end <= r.end THEN <<>>
    ELSE IF s.begin < r.begin /\ s.end > r.end
    THEN <<Segment(s.begin, r.begin), Segment(r.end, s.end)>>
    ELSE <<Segment(IF s.begin > r.begin /\ s.begin < r.end THEN r.end ELSE s.begin,
                   IF s.end > r.begin /\ s.end < r.end THEN r.begin ELSE s.end)>>

\* What a loop that adds these to an array leaves in it
Concat(arrays) ==
    LET array[k \in 0..Len(arrays)] == IF k = 0 THEN <<>> ELSE array[k - 1] \o arrays[k]
    IN array[Len(arrays)]

RemoveSegment(tp, r) ==
    LET SharesEnd(s) == \/ s.begin = r.begin /\ s.end > r.end
                        \/ s.end = r.end /\ s.begin < r.begin
    IN [Extend(tp, r) EXCEPT
           !.segments = Concat([k \in DOMAIN tp.segments |-> Rest(tp.segments[k], r)]),
           !.uncut = IF \E k \in DOMAIN tp.segments : SharesEnd(tp.segments[k])
                     THEN tp.uncut \cup (r.begin..(r.end - 1)) ELSE tp.uncut]

PurgeSegments(tp, end) ==
    IF tp.validBegin = Unset \/ end < tp.validBegin THEN tp
    ELSE [tp EXCEPT !.validBegin = end,
                    !.segments = Concat([k \in DOMAIN tp.segments |->
                        IF tp.segments[k].end >= end THEN <<tp.segments[k]>> ELSE <<>>]),
                    !.uncut = {ts \in tp.uncut : ts >= end}]

-----------------------------------------------------------------------------
(* UpdateRegion; tps is what all time periods are at the time                 *)

\* LegacyTimePeriod::ScriptFunc: the segments of all days that the region touches
ScriptFunc(p, begin, end) ==
    LET first == begin \div Day
        SegmentsOf(d) == [k \in DOMAIN ranges[p][d % Week] |->
                             Segment(d * Day + ranges[p][d % Week][k].begin,
                                     d * Day + ranges[p][d % Week][k].end)]
    IN Concat([k \in 1..((end \div Day) - first + 1) |-> SegmentsOf(first + k - 1)])

\* Segments are added or removed one after the other.
Merge(tp, segments, include) ==
    LET merged[k \in 0..Len(segments)] ==
            IF k = 0 THEN tp
            ELSE IF include THEN AddSegment(merged[k - 1], segments[k])
                 ELSE RemoveSegment(merged[k - 1], segments[k])
    IN merged[Len(segments)]

\* All segments of the other time periods, whatever region they are in
MergeAll(tp, tps, names, include) ==
    Merge([tp EXCEPT !.merged = @ \cup {tps[names[k]].validEnd : k \in DOMAIN names}],
          Concat([k \in DOMAIN names |-> tps[names[k]].segments]), include)

\* The preferred ones come last.
Merged(tp, tps, p) ==
    LET fresh == [tp EXCEPT !.merged = {}] IN
    IF preferIncludes
    THEN MergeAll(MergeAll(fresh, tps, Excludes[p], FALSE), tps, Includes[p], TRUE)
    ELSE MergeAll(MergeAll(fresh, tps, Includes[p], TRUE), tps, Excludes[p], FALSE)

UpdateRegion(tps, p, begin, end) ==
    Merged(Merge(RemoveSegment(tps[p], Segment(begin, end)), ScriptFunc(p, begin, end), TRUE),
           tps, p)

-----------------------------------------------------------------------------
\* TimePeriod::Start: the segments are cleared, the valid region is not.
StartPeriod(p) ==
    /\ p \notin running
    /\ running' = running \cup {p}
    /\ period' = [period EXCEPT ![p] =
          UpdateRegion([period EXCEPT ![p].segments = <<>>, ![p].uncut = {}], p,
                       clock, clock + Day)]
    /\ UNCHANGED <<clock, ticked, ranges, preferIncludes, restarts>>

\* What the timer does to one period, which does not update what is valid already
Updated(tps, p) ==
    LET tp == PurgeSegments(tps[p], clock - Hour)
    IN IF clock + Day < tp.validEnd THEN tp
       ELSE UpdateRegion([tps EXCEPT ![p] = tp], p, tp.validEnd, clock + Day)

UpdateTimerHandler ==
    /\ ticked /\ running = TimePeriods
    /\ LET tps[k \in 0..Len(Order)] ==
               IF k = 0 THEN period
               ELSE [tps[k - 1] EXCEPT ![Order[k]] = Updated(tps[k - 1], Order[k])]
       IN period' = tps[Len(Order)]
    /\ ticked' = FALSE
    /\ UNCHANGED <<clock, running, ranges, preferIncludes, restarts>>

\* The daemon ends; valid_begin, valid_end and segments are saved with the state.
StopAll ==
    /\ running = TimePeriods
    /\ restarts < MaxRestarts
    /\ running' = {}
    /\ restarts' = restarts + 1
    /\ UNCHANGED <<clock, ticked, period, ranges, preferIncludes>>

\* Time passes between the starts of the daemon, and between calls of the timer.
PassTime ==
    /\ clock < MaxClock
    /\ running = {} \/ (running = TimePeriods /\ ~ticked)
    /\ clock' = clock + 1
    /\ ticked' = TRUE
    /\ UNCHANGED <<running, period, ranges, preferIncludes, restarts>>

TimePeriodNext == \/ \E p \in TimePeriods : StartPeriod(p)
                  \/ UpdateTimerHandler \/ StopAll \/ PassTime

TimePeriodSpec == TimePeriodInit /\ [][TimePeriodNext]_timePeriodVars

-----------------------------------------------------------------------------
IsInside(tp, ts) ==
    \/ tp.validBegin = Unset \/ ts < tp.validBegin \/ ts > tp.validEnd
    \/ \E k \in DOMAIN tp.segments : tp.segments[k].begin <= ts /\ ts < tp.segments[k].end

\* What the configuration says: the own ranges, and included and excluded ones.
InOwn(p, ts) ==
    LET rs == ranges[p][(ts \div Day) % Week] IN
    \E k \in DOMAIN rs : rs[k].begin <= ts % Day /\ ts % Day < rs[k].end

InAny(names, ts) == \E k \in DOMAIN names : InOwn(names[k], ts)

Intended(p, ts) ==
    IF preferIncludes
    THEN (InOwn(p, ts) /\ ~InAny(Excludes[p], ts)) \/ InAny(Includes[p], ts)
    ELSE (InOwn(p, ts) \/ InAny(Includes[p], ts)) /\ ~InAny(Excludes[p], ts)

\* Included and excluded periods have no includes and excludes of their own; for such ones
\* Intended is what is meant.
Flat ==
    \A p \in TimePeriods : \A others \in {Includes[p], Excludes[p]} : \A k \in DOMAIN others :
        Includes[others[k]] = <<>> /\ Excludes[others[k]] = <<>>

\* However often segments were added, cut, purged and merged, restarts in between: now
\* is inside a time period if and only if the configuration says so. Excused: times
\* that share an end with what they are excluded from, and what included and excluded
\* periods did not know yet when they were merged.
InsideRight ==
    \A p \in running :
        \/ ticked
        \/ clock \in period[p].uncut
        \/ \E end \in period[p].merged : clock >= end
        \/ IsInside(period[p], clock) <=> Intended(p, clock)
=============================================================================

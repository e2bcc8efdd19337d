----------------------------- MODULE Notification -----------------------------
(* One notification object of one service, on the node that has authority over *)
(* both: Checkable::SendNotifications (lib/icinga/checkable-notification.cpp),  *)
(* Notification::BeginExecuteNotification (lib/icinga/notification.cpp) and the *)
(* timer of NotificationComponent (lib/notification/notificationcomponent.cpp). *)
(*                                                                              *)
(* The timer handler holds the ObjectLock of the checkable for the whole round, *)
(* ProcessCheckResult holds it when it requests a notification: both are single *)
(* steps.  The service is what module Checkable promises: a hard state that is  *)
(* reported at once, or later if something holds notifications back.            *)
EXTENDS Naturals, Sequences

CONSTANTS
    Users,            \* the users of the notification object
    States,           \* the service states that occur, including "OK"
    TypeFilter,       \* Notification: types
    StateFilter,      \* Notification: states
    UserTypes,        \* [Users -> types], User: types
    UserStates,       \* [Users -> states], User: states
    PeriodUsers,      \* the users with a time period of their own
    Period,           \* Notification: period is set
    TimesBegin,       \* Notification: times.begin is set
    TimesEnd,         \* Notification: times.end is set
    Interval,         \* Notification: interval > 0
    Holds,            \* what may hold the service's notifications back
    EnableFlapping,   \* Checkable: enable_flapping
    MaxStash          \* bound: length of stashed_notifications

Types == {"Problem", "Recovery", "FlappingStart", "FlappingEnd"}

ASSUME NotificationAssumption ==
    /\ "OK" \in States
    /\ TypeFilter \subseteq Types
    /\ StateFilter \subseteq States
    /\ UserTypes \in [Users -> SUBSET Types]
    /\ UserStates \in [Users -> SUBSET States]
    /\ PeriodUsers \subseteq Users
    /\ {Period, TimesBegin, TimesEnd, Interval, EnableFlapping} \subseteq BOOLEAN
    /\ Holds \subseteq {"acknowledged", "downtime", "unreachable"}
    /\ MaxStash \in Nat

\* The pairs of types that are never withheld together
Conflicts == {{"Problem", "Recovery"}, {"FlappingStart", "FlappingEnd"}}

VARIABLES
    state,           \* the hard state of the service
    reported,        \* the state of its last notification request
    flapping, flappingReported,
    held,            \* "no", or why its notifications are held back
    processing,      \* ProcessCheckResult holds the lock and is about to request
    updatedAuthority,\* ApiListener::UpdatedObjectAuthority()
    inPeriod,        \* period: IsInside(now)
    away,            \* the users outside their time period
    phase,           \* now against the window times: "before", "within", "after"
    stash,           \* stashed_notifications
    n                \* the rest of the notification object, see NotificationRecord

svcVars == <<state, reported, flapping, flappingReported, held, processing>>
clockVars == <<inPeriod, away, phase>>
vars == <<state, reported, flapping, flappingReported, held, processing,
          updatedAuthority, inPeriod, away, phase, stash, n>>

\* suppressed_notifications, no_more_notifications, next_notification reached,
\* notified_problem_users, last_notified_state_per_user ("OK" is also what the
\* code reads for a user that has no entry); and as history: the state each user
\* was last told, what was sent in this step, whether times.begin delayed a
\* problem, and why a notification may be lost:
\* two neutralized each other (other than an unsent first problem and its
\* recovery), a stashed problem was executed when the service was in another
\* state, or a withheld one was fired before the service reported a later change.
NotificationRecord ==
    [suppressed: SUBSET Types, noMore: BOOLEAN, due: BOOLEAN,
     notified: SUBSET Users, lastState: [Users -> States],
     told: [Users -> States], sent: SUBSET (Users \X Types \X BOOLEAN),
     delayed: BOOLEAN,
     lost: SUBSET {"neutralized", "stale", "early"}]

TypeOK ==
    /\ state \in States /\ reported \in States
    /\ flapping \in BOOLEAN /\ flappingReported \in BOOLEAN
    /\ held \in Holds \cup {"no"}
    /\ processing \in {"nothing", "state", "flapping"}
    /\ updatedAuthority \in BOOLEAN
    /\ inPeriod \in BOOLEAN
    /\ away \subseteq PeriodUsers
    /\ phase \in {"before", "within", "after"}
    /\ stash \in Seq([type: Types, cr: States]) /\ Len(stash) <= MaxStash
    /\ n \in NotificationRecord
    /\ \A c \in Conflicts : ~(c \subseteq n.suppressed)

FirstPhase == IF TimesBegin THEN "before" ELSE "within"

Init ==
    /\ state = "OK" /\ reported = "OK"
    /\ flapping = FALSE /\ flappingReported = FALSE
    /\ held = "no"
    /\ processing = "nothing"
    /\ updatedAuthority = FALSE
    /\ inPeriod = TRUE
    /\ away = {}
    /\ phase = FirstPhase
    /\ stash = <<>>
    /\ n = [suppressed |-> {}, noMore |-> FALSE, due |-> TRUE, notified |-> {},
            lastState |-> [u \in Users |-> "OK"], told |-> [u \in Users |-> "OK"],
            sent |-> {}, delayed |-> FALSE, lost |-> {}]

-----------------------------------------------------------------------------
(* BeginExecuteNotification, as a function of the notification object          *)

\* IsRecoveryOrFlappingEndAndCheckableIsOK
Ends(type, cr) == type = "Recovery" \/ (type = "FlappingEnd" /\ cr = "OK")

\* Problem and recovery, flapping start and end neutralize each other.
Neutralize(types) == types \ UNION {c \in Conflicts : c \subseteq types}

\* A notification outside the period is kept for later, a reminder is not.
Suppress(r, type, reminder) ==
    IF reminder THEN r
    ELSE [r EXCEPT !.suppressed = Neutralize(@ \cup {type}),
                   !.lost = IF /\ type \notin Neutralize(r.suppressed \cup {type})
                               /\ type # "Recovery" \/ r.notified # {}
                            THEN @ \cup {"neutralized"} ELSE @]

\* Mutation of UserAccepts: the state filter also applies to recoveries.
UserAcceptsFilters(u, type) ==
    u \notin away /\ type \in UserTypes[u] /\ state \in UserStates[u]

\* CheckNotificationUserFilters
UserAccepts(u, type) ==
    /\ u \notin away
    /\ type \in UserTypes[u]
    /\ type # "Recovery" => state \in UserStates[u]

\* Mutation of Recipients: any user gets the recovery.
RecipientsUnchecked(r, type, reminder) == {u \in Users : UserAccepts(u, type)}

\* Users that were not told of the problem do not get its recovery; users that
\* were told of this very state do not get it again, unless it is a reminder.
Recipients(r, type, reminder) ==
    {u \in Users :
        /\ UserAccepts(u, type)
        /\ type = "Recovery" =>
             u \in r.notified \/ "Problem" \notin UserTypes[u] \cap TypeFilter
        /\ type = "Problem" /\ ~reminder => state # r.lastState[u]}

\* The filters are passed: update the object and notify the users.
Execute(r, type, cr, reminder) ==
    LET to == Recipients(r, type, reminder) IN
    [r EXCEPT
        !.noMore = IF type = "Problem" /\ ~Interval THEN TRUE
                   ELSE IF Ends(type, cr) THEN FALSE ELSE @,
        !.due = IF type = "Problem" /\ Interval THEN FALSE ELSE @,
        !.lastState = [u \in Users |->
            IF type = "Problem" /\ u \in to THEN state ELSE @[u]],
        !.notified = IF Ends(type, cr) THEN {}
                     ELSE IF type = "Problem" THEN @ \cup to ELSE @,
        !.told = [u \in Users |->
            IF u \notin to THEN @[u]
            ELSE IF type = "Problem" THEN state
            ELSE IF Ends(type, cr) THEN "OK" ELSE @[u]],
        !.sent = @ \cup {<<u, type, reminder>> : u \in to},
        !.delayed = FALSE]

\* Mutation of ForgetStates: the states are kept.
ForgetStatesNever(r, type, cr) == r

\* The end of a problem forgets which states the users were told.
ForgetStates(r, type, cr) ==
    IF Ends(type, cr) THEN [r EXCEPT !.lastState = [u \in Users |-> "OK"]] ELSE r

\* The early returns of BeginExecuteNotification in their order.
BeginExecuteNotification(r0, type, cr, reminder) ==
    LET r == ForgetStates(r0, type, cr) IN
    CASE ~inPeriod -> Suppress(r, type, reminder)
      [] inPeriod /\ type = "Problem" /\ phase = "before" ->
            [r EXCEPT !.due = FALSE, !.noMore = FALSE, !.delayed = TRUE]
      [] inPeriod /\ type = "Problem" /\ phase = "after" -> r
      [] inPeriod /\ ~(type = "Problem" /\ phase # "within") /\ type \notin TypeFilter ->
            IF ~Interval /\ Ends(type, cr) THEN [r EXCEPT !.noMore = FALSE] ELSE r
      [] inPeriod /\ type = "Problem" /\ phase = "within" /\ type \in TypeFilter
            /\ state \notin StateFilter -> r
      [] OTHER -> Execute(r, type, cr, reminder)

-----------------------------------------------------------------------------
(* Checkable::SendNotifications                                                *)

Fresh == [n EXCEPT !.sent = {}]

\* Stashed before the authority is known, and behind others that are stashed.
SendNotifications(type, cr) ==
    IF ~updatedAuthority \/ stash # <<>>
    THEN /\ stash' = Append(stash, [type |-> type, cr |-> cr])
         /\ n' = Fresh
    ELSE stash' = stash /\ n' = BeginExecuteNotification(Fresh, type, cr, FALSE)

StateNotification(s) == IF s = "OK" THEN "Recovery" ELSE "Problem"
FlappingNotification(b) == IF b THEN "FlappingStart" ELSE "FlappingEnd"

-----------------------------------------------------------------------------
(* The service, as module Checkable describes it: a change is requested at     *)
(* once, under the ObjectLock, or when nothing holds it back any more.         *)

\* A hard state change.  Changes while flapping are never reported, and one that
\* finds an earlier one waiting waits as well.
ChangeState(s) ==
    /\ processing = "nothing"
    /\ Len(stash) < MaxStash
    /\ s # state
    /\ state' = s
    /\ reported' = IF flapping THEN s ELSE reported
    /\ processing' = IF held = "no" /\ reported = state /\ ~flapping THEN "state" ELSE processing
    /\ phase' = FirstPhase
    /\ n' = Fresh
    /\ UNCHANGED <<flapping, flappingReported, held, updatedAuthority, inPeriod, away, stash>>

ChangeFlapping ==
    /\ EnableFlapping
    /\ processing = "nothing"
    /\ Len(stash) < MaxStash
    /\ flapping' = ~flapping
    /\ processing' = IF held # "downtime" THEN "flapping" ELSE processing
    /\ n' = Fresh
    /\ UNCHANGED <<state, reported, flappingReported, held, updatedAuthority, clockVars, stash>>

\* The bound on the stash leaves room for what ProcessCheckResult will request.
Room == Len(stash) + (IF processing = "nothing" THEN 0 ELSE 1) < MaxStash

\* OnNotificationsRequested, by ProcessCheckResult or later by the
\* FireSuppressedNotifications of the service, which does not take the lock
RequestState ==
    /\ reported # state
    /\ processing = "state" \/ (held = "no" /\ Room)
    /\ reported' = state
    /\ processing' = IF processing = "state" THEN "nothing" ELSE processing
    /\ SendNotifications(StateNotification(state), state)
    /\ UNCHANGED <<state, flapping, flappingReported, held, updatedAuthority, clockVars>>

RequestFlapping ==
    /\ flappingReported # flapping
    /\ processing = "flapping" \/ (held # "downtime" /\ Room)
    /\ flappingReported' = flapping
    /\ processing' = IF processing = "flapping" THEN "nothing" ELSE processing
    /\ SendNotifications(FlappingNotification(flapping), state)
    /\ UNCHANGED <<state, reported, flapping, held, updatedAuthority, clockVars>>

\* A downtime, an acknowledgement or a failed dependency comes or goes.
Hold(h) ==
    /\ h # held
    /\ held' = h
    /\ n' = Fresh
    /\ UNCHANGED <<state, reported, flapping, flappingReported, processing, updatedAuthority,
                   clockVars, stash>>

-----------------------------------------------------------------------------
(* NotificationComponent::NotificationTimerHandler                             *)

\* The stashed notifications are executed one after the other, with the state of now.
Unstash(r) ==
    LET stale == \E i \in DOMAIN stash : stash[i].type = "Problem" /\ stash[i].cr # state
        done[i \in 0..Len(stash)] ==
            IF i = 0 THEN [r EXCEPT !.lost = IF stale THEN @ \cup {"stale"} ELSE @]
            ELSE BeginExecuteNotification(done[i - 1], stash[i].type, stash[i].cr, FALSE)
    IN done[Len(stash)]

\* NotificationReasonSuppressed and NotificationReasonApplies of the service
ReasonSuppressed(type) ==
    held = "downtime" \/ (type \in {"Problem", "Recovery"} /\ held # "no")
ReasonApplies(type) ==
    CASE type = "Problem" -> state # "OK"
      [] type = "Recovery" -> state = "OK"
      [] type = "FlappingStart" -> flapping
      [] type = "FlappingEnd" -> ~flapping

\* One type of FireSuppressedNotifications
FireType(r, type) ==
    IF ReasonSuppressed(type) THEN r
    ELSE LET q == [r EXCEPT !.suppressed = @ \ {type},
                            !.lost = IF reported # state THEN @ \cup {"early"} ELSE @]
         IN IF ReasonApplies(type) THEN BeginExecuteNotification(q, type, state, FALSE) ELSE q

FireSuppressedNotifications(r, soon) ==
    LET fire(acc, type) == IF type \in r.suppressed THEN FireType(acc, type) ELSE acc
    IN IF ~inPeriod \/ soon THEN r
       ELSE fire(fire(fire(fire(r, "Problem"), "Recovery"), "FlappingStart"), "FlappingEnd")

\* Mutation of Remind: only users that know of the problem count.
RemindNotified(r) ==
    IF (~Interval /\ r.noMore) \/ ~r.due THEN r
    ELSE LET q == [r EXCEPT !.due = ~Interval] IN
         IF \/ state = "OK" \/ r.notified = {}
            \/ reported # state \/ "Problem" \in r.suppressed
            \/ held # "no" \/ flapping
         THEN q
         ELSE BeginExecuteNotification(q, "Problem", state, TRUE)

\* The reminder, unless the problem waits to be reported in the first place.
Remind(r) ==
    IF (~Interval /\ r.noMore) \/ ~r.due THEN r
    ELSE LET q == [r EXCEPT !.due = ~Interval] IN
         IF \/ state = "OK"
            \/ reported # state \/ "Problem" \in r.suppressed
            \/ held # "no" \/ flapping
         THEN q
         ELSE BeginExecuteNotification(q, "Problem", state, TRUE)

\* A round of the timer; soon is Checkable::IsLikelyToBeCheckedSoon().  Before the
\* authority is updated the object is paused and is skipped.
NotificationTimerHandler(soon) ==
    /\ updatedAuthority
    /\ processing = "nothing"
    /\ n' = IF held = "unreachable" THEN Remind(Fresh)
            ELSE Remind(FireSuppressedNotifications(Unstash(Fresh), soon))
    /\ stash' = IF held = "unreachable" THEN stash ELSE <<>>
    /\ UNCHANGED <<svcVars, updatedAuthority, clockVars>>

-----------------------------------------------------------------------------
(* Time and the cluster                                                        *)

UpdateObjectAuthority ==
    /\ ~updatedAuthority
    /\ updatedAuthority' = TRUE
    /\ n' = Fresh
    /\ UNCHANGED <<svcVars, clockVars, stash>>

SetPeriod ==
    /\ Period
    /\ inPeriod' = ~inPeriod
    /\ n' = Fresh
    /\ UNCHANGED <<svcVars, updatedAuthority, away, phase, stash>>

SetUserPeriod(u) ==
    /\ away' = IF u \in away THEN away \ {u} ELSE away \cup {u}
    /\ n' = Fresh
    /\ UNCHANGED <<svcVars, updatedAuthority, inPeriod, phase, stash>>

\* next_notification is reached
NextNotificationReached ==
    /\ ~n.due
    /\ n' = [Fresh EXCEPT !.due = TRUE]
    /\ UNCHANGED <<svcVars, updatedAuthority, clockVars, stash>>

\* last_hard_state_change + times.begin or times.end is reached
TimesReached ==
    /\ \/ phase = "before" /\ phase' = "within"
       \/ phase = "within" /\ TimesEnd /\ phase' = "after"
    /\ n' = Fresh
    /\ UNCHANGED <<svcVars, updatedAuthority, inPeriod, away, stash>>

Next ==
    \/ \E s \in States : ChangeState(s)
    \/ ChangeFlapping
    \/ RequestState
    \/ RequestFlapping
    \/ \E h \in Holds \cup {"no"} : Hold(h)
    \/ \E soon \in BOOLEAN : NotificationTimerHandler(soon)
    \/ UpdateObjectAuthority
    \/ SetPeriod
    \/ \E u \in PeriodUsers : SetUserPeriod(u)
    \/ NextNotificationReached
    \/ TimesReached

Spec == Init /\ [][Next]_vars

\* Timers fire, requests arrive, the authority is decided, time goes on.
Fairness ==
    /\ WF_vars(NotificationTimerHandler(FALSE))
    /\ WF_vars(RequestState)
    /\ WF_vars(RequestFlapping)
    /\ WF_vars(UpdateObjectAuthority)
    /\ WF_vars(NextNotificationReached)
    /\ WF_vars(phase = "before" /\ TimesReached)

LiveSpec == Spec /\ Fairness

-----------------------------------------------------------------------------
(* Properties                                                                *)

\* Users whose own configuration filters nothing
PlainUsers ==
    {u \in Users \ PeriodUsers : UserTypes[u] = Types /\ UserStates[u] = States}

\* Nothing is on its way any more.
Done ==
    /\ reported = state /\ ~flapping /\ ~flappingReported
    /\ stash = <<>> /\ n.suppressed = {} /\ ~n.delayed

\* However notifications are stashed, withheld outside the period and fired
\* again: once nothing is on its way, every user that filters nothing was told
\* the current state.
UsersKnow ==
    Done /\ n.lost = {} /\ phase = "within" => \A u \in PlainUsers : n.told[u] = state

\* Nobody who was told of a problem is left with it after the recovery, also
\* with filters on states.
RecoveryFollows ==
    Done /\ n.lost = {} /\ state = "OK" /\ "Recovery" \in TypeFilter =>
        \A u \in Users \ PeriodUsers :
            Types \subseteq UserTypes[u] => n.told[u] = "OK"

\* The step tells nobody of the same problem state twice in a row except by a reminder.
TellsNews ==
    \A u \in PlainUsers :
        <<u, "Problem", FALSE>> \in n'.sent /\ <<u, "Problem", TRUE>> \notin n'.sent
            => n'.told[u] # n.told[u] \/ n'.told[u] = "OK"

\* The service stays in state s and nothing is in the way of notifications.
Stable(s) ==
    [](state = s /\ held = "no" /\ inPeriod /\ ~flapping /\ phase # "after")

\* A state that lasts is told to every user in the end, also one that began
\* before times.begin or was requested during the cold startup.
EventuallyKnow ==
    \A s \in States : <>Stable(s) =>
        <>[](n.lost = {} => \A u \in PlainUsers : n.told[u] = s)

\* The same although notifications neutralize each other outside the period.
\* ProcessCheckResult, of the types it withholds: "problem and recovery don't
\* always cancel each other. For example, WARNING -> OK -> CRITICAL generates both
\* types once, but there should still be a notification."
NeutralizedKnow ==
    \A s \in States : <>Stable(s) =>
        <>[](n.lost \subseteq {"neutralized"} => \A u \in PlainUsers : n.told[u] = s)
=============================================================================

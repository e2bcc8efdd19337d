--------------------------- MODULE DowntimeProofs ---------------------------
(***************************************************************************)
(* What downtimes promise, for any number of downtimes, checkables, windows, *)
(* requests and threads that trigger them at the same time: an end is only    *)
(* announced after the start (EndFollowsStart), the cleanup timer comes       *)
(* (CleanupComes), and a downtime takes along those that it triggers          *)
(* (ChildrenFollow).                                                          *)
(*                                                                            *)
(* The threads are stacks of calls. The proofs use them as sets of frames,    *)
(* together with the frame at the top.                                        *)
(***************************************************************************)
EXTENDS Downtime, SequenceTheorems, TLAPS

Life(d) == downtimes[d].life
Window(d) == downtimes[d].window
TriggeredAt(d) == downtimes[d].trigger

\* The calls on a stack, and those of all threads
FramesOf(stack) == {stack[i] : i \in DOMAIN stack}
Frames == UNION {FramesOf(calls[t]) : t \in Threads}

\* Times are not in the future. What was or is about to be triggered is in its
\* window or past it, and a thread that triggers has a time to record.
TimesOK ==
    /\ \A t \in Threads : triggerTime[t] <= now /\ (calls[t] # <<>> => triggerTime[t] > 0)
    /\ \A d \in Names :
          /\ TriggeredAt(d) <= now
          /\ downtimes[d].earliest <= now \/ downtimes[d].earliest <= Window(d).start
          /\ Life(d) # "none" => downtimes[d].earliest > 0
          /\ TriggeredAt(d) # 0 => now >= Window(d).start
    /\ \A f \in Frames : f.name # NoName => now >= Window(f.name).start

\* The request calls TriggerDowntime only from Start, of an object that exists.
RequestOK ==
    /\ request.pc # "started" => calls["request"] = <<>>
    /\ request.pc \in {"trigger", "started"} =>
          request.name \in Names /\ Life(request.name) = "starting"
    /\ request.pc # "idle" => /\ request.first \in Names /\ Life(request.first) # "none"
                              /\ request.trigger \in {NoName, request.first}

\* Nothing is said of, called on or linked to a name that is not used yet; what is
\* linked has been started, and what is being started has no authority yet.
NamesOK ==
    /\ \A d \in Names : /\ Life(d) = "none" => announced[d] = {} /\ triggers[d] = {}
                        /\ Life(d) = "starting" => downtimes[d].paused
    /\ \A f \in Frames : /\ f.name # NoName => Life(f.name) # "none"
                         /\ f.name = NoName => f.pc = "each" /\ \A d \in f.todo : Life(d) # "none"
    /\ \A p \in Names : \A d \in triggers[p] : Life(d) \in {"started", "removed"}

\* A downtime that was triggered or whose end was announced: the start of a fixed one
\* was announced before, that of a flexible one at the latest when the call returns.
Heard ==
    \A d \in Names : TriggeredAt(d) # 0 \/ "end" \in announced[d] =>
        \/ "start" \in announced[d]
        \/ Window(d).fixed /\ d \in unannounced
        \/ ~Window(d).fixed /\ \E f \in Frames : f.name = d

\* A thread is about to set the cleanup timer.
AtSetup(d) == \E t \in Threads : AtTop(t, "setup") /\ Top(t).name = d

\* The callback of the cleanup timer finds the downtime expired, or somebody is about
\* to find that the timer cannot be set.
CallbackInTime ==
    \A d \in Names : Life(d) = "started" /\ ~downtimes[d].paused /\ cleanup[d] = Running =>
        IsExpired(d) \/ AtSetup(d) \/ d \in overrun

\* The call is going to trigger d, as one that p triggers.
Reaches(f, p, d) == \/ f.name = p /\ f.pc = "setup"
                    \/ f.name = p /\ f.pc = "each" /\ d \in f.todo
                    \/ f.name = d /\ f.pc = "set"

\* What a triggered flexible downtime triggers was triggered too, has missed its window
\* or is about to be triggered.
TakenAlong ==
    \A p \in Names : \A d \in triggers[p] :
        /\ ~Window(p).fixed /\ TriggeredAt(p) # 0
        /\ Window(d) = Window(p) /\ d \notin late
        => \/ Life(d) = "removed"
           \/ TriggeredAt(d) # 0
           \/ Window(d).end < now
           \/ \E f \in Frames : Reaches(f, p, d)

IInv == /\ DowntimeTypeOK /\ TimesOK /\ RequestOK /\ NamesOK
        /\ Heard /\ CleanupComes /\ CallbackInTime /\ TakenAlong

-----------------------------------------------------------------------------
(* Stacks and their frames                                                   *)

\* The frames of a stack that grows at its end, and those below the top.
LEMMA StackFrames ==
    ASSUME NEW S, NEW s \in Seq(S)
    PROVE  /\ FramesOf(s) \subseteq S
           /\ FramesOf(<<>>) = {}
           /\ \A x \in S : /\ Append(s, x) \in Seq(S) /\ Append(s, x) # <<>>
                           /\ FramesOf(Append(s, x)) = FramesOf(s) \cup {x}
                           /\ Append(s, x)[Len(Append(s, x))] = x
           /\ s # <<>> => /\ SubSeq(s, 1, Len(s) - 1) \in Seq(S)
                          /\ s[Len(s)] \in S
                          /\ FramesOf(s) = FramesOf(SubSeq(s, 1, Len(s) - 1)) \cup {s[Len(s)]}
<1>1. FramesOf(s) \subseteq S /\ FramesOf(<<>>) = {}
  BY DEF FramesOf
<1>2. ASSUME NEW x \in S
      PROVE  /\ Append(s, x) \in Seq(S) /\ Append(s, x) # <<>>
             /\ FramesOf(Append(s, x)) = FramesOf(s) \cup {x}
             /\ Append(s, x)[Len(Append(s, x))] = x
  <2>1. /\ Append(s, x) \in Seq(S) /\ Len(Append(s, x)) = Len(s) + 1
        /\ \A i \in 1 .. Len(s) : Append(s, x)[i] = s[i]
        /\ Append(s, x)[Len(s) + 1] = x
    BY AppendProperties
  <2>2. Append(s, x) # <<>> /\ Append(s, x)[Len(Append(s, x))] = x
    BY <2>1
  <2>3. DOMAIN s = 1 .. Len(s) /\ DOMAIN Append(s, x) = 1 .. (Len(s) + 1) /\ Len(s) \in Nat
    BY <2>1
  <2>4. ASSUME NEW f \in FramesOf(Append(s, x)) PROVE f \in FramesOf(s) \cup {x}
    <3>1. PICK i \in 1 .. (Len(s) + 1) : f = Append(s, x)[i]
      BY <2>3, <2>4 DEF FramesOf
    <3> QED
      BY <2>1, <2>3, <3>1 DEF FramesOf
  <2>5. ASSUME NEW f \in FramesOf(s) PROVE f \in FramesOf(Append(s, x))
    <3>1. PICK i \in 1 .. Len(s) : f = s[i]
      BY <2>3, <2>5 DEF FramesOf
    <3>2. i \in 1 .. (Len(s) + 1) /\ f = Append(s, x)[i]
      BY <2>1, <2>3, <3>1
    <3> QED
      BY <2>3, <3>2 DEF FramesOf
  <2>6. x \in FramesOf(Append(s, x))
    BY <2>1, <2>3 DEF FramesOf
  <2> QED
    BY <2>1, <2>2, <2>4, <2>5, <2>6
<1>3. ASSUME s # <<>>
      PROVE  /\ SubSeq(s, 1, Len(s) - 1) \in Seq(S)
             /\ s[Len(s)] \in S
             /\ FramesOf(s) = FramesOf(SubSeq(s, 1, Len(s) - 1)) \cup {s[Len(s)]}
  <2>1. Len(s) \in Nat /\ Len(s) > 0 /\ DOMAIN s = 1 .. Len(s)
    BY <1>3, EmptySeq
  <2>2. PICK b : b = SubSeq(s, 1, Len(s) - 1)
    OBVIOUS
  <2>3. b \in Seq(S) /\ DOMAIN b = 1 .. (Len(s) - 1) /\ \A i \in 1 .. (Len(s) - 1) : b[i] = s[i]
    BY <2>1, <2>2
  <2>4. s[Len(s)] \in S
    BY <2>1
  <2>5. ASSUME NEW f \in FramesOf(s) PROVE f \in FramesOf(b) \cup {s[Len(s)]}
    BY <2>1, <2>3, <2>5 DEF FramesOf
  <2>6. ASSUME NEW f \in FramesOf(b) \cup {s[Len(s)]} PROVE f \in FramesOf(s)
    BY <2>1, <2>3, <2>6 DEF FramesOf
  <2> QED
    BY <2>2, <2>3, <2>4, <2>5, <2>6
<1> QED
  BY <1>1, <1>2, <1>3

\* One thread gets another stack: only its own frames go and come.
LEMMA NewStack ==
    ASSUME DowntimeTypeOK, NEW t \in Threads, NEW stack \in Seq(CallRecord),
           calls' = [calls EXCEPT ![t] = stack]
    PROVE  /\ calls' \in [Threads -> Seq(CallRecord)] /\ calls'[t] = stack
           /\ \A u \in Threads \ {t} : calls'[u] = calls[u]
           /\ FramesOf(stack) \subseteq Frames' /\ Frames' \subseteq Frames \cup FramesOf(stack)
           /\ Frames \subseteq Frames' \cup FramesOf(calls[t])
<1>1. /\ calls' \in [Threads -> Seq(CallRecord)] /\ calls'[t] = stack
      /\ \A u \in Threads \ {t} : calls'[u] = calls[u]
  BY DEF DowntimeTypeOK
<1>2. FramesOf(stack) \subseteq Frames'
  BY <1>1 DEF Frames, FramesOf
<1>3. Frames' \subseteq Frames \cup FramesOf(stack)
  BY <1>1 DEF Frames, FramesOf
<1>4. Frames \subseteq Frames' \cup FramesOf(calls[t])
  BY <1>1 DEF Frames, FramesOf
<1> QED
  BY <1>1, <1>2, <1>3, <1>4

\* The top of a stack, and what is below.
LEMMA TopFrame ==
    ASSUME DowntimeTypeOK, NEW t \in Threads, calls[t] # <<>>
    PROVE  /\ Top(t) \in CallRecord /\ Top(t) \in Frames /\ Below(t) \in Seq(CallRecord)
           /\ FramesOf(calls[t]) = FramesOf(Below(t)) \cup {Top(t)}
<1>1. calls[t] \in Seq(CallRecord)
  BY DEF DowntimeTypeOK
<1>2. PICK s : s = calls[t]
  OBVIOUS
<1>3. /\ SubSeq(s, 1, Len(s) - 1) \in Seq(CallRecord) /\ s[Len(s)] \in CallRecord
      /\ FramesOf(s) = FramesOf(SubSeq(s, 1, Len(s) - 1)) \cup {s[Len(s)]}
  BY <1>1, <1>2, StackFrames
<1>4. FramesOf(calls[t]) \subseteq Frames
  BY DEF Frames
<1> QED
  BY <1>2, <1>3, <1>4 DEF Top, Below

\* The frame at the top is replaced.
LEMMA SwapTop ==
    ASSUME DowntimeTypeOK, NEW t \in Threads, calls[t] # <<>>, NEW x \in CallRecord,
           calls' = [calls EXCEPT ![t] = Append(Below(t), x)]
    PROVE  /\ calls' \in [Threads -> Seq(CallRecord)] /\ calls'[t] # <<>> /\ Top(t)' = x
           /\ \A u \in Threads \ {t} : calls'[u] = calls[u]
           /\ x \in Frames' /\ Frames' \subseteq Frames \cup {x}
           /\ Frames \subseteq Frames' \cup {Top(t)}
<1>1. /\ Below(t) \in Seq(CallRecord)
      /\ FramesOf(calls[t]) = FramesOf(Below(t)) \cup {Top(t)} /\ FramesOf(calls[t]) \subseteq Frames
  BY TopFrame DEF Frames
<1>2. PICK b : b = Below(t)
  OBVIOUS
<1>3. PICK stack : stack = Append(b, x)
  OBVIOUS
<1>4. /\ stack \in Seq(CallRecord) /\ stack # <<>> /\ FramesOf(stack) = FramesOf(b) \cup {x}
      /\ stack[Len(stack)] = x
  BY <1>1, <1>2, <1>3, StackFrames
<1>5. calls' = [calls EXCEPT ![t] = stack]
  BY <1>2, <1>3
<1>6. /\ calls' \in [Threads -> Seq(CallRecord)] /\ calls'[t] = stack
      /\ \A u \in Threads \ {t} : calls'[u] = calls[u]
      /\ FramesOf(stack) \subseteq Frames' /\ Frames' \subseteq Frames \cup FramesOf(stack)
      /\ Frames \subseteq Frames' \cup FramesOf(calls[t])
  BY <1>4, <1>5, NewStack
<1>7. Top(t)' = x
  BY <1>4, <1>6 DEF Top
<1> QED
  BY <1>1, <1>2, <1>4, <1>6, <1>7

\* A call is added to the frame at the top, which is replaced.
LEMMA PushTop ==
    ASSUME DowntimeTypeOK, NEW t \in Threads, calls[t] # <<>>,
           NEW x \in CallRecord, NEW y \in CallRecord,
           calls' = [calls EXCEPT ![t] = Append(Append(Below(t), x), y)]
    PROVE  /\ calls' \in [Threads -> Seq(CallRecord)] /\ calls'[t] # <<>> /\ Top(t)' = y
           /\ \A u \in Threads \ {t} : calls'[u] = calls[u]
           /\ {x, y} \subseteq Frames' /\ Frames' \subseteq Frames \cup {x, y}
           /\ Frames \subseteq Frames' \cup {Top(t)}
<1>1. /\ Below(t) \in Seq(CallRecord)
      /\ FramesOf(calls[t]) = FramesOf(Below(t)) \cup {Top(t)} /\ FramesOf(calls[t]) \subseteq Frames
  BY TopFrame DEF Frames
<1>2. PICK b : b = Append(Below(t), x)
  OBVIOUS
<1>3. b \in Seq(CallRecord) /\ FramesOf(b) = FramesOf(Below(t)) \cup {x}
  <2>1. PICK c : c = Below(t)
    OBVIOUS
  <2> QED
    BY <1>1, <1>2, <2>1, StackFrames
<1>4. PICK stack : stack = Append(b, y)
  OBVIOUS
<1>5. /\ stack \in Seq(CallRecord) /\ stack # <<>> /\ FramesOf(stack) = FramesOf(b) \cup {y}
      /\ stack[Len(stack)] = y
  BY <1>3, <1>4, StackFrames
<1>6. calls' = [calls EXCEPT ![t] = stack]
  BY <1>2, <1>4
<1>7. /\ calls' \in [Threads -> Seq(CallRecord)] /\ calls'[t] = stack
      /\ \A u \in Threads \ {t} : calls'[u] = calls[u]
      /\ FramesOf(stack) \subseteq Frames' /\ Frames' \subseteq Frames \cup FramesOf(stack)
      /\ Frames \subseteq Frames' \cup FramesOf(calls[t])
  BY <1>5, <1>6, NewStack
<1>8. Top(t)' = y
  BY <1>5, <1>7 DEF Top
<1> QED
  BY <1>1, <1>3, <1>5, <1>7, <1>8

\* A call returns.
LEMMA PopTop ==
    ASSUME DowntimeTypeOK, NEW t \in Threads, calls[t] # <<>>,
           calls' = [calls EXCEPT ![t] = Below(t)]
    PROVE  /\ calls' \in [Threads -> Seq(CallRecord)] /\ calls'[t] = Below(t)
           /\ \A u \in Threads \ {t} : calls'[u] = calls[u]
           /\ Frames' \subseteq Frames /\ Frames \subseteq Frames' \cup {Top(t)}
<1>1. /\ Below(t) \in Seq(CallRecord)
      /\ FramesOf(calls[t]) = FramesOf(Below(t)) \cup {Top(t)} /\ FramesOf(calls[t]) \subseteq Frames
  BY TopFrame DEF Frames
<1>2. PICK b : b = Below(t)
  OBVIOUS
<1>3. /\ calls' \in [Threads -> Seq(CallRecord)] /\ calls'[t] = b
      /\ \A u \in Threads \ {t} : calls'[u] = calls[u]
      /\ FramesOf(b) \subseteq Frames' /\ Frames' \subseteq Frames \cup FramesOf(b)
      /\ Frames \subseteq Frames' \cup FramesOf(calls[t])
  BY <1>1, <1>2, NewStack
<1> QED
  BY <1>1, <1>2, <1>3

\* A thread that is not triggering makes its first call.
LEMMA FirstCall ==
    ASSUME DowntimeTypeOK, NEW t \in Threads, calls[t] = <<>>, NEW x \in CallRecord,
           calls' = [calls EXCEPT ![t] = <<x>>]
    PROVE  /\ calls' \in [Threads -> Seq(CallRecord)] /\ calls'[t] # <<>> /\ Top(t)' = x
           /\ \A u \in Threads \ {t} : calls'[u] = calls[u]
           /\ x \in Frames' /\ Frames' = Frames \cup {x}
<1>1. PICK stack : stack = <<x>>
  OBVIOUS
<1>2. /\ stack \in Seq(CallRecord) /\ stack # <<>> /\ FramesOf(stack) = {x} /\ stack[Len(stack)] = x
  BY <1>1 DEF FramesOf
<1>3. /\ calls' \in [Threads -> Seq(CallRecord)] /\ calls'[t] = stack
      /\ \A u \in Threads \ {t} : calls'[u] = calls[u]
      /\ FramesOf(stack) \subseteq Frames' /\ Frames' \subseteq Frames \cup FramesOf(stack)
      /\ Frames \subseteq Frames' \cup FramesOf(calls[t])
  BY <1>1, <1>2, NewStack
<1>4. FramesOf(calls[t]) = {}
  BY DEF FramesOf
<1>5. Top(t)' = x
  BY <1>2, <1>3 DEF Top
<1> QED
  BY <1>2, <1>3, <1>4, <1>5

-----------------------------------------------------------------------------
(* Facts that most steps need                                                *)

\* The values a downtime has
LEMMA Values ==
    ASSUME DowntimeTypeOK, NEW d \in Names
    PROVE  /\ Window(d) \in Windows /\ Window(d).fixed \in BOOLEAN
           /\ Window(d).start \in Nat /\ Window(d).start > 0
           /\ Window(d).end \in Nat /\ Window(d).end > 0 /\ Window(d).duration \in Nat
           /\ TriggeredAt(d) \in Nat /\ downtimes[d].earliest \in Nat /\ now \in Nat
<1>1. downtimes[d] \in DowntimeRecord
  BY DEF DowntimeTypeOK
<1>2. Window(d) \in Windows /\ TriggeredAt(d) \in Nat /\ downtimes[d].earliest \in Nat
  BY <1>1 DEF DowntimeRecord, Window, TriggeredAt
<1> QED
  BY <1>2, DowntimeAssumption DEF DowntimeTypeOK

\* The values of a call
LEMMA FrameTypes ==
    ASSUME DowntimeTypeOK, NEW f \in Frames
    PROVE  f \in CallRecord /\ f.name \in Names \cup {NoName} /\ \A e \in f.todo : e \in Names
<1>1. PICK t \in Threads : f \in FramesOf(calls[t])
  BY DEF Frames
<1>2. f \in CallRecord
  BY <1>1, StackFrames DEF DowntimeTypeOK
<1> QED
  BY <1>2 DEF CallRecord

\* A step that leaves the threads alone
LEMMA SameCalls ==
    ASSUME calls' = calls
    PROVE  Frames' = Frames /\ \A d : AtSetup(d)' = AtSetup(d)
<1>1. Frames' = Frames
  BY DEF Frames, FramesOf
<1>2. \A d : AtSetup(d)' = AtSetup(d)
  BY DEF AtSetup, AtTop, Top
<1> QED
  BY <1>1, <1>2

\* The cleanup timer is set to the time from which on the downtime has expired.
LEMMA ExpiredThen ==
    ASSUME DowntimeTypeOK, TimesOK, NEW d \in Names
    PROVE  /\ CleanupTime(d) \in Nat /\ CleanupTime(d) > 0
           /\ now > CleanupTime(d) => IsExpired(d)
<1>1. TriggeredAt(d) <= now
  BY DEF TimesOK
<1> QED
  BY <1>1, Values DEF CleanupTime, IsExpired, IsTriggered, IsInEffect, Window, TriggeredAt

\* A downtime is triggered only within its window, and if it is not, then because it
\* was triggered before, because its window has not begun or because it has passed.
LEMMA WhenTriggered ==
    ASSUME DowntimeTypeOK, TimesOK, NEW d \in Names
    PROVE  /\ CanBeTriggered(d) => now >= Window(d).start
           /\ ~CanBeTriggered(d) => \/ TriggeredAt(d) # 0
                                    \/ Window(d).end < now
                                    \/ now < Window(d).start
<1> QED
  BY Values DEF CanBeTriggered, IsExpired, IsTriggered, IsInEffect, Window, TriggeredAt

\* The initial state.
LEMMA Initially == ASSUME DowntimeInit PROVE IInv
<1>1. DowntimeTypeOK
  <2>1. (CHOOSE c \in Checkables : TRUE) \in Checkables /\ (CHOOSE w \in Windows : TRUE) \in Windows
    BY DowntimeAssumption
  <2>2. downtimes \in [Names -> DowntimeRecord]
    BY <2>1 DEF DowntimeInit, DowntimeRecord
  <2>3. calls \in [Threads -> Seq(CallRecord)]
    BY DEF DowntimeInit
  <2>4. request \in RequestRecord
    BY DEF DowntimeInit, Idle, RequestRecord
  <2> QED
    BY <2>2, <2>3, <2>4 DEF DowntimeInit, DowntimeTypeOK, NotRegistered
<1>2. Frames = {}
  BY DEF DowntimeInit, Frames, FramesOf
<1>3. TimesOK
  <2>1. \A d \in Names : /\ TriggeredAt(d) = 0 /\ Life(d) = "none" /\ downtimes[d].earliest = 0
    BY DEF DowntimeInit, TriggeredAt, Life
  <2>2. \A t \in Threads : triggerTime[t] = 0 /\ calls[t] = <<>>
    BY DEF DowntimeInit
  <2>3. now = 1
    BY DEF DowntimeInit
  <2> QED
    BY <1>2, <2>1, <2>2, <2>3 DEF TimesOK
<1>4. RequestOK
  BY DEF DowntimeInit, RequestOK, Idle, Threads
<1>5. NamesOK
  BY <1>2 DEF DowntimeInit, NamesOK, Life
<1>6. Heard
  BY DEF DowntimeInit, Heard, TriggeredAt
<1>7. CleanupComes /\ CallbackInTime /\ TakenAlong
  BY DEF DowntimeInit, CleanupComes, CallbackInTime, TakenAlong, Life
<1> QED
  BY <1>1, <1>3, <1>4, <1>5, <1>6, <1>7 DEF IInv

-----------------------------------------------------------------------------
(* Time, the cleanup timer and authority                                     *)

\* Time passes.
LEMMA TickKeeps == ASSUME IInv, Tick PROVE IInv'
<1>1. /\ now' = now + 1 /\ now \in Nat
      /\ UNCHANGED <<downtimes, triggers, cleanup, calls, triggerTime, request, announced,
                     unannounced, overrun, late>>
  BY DEF Tick, threadVars, requestVars, historyVars, IInv, DowntimeTypeOK
<1>2. Frames' = Frames /\ \A d : AtSetup(d)' = AtSetup(d)
  BY <1>1, SameCalls
<1>3. DowntimeTypeOK'
  BY <1>1 DEF IInv, DowntimeTypeOK
<1>4. \A d \in Names : /\ TriggeredAt(d)' = TriggeredAt(d) /\ Window(d)' = Window(d) /\ Life(d)' = Life(d)
                       /\ TriggeredAt(d) \in Nat /\ Window(d).start \in Nat /\ Window(d).end \in Nat
                       /\ downtimes[d].earliest \in Nat
  BY <1>1, Values DEF IInv, TriggeredAt, Window, Life
<1>5. TimesOK'
  <2>1. ASSUME NEW t \in Threads
        PROVE  (triggerTime[t] <= now /\ (calls[t] # <<>> => triggerTime[t] > 0))'
    BY <1>1 DEF IInv, TimesOK, DowntimeTypeOK
  <2>2. ASSUME NEW f \in Frames, f.name # NoName PROVE now' >= Window(f.name)'.start
    <3>1. f \in CallRecord
      BY <2>2, FrameTypes DEF IInv
    <3>2. f.name \in Names /\ now >= Window(f.name).start
      BY <2>2, <3>1 DEF CallRecord, IInv, TimesOK
    <3> QED
      BY <1>1, <1>4, <3>2
  <2> QED
    BY <1>1, <1>2, <1>4, <2>1, <2>2 DEF IInv, TimesOK
<1>6. RequestOK' /\ NamesOK' /\ Heard'
  BY <1>1, <1>2 DEF IInv, RequestOK, NamesOK, Heard, Life, Window, TriggeredAt
<1>7. CleanupComes'
  BY <1>1 DEF IInv, CleanupComes, CleanupTime, AtTop, Top
<1>8. CallbackInTime'
  <2>1. ASSUME NEW d \in Names, IsExpired(d) PROVE IsExpired(d)'
    <3>1. TriggeredAt(d) <= now
      BY DEF IInv, TimesOK
    <3> QED
      BY <1>1, <2>1, <3>1, Values DEF IInv, IsExpired, IsTriggered, IsInEffect, Window, TriggeredAt
  <2> QED
    BY <1>1, <1>2, <2>1 DEF IInv, CallbackInTime, Life
<1>9. TakenAlong'
  <2>1. \A p \in Names : \A d \in triggers[p] : d \in Names
    BY DEF IInv, DowntimeTypeOK
  <2>2. \A d \in Names : Window(d).end < now => Window(d).end < now'
    BY <1>1, <1>4
  <2>3. TakenAlong
    BY DEF IInv
  <2> QED
    BY <1>1, <1>2, <1>4, <2>1, <2>2, <2>3 DEF TakenAlong
<1> QED
  BY <1>3, <1>5, <1>6, <1>7, <1>8, <1>9 DEF IInv

\* The callback of the cleanup timer starts.
LEMMA CleanupBeginKeeps == ASSUME IInv, NEW d \in Names, CleanupBegin(d) PROVE IInv'
<1>1. /\ cleanup[d] \notin {NotRegistered, Running} /\ now > cleanup[d]
      /\ cleanup' = [cleanup EXCEPT ![d] = Running] /\ cleanup \in [Names -> Int]
      /\ UNCHANGED <<now, downtimes, triggers, calls, triggerTime, request, announced,
                     unannounced, overrun, late>>
  BY DEF CleanupBegin, threadVars, requestVars, historyVars, IInv, DowntimeTypeOK
<1>2. Frames' = Frames /\ \A e : AtSetup(e)' = AtSetup(e)
  BY <1>1, SameCalls
<1>3. DowntimeTypeOK'
  BY <1>1 DEF IInv, DowntimeTypeOK, Running
<1>4. TimesOK' /\ RequestOK' /\ NamesOK' /\ Heard' /\ TakenAlong'
  BY <1>1, <1>2 DEF IInv, TimesOK, RequestOK, NamesOK, Heard, TakenAlong, Life, Window, TriggeredAt
<1>5. CleanupComes'
  BY <1>1 DEF IInv, CleanupComes, CleanupTime, AtTop, Top
<1>6. CallbackInTime'
  <2>1. \A e \in Names \ {d} : cleanup'[e] = cleanup[e]
    BY <1>1
  <2>2. Life(d) = "started" /\ ~downtimes[d].paused => IsExpired(d) \/ AtSetup(d) \/ d \in overrun
    BY <1>1, ExpiredThen DEF IInv, CleanupComes, AtSetup, Life
  <2>3. \A e \in Names : IsExpired(e)' = IsExpired(e) /\ Life(e)' = Life(e)
    BY <1>1 DEF IsExpired, IsTriggered, IsInEffect, Life
  <2> QED
    BY <1>1, <1>2, <2>1, <2>2, <2>3 DEF IInv, CallbackInTime
<1> QED
  BY <1>3, <1>4, <1>5, <1>6 DEF IInv

\* Some downtimes that have been started are removed, which does what it does to their timers.
LEMMA RemoveKeeps ==
    ASSUME IInv, NEW ds \in SUBSET Names, \A d \in ds : Life(d) = "started", Remove(ds),
           UNCHANGED <<now, triggers, calls, triggerTime, request, unannounced, overrun, late>>,
           cleanup' \in [Names -> Int], \A d \in Names \ ds : cleanup'[d] = cleanup[d]
    PROVE  IInv'
<1>1. /\ downtimes' = [d \in Names |-> IF d \in ds
                          THEN [downtimes[d] EXCEPT !.life = "removed", !.paused = TRUE]
                          ELSE downtimes[d]]
      /\ announced' = [d \in Names |-> IF d \in ds THEN announced[d] \cup NotifyDowntimeEnd(d)
                                       ELSE announced[d]]
      /\ downtimes \in [Names -> DowntimeRecord] /\ announced \in [Names -> SUBSET {"start", "end"}]
  BY DEF Remove, IInv, DowntimeTypeOK
<1>2. Frames' = Frames /\ \A e : AtSetup(e)' = AtSetup(e)
  BY SameCalls
<1>3. /\ downtimes' \in [Names -> DowntimeRecord] /\ announced' \in [Names -> SUBSET {"start", "end"}]
      /\ \A d \in Names : /\ Window(d)' = Window(d) /\ TriggeredAt(d)' = TriggeredAt(d)
                          /\ downtimes'[d].earliest = downtimes[d].earliest
                          /\ Life(d)' = IF d \in ds THEN "removed" ELSE Life(d)
                          /\ d \notin ds => downtimes'[d] = downtimes[d] /\ announced'[d] = announced[d]
                          /\ announced[d] \subseteq announced'[d]
                          /\ "end" \in announced'[d] => "end" \in announced[d] \/ TriggeredAt(d) # 0
  <2>1. ASSUME NEW d \in Names PROVE downtimes'[d] \in DowntimeRecord
    BY <1>1 DEF DowntimeRecord
  <2>2. downtimes' \in [Names -> DowntimeRecord]
    BY <1>1, <2>1
  <2>3. ASSUME NEW d \in Names
        PROVE  /\ Window(d)' = Window(d) /\ TriggeredAt(d)' = TriggeredAt(d)
               /\ downtimes'[d].earliest = downtimes[d].earliest
               /\ Life(d)' = IF d \in ds THEN "removed" ELSE Life(d)
    BY <1>1 DEF DowntimeRecord, Window, TriggeredAt, Life
  <2>4. ASSUME NEW d \in Names
        PROVE  NotifyDowntimeEnd(d) \subseteq {"end"} /\ (NotifyDowntimeEnd(d) # {} => TriggeredAt(d) # 0)
    BY Values DEF IInv, NotifyDowntimeEnd, IsTriggered, TriggeredAt
  <2>5. announced' \in [Names -> SUBSET {"start", "end"}]
    BY <1>1, <2>4
  <2>6. ASSUME NEW d \in Names
        PROVE  /\ d \notin ds => downtimes'[d] = downtimes[d] /\ announced'[d] = announced[d]
               /\ announced[d] \subseteq announced'[d]
               /\ "end" \in announced'[d] => "end" \in announced[d] \/ TriggeredAt(d) # 0
    BY <1>1, <2>4
  <2> QED
    BY <2>2, <2>3, <2>5, <2>6
<1>4. DowntimeTypeOK'
  BY <1>3 DEF IInv, DowntimeTypeOK
<1>f. \A f \in Frames : f \in CallRecord
  BY FrameTypes DEF IInv
<1>5. TimesOK'
  BY <1>2, <1>3, <1>f DEF IInv, TimesOK, CallRecord
<1>6. RequestOK'
  <2>1. request.pc \in {"trigger", "started"} => request.name \notin ds
    BY DEF IInv, RequestOK
  <2> QED
    BY <1>3, <2>1 DEF IInv, RequestOK
<1>7. NamesOK'
  <2>1. \A d \in Names : Life(d) = "none" => d \notin ds
    OBVIOUS
  <2>2. \A d \in Names : Life(d)' = "none" => Life(d) = "none"
    BY <1>3
  <2> QED
    BY <1>2, <1>3, <1>f, <2>1, <2>2 DEF IInv, NamesOK, CallRecord, DowntimeTypeOK
<1>8. Heard'
  BY <1>2, <1>3 DEF IInv, Heard
<1>9. CleanupComes' /\ CallbackInTime'
  <2>1. ASSUME NEW d \in Names, d \notin ds
        PROVE  /\ CleanupTime(d)' = CleanupTime(d) /\ IsExpired(d)' = IsExpired(d)
               /\ Life(d)' = Life(d) /\ downtimes'[d].paused = downtimes[d].paused
    BY <1>3, <2>1 DEF CleanupTime, IsExpired, IsTriggered, IsInEffect, Life
  <2>2. \A d \in ds : Life(d)' # "started"
    BY <1>3
  <2> QED
    BY <1>2, <2>1, <2>2 DEF IInv, CleanupComes, CallbackInTime, Life, AtTop, Top, AtSetup
<1>10. TakenAlong'
  BY <1>2, <1>3 DEF IInv, TakenAlong, DowntimeTypeOK
<1> QED
  BY <1>4, <1>5, <1>6, <1>7, <1>8, <1>9, <1>10 DEF IInv

\* The callback ends, with or without the removal.
LEMMA CleanupEndKeeps == ASSUME IInv, NEW d \in Names, CleanupEnd(d) PROVE IInv'
<1>1. /\ cleanup[d] = Running /\ cleanup \in [Names -> Int]
      /\ cleanup' = [cleanup EXCEPT ![d] = NotRegistered]
      /\ UNCHANGED <<now, triggers, calls, triggerTime, request, unannounced, overrun, late>>
  BY DEF CleanupEnd, threadVars, requestVars, IInv, DowntimeTypeOK
<1>2. cleanup' \in [Names -> Int] /\ \A e \in Names \ {d} : cleanup'[e] = cleanup[e]
  BY <1>1 DEF NotRegistered
<1>3. CASE Life(d) = "started" /\ Remove({d})
  BY <1>1, <1>2, <1>3, RemoveKeeps
<1>4. CASE ~(Registered(d) /\ IsExpired(d)) /\ UNCHANGED <<downtimes, announced>>
  <2>1. Frames' = Frames /\ \A e : AtSetup(e)' = AtSetup(e)
    BY <1>1, SameCalls
  <2>2. DowntimeTypeOK'
    BY <1>1, <1>2, <1>4 DEF IInv, DowntimeTypeOK
  <2>3. TimesOK' /\ RequestOK' /\ NamesOK' /\ Heard' /\ TakenAlong'
    BY <1>1, <1>4, <2>1 DEF IInv, TimesOK, RequestOK, NamesOK, Heard, TakenAlong, Life, Window, TriggeredAt
  <2>4. Life(d) = "started" /\ ~downtimes[d].paused => AtSetup(d) \/ d \in overrun
    BY <1>1, <1>4 DEF IInv, CallbackInTime, Registered, Life
  <2>5. \A e \in Names : CleanupTime(e)' = CleanupTime(e) /\ IsExpired(e)' = IsExpired(e)
    BY <1>1, <1>4 DEF CleanupTime, IsExpired, IsTriggered, IsInEffect
  <2>6. CleanupComes'
    BY <1>1, <1>2, <1>4, <2>1, <2>4, <2>5 DEF IInv, CleanupComes, AtSetup, Life
  <2>7. CallbackInTime'
    BY <1>1, <1>2, <1>4, <2>1, <2>4, <2>5 DEF IInv, CallbackInTime, Life
  <2> QED
    BY <2>2, <2>3, <2>6, <2>7 DEF IInv
<1> QED
  BY <1>3, <1>4 DEF CleanupEnd, Life

\* A user or the parent removes downtimes.
LEMMA RemoveDowntimeKeeps ==
    ASSUME IInv, NEW d \in Names, NEW includeChildren \in BOOLEAN, RemoveDowntime(d, includeChildren)
    PROVE  IInv'
<1>1. PICK ds : ds = {d} \cup IF includeChildren
                         THEN {e \in Names : Registered(e) /\ downtimes[e].parent = d}
                         ELSE {}
  OBVIOUS
<1>2. /\ \A e \in ds : downtimes[e].life = "started"
      /\ Remove(ds)
      /\ cleanup' = [e \in Names |-> IF e \in ds THEN Halted(e) ELSE cleanup[e]]
      /\ UNCHANGED <<now, triggers, calls, triggerTime, request, unannounced, overrun, late>>
  BY <1>1 DEF RemoveDowntime, threadVars, requestVars
<1>3. ds \in SUBSET Names
  BY <1>1
<1>4. cleanup' \in [Names -> Int] /\ \A e \in Names \ ds : cleanup'[e] = cleanup[e]
  BY <1>2 DEF IInv, DowntimeTypeOK, Halted, NotRegistered
<1> QED
  BY <1>2, <1>3, <1>4, RemoveKeeps DEF Life

\* The node gets the authority for the downtime, or gives it up.
LEMMA AuthorityKeeps == ASSUME IInv, NEW d \in Names, Resume(d) \/ Pause(d) PROVE IInv'
<1>1. /\ Life(d) = "started" /\ cleanup \in [Names -> Int] /\ downtimes \in [Names -> DowntimeRecord]
      /\ UNCHANGED <<now, triggers, calls, triggerTime, request, announced, unannounced, late>>
  BY DEF Resume, Pause, Life, threadVars, requestVars, historyVars, IInv, DowntimeTypeOK
<1>2. Frames' = Frames /\ \A e : AtSetup(e)' = AtSetup(e)
  BY <1>1, SameCalls
<1>3. PICK paused \in BOOLEAN : downtimes' = [downtimes EXCEPT ![d].paused = paused]
  BY DEF Resume, Pause
<1>4. /\ downtimes' \in [Names -> DowntimeRecord]
      /\ \A e \in Names : /\ Window(e)' = Window(e) /\ TriggeredAt(e)' = TriggeredAt(e) /\ Life(e)' = Life(e)
                          /\ downtimes'[e].earliest = downtimes[e].earliest
                          /\ e # d => downtimes'[e].paused = downtimes[e].paused
      /\ downtimes'[d].paused = paused
  BY <1>1, <1>3 DEF DowntimeRecord, Window, TriggeredAt, Life
<1>5. /\ CleanupTime(d) \in Int
      /\ \A e \in Names : CleanupTime(e)' = CleanupTime(e) /\ IsExpired(e)' = IsExpired(e)
  <2>1. CleanupTime(d) \in Int
    BY ExpiredThen DEF IInv
  <2>2. \A e \in Names : CleanupTime(e)' = CleanupTime(e) /\ IsExpired(e)' = IsExpired(e)
    BY <1>1, <1>4 DEF CleanupTime, IsExpired, IsTriggered, IsInEffect, Window, TriggeredAt
  <2> QED
    BY <2>1, <2>2
<1>f. \A f \in Frames : f \in CallRecord
  BY FrameTypes DEF IInv
<1>6. /\ cleanup' \in [Names -> Int] /\ \A e \in Names \ {d} : cleanup'[e] = cleanup[e]
      /\ overrun \subseteq overrun' /\ overrun' \subseteq Names
  BY <1>1, <1>5 DEF Resume, Pause, SetupCleanupTimer, Halted, NotRegistered, historyVars, IInv, DowntimeTypeOK
<1>7. ~paused => \/ cleanup'[d] = CleanupTime(d) /\ cleanup'[d] # Running
                 \/ cleanup'[d] = Running /\ d \in overrun'
  <2>1. ASSUME Resume(d)
        PROVE  \/ cleanup'[d] = CleanupTime(d) /\ cleanup'[d] # Running
               \/ cleanup'[d] = Running /\ d \in overrun'
    <3>1. CleanupTime(d) # Running
      BY ExpiredThen DEF IInv, Running
    <3> QED
      BY <1>1, <2>1, <3>1 DEF Resume, SetupCleanupTimer
  <2>2. ASSUME Pause(d) PROVE paused
    BY <1>1, <1>3, <2>2 DEF Pause, DowntimeRecord
  <2> QED
    BY <2>1, <2>2
<1>8. DowntimeTypeOK'
  BY <1>1, <1>4, <1>6 DEF IInv, DowntimeTypeOK
<1>9. TimesOK'
  BY <1>1, <1>2, <1>4, <1>f DEF IInv, TimesOK, CallRecord
<1>10. RequestOK'
  BY <1>1, <1>4 DEF IInv, RequestOK
<1>11. NamesOK'
  <2>1. \A e \in Names : Life(e) = "starting" => downtimes'[e].paused = downtimes[e].paused
    BY <1>1, <1>4
  <2>2. /\ \A f \in Frames : /\ f.name \in Names \cup {NoName}
                            /\ \A e \in f.todo : e \in Names
        /\ \A p \in Names : \A e \in triggers[p] : e \in Names
    BY <1>f DEF CallRecord, IInv, DowntimeTypeOK
  <2>3. NamesOK
    BY DEF IInv
  <2> QED
    BY <1>1, <1>2, <1>4, <2>1, <2>2, <2>3 DEF NamesOK
<1>12. Heard' /\ TakenAlong'
  BY <1>1, <1>2, <1>4 DEF IInv, Heard, TakenAlong, DowntimeTypeOK
<1>13. CleanupComes'
  BY <1>1, <1>2, <1>4, <1>5, <1>6, <1>7 DEF IInv, CleanupComes, AtSetup, Life
<1>14. CallbackInTime'
  BY <1>1, <1>2, <1>4, <1>5, <1>6, <1>7 DEF IInv, CallbackInTime
<1> QED
  BY <1>8, <1>9, <1>10, <1>11, <1>12, <1>13, <1>14 DEF IInv

-----------------------------------------------------------------------------
(* Threads that trigger                                                      *)

\* A thread sets the trigger time: the downtime counts as being announced by this call, and
\* the call is about to set the timer and to go on to what it triggers.
LEMMA SetTriggerTimeKeeps == ASSUME IInv, NEW t \in Threads, SetTriggerTime(t) PROVE IInv'
<1>1. /\ calls[t] # <<>> /\ Top(t).pc = "set"
      /\ UNCHANGED <<now, triggers, cleanup, triggerTime, request, announced, overrun, late>>
  BY DEF SetTriggerTime, AtTop, requestVars
<1>2. PICK d : d = Top(t).name
  OBVIOUS
<1>3. /\ Top(t) \in Frames /\ Top(t) \in CallRecord /\ d \in Names /\ Life(d) # "none"
      /\ now >= Window(d).start /\ triggerTime[t] \in Nat /\ triggerTime[t] > 0 /\ triggerTime[t] <= now
  <2>1. Top(t) \in Frames /\ Top(t) \in CallRecord
    BY <1>1, TopFrame DEF IInv
  <2>2. d # NoName /\ d \in Names
    BY <1>1, <1>2, <2>1 DEF IInv, NamesOK, CallRecord
  <2> QED
    BY <1>1, <1>2, <2>1, <2>2 DEF IInv, NamesOK, TimesOK, DowntimeTypeOK
<1>4. PICK x : x = Call(d, "setup", {})
  OBVIOUS
<1>5. x \in CallRecord /\ x.name = d /\ x.pc = "setup" /\ x.todo = {}
  BY <1>3, <1>4 DEF Call, CallRecord
<1>6. /\ calls' \in [Threads -> Seq(CallRecord)] /\ calls'[t] # <<>> /\ Top(t)' = x
      /\ \A u \in Threads \ {t} : calls'[u] = calls[u]
      /\ x \in Frames' /\ Frames' \subseteq Frames \cup {x}
      /\ Frames \subseteq Frames' \cup {Top(t)}
  <2>1. calls' = [calls EXCEPT ![t] = Append(Below(t), x)]
    BY <1>2, <1>4 DEF SetTriggerTime
  <2> QED
    BY <1>1, <1>5, <2>1, SwapTop DEF IInv
<1>7. /\ downtimes' \in [Names -> DowntimeRecord]
      /\ \A e \in Names : /\ Window(e)' = Window(e) /\ Life(e)' = Life(e)
                          /\ downtimes'[e].earliest = downtimes[e].earliest
                          /\ downtimes'[e].paused = downtimes[e].paused
                          /\ e # d => downtimes'[e] = downtimes[e] /\ TriggeredAt(e)' = TriggeredAt(e)
      /\ TriggeredAt(d)' \in Nat /\ TriggeredAt(d)' # 0 /\ TriggeredAt(d)' <= now
  <2>1. CASE TriggeredAt(d) = 0
    <3>1. downtimes' = [downtimes EXCEPT ![d].trigger = triggerTime[t]]
      BY <1>2, <2>1 DEF SetTriggerTime, TriggeredAt
    <3>2. downtimes \in [Names -> DowntimeRecord]
      BY DEF IInv, DowntimeTypeOK
    <3>3. downtimes' \in [Names -> DowntimeRecord]
      BY <1>3, <3>1, <3>2 DEF DowntimeRecord
    <3>4. \A e \in Names \ {d} : downtimes'[e] = downtimes[e]
      BY <3>1, <3>2
    <3>5. downtimes'[d] = [downtimes[d] EXCEPT !.trigger = triggerTime[t]] /\ downtimes[d] \in DowntimeRecord
      BY <1>3, <3>1, <3>2
    <3>6. /\ Window(d)' = Window(d) /\ Life(d)' = Life(d) /\ TriggeredAt(d)' = triggerTime[t]
          /\ downtimes'[d].earliest = downtimes[d].earliest
          /\ downtimes'[d].paused = downtimes[d].paused
      BY <3>5 DEF DowntimeRecord, Window, Life, TriggeredAt
    <3> QED
      BY <1>3, <3>3, <3>4, <3>6 DEF Window, Life, TriggeredAt
  <2>2. CASE TriggeredAt(d) # 0
    <3>1. downtimes' = downtimes
      BY <1>2, <2>2 DEF SetTriggerTime, TriggeredAt
    <3>2. TriggeredAt(d) \in Nat /\ TriggeredAt(d) <= now
      BY <1>3, Values DEF IInv, TimesOK
    <3> QED
      BY <2>2, <3>1, <3>2 DEF IInv, DowntimeTypeOK, Window, Life, TriggeredAt
  <2> QED
    BY <2>1, <2>2
<1>8. /\ unannounced \subseteq unannounced' /\ unannounced' \subseteq Names
      /\ TriggeredAt(d) = 0 /\ Window(d).fixed => "start" \in announced[d] \/ d \in unannounced'
  BY <1>2, <1>3 DEF SetTriggerTime, IInv, DowntimeTypeOK, TriggeredAt, Window
<1>9. DowntimeTypeOK'
  BY <1>1, <1>6, <1>7, <1>8 DEF IInv, DowntimeTypeOK
<1>10. TimesOK'
  <2>1. \A u \in Threads : (triggerTime[u] <= now /\ (calls[u] # <<>> => triggerTime[u] > 0))'
    BY <1>1, <1>3, <1>6 DEF IInv, TimesOK
  <2>2. ASSUME NEW e \in Names
        PROVE  (/\ TriggeredAt(e) <= now
                /\ downtimes[e].earliest <= now \/ downtimes[e].earliest <= Window(e).start
                /\ Life(e) # "none" => downtimes[e].earliest > 0
                /\ TriggeredAt(e) # 0 => now >= Window(e).start)'
    BY <1>1, <1>3, <1>7 DEF IInv, TimesOK
  <2>3. ASSUME NEW f \in Frames', f.name # NoName PROVE now' >= Window(f.name)'.start
    <3>1. f.name \in Names
      BY <1>5, <1>3, <1>6, <2>3, FrameTypes DEF IInv
    <3>2. now >= Window(f.name).start
      BY <1>3, <1>5, <1>6, <2>3 DEF IInv, TimesOK
    <3> QED
      BY <1>1, <1>7, <3>1, <3>2
  <2> QED
    BY <2>1, <2>2, <2>3 DEF TimesOK
<1>11. RequestOK'
  BY <1>1, <1>6, <1>7 DEF IInv, RequestOK, Threads
<1>12. NamesOK'
  <2>1. \A f \in Frames' : f \in Frames \/ f = x
    BY <1>6
  <2>2. NamesOK
    BY DEF IInv
  <2>3. \A p \in Names : \A e \in triggers[p] : e \in Names
    BY DEF IInv, DowntimeTypeOK
  <2> QED
    <3>1. \A f \in Frames : f.name \in Names \cup {NoName} /\ \A e \in f.todo : e \in Names
      BY FrameTypes DEF IInv
    <3>2. d # NoName
      BY <1>3, DowntimeAssumption
    <3>3. ASSUME NEW f \in Frames'
          PROVE  /\ f.name # NoName => Life(f.name)' # "none"
                 /\ f.name = NoName => f.pc = "each" /\ \A e \in f.todo : Life(e)' # "none"
      BY <1>3, <1>5, <1>7, <2>1, <2>2, <3>1, <3>2 DEF NamesOK
    <3> QED
      BY <1>1, <1>7, <2>2, <2>3, <3>3 DEF NamesOK
<1>13. Heard'
  <2>1. ASSUME NEW e \in Names, e # d, (TriggeredAt(e) # 0 \/ "end" \in announced[e])'
        PROVE  (\/ "start" \in announced[e]
                \/ Window(e).fixed /\ e \in unannounced
                \/ ~Window(e).fixed /\ \E f \in Frames : f.name = e)'
    <3>1. ASSUME NEW f \in Frames, f.name = e PROVE f \in Frames'
      BY <1>2, <1>6, <2>1, <3>1
    <3> QED
      BY <1>1, <1>7, <1>8, <2>1, <3>1 DEF IInv, Heard
  <2>2. (\/ "start" \in announced[d]
         \/ Window(d).fixed /\ d \in unannounced
         \/ ~Window(d).fixed /\ \E f \in Frames : f.name = d)'
    <3>1. CASE ~Window(d).fixed
      BY <1>3, <1>5, <1>6, <1>7, <3>1
    <3>2. CASE Window(d).fixed
      BY <1>1, <1>3, <1>7, <1>8, <3>2 DEF IInv, Heard
    <3> QED
      BY <3>1, <3>2
  <2> QED
    BY <2>1, <2>2 DEF Heard
<1>14. AtSetup(d)' /\ \A e \in Names : AtSetup(e) => AtSetup(e)'
  <2>1. AtSetup(d)'
    BY <1>5, <1>6 DEF AtSetup, AtTop
  <2>2. ASSUME NEW u \in Threads, AtTop(u, "setup") PROVE AtTop(u, "setup")' /\ Top(u)' = Top(u)
    <3>1. u # t
      BY <1>1, <2>2 DEF AtTop
    <3> QED
      BY <1>6, <2>2, <3>1 DEF AtTop, Top
  <2> QED
    BY <2>1, <2>2 DEF AtSetup
<1>15. CleanupComes'
  <2>1. \A e \in Names \ {d} : CleanupTime(e)' = CleanupTime(e)
    BY <1>7 DEF CleanupTime
  <2> QED
    BY <1>1, <1>7, <1>14, <2>1 DEF IInv, CleanupComes, AtSetup, Life
<1>16. CallbackInTime'
  <2>1. \A e \in Names \ {d} : IsExpired(e)' = IsExpired(e)
    BY <1>1, <1>7 DEF IsExpired, IsTriggered, IsInEffect
  <2> QED
    BY <1>1, <1>7, <1>14, <2>1 DEF IInv, CallbackInTime
<1>17. TakenAlong'
  <2> SUFFICES ASSUME NEW p \in Names, NEW e \in triggers[p],
                      (/\ ~Window(p).fixed /\ TriggeredAt(p) # 0
                       /\ Window(e) = Window(p) /\ e \notin late)',
                      Life(e) # "removed", TriggeredAt(e)' = 0, ~(Window(e).end < now)
               PROVE  \E f \in Frames' : Reaches(f, p, e)
    <3>1. \A p \in Names : triggers[p] \subseteq Names
      BY DEF IInv, DowntimeTypeOK
    <3> QED
      BY <1>1, <1>7, <3>1 DEF TakenAlong
  <2>1. e \in Names /\ e # d /\ TriggeredAt(e) = 0
    BY <1>7 DEF IInv, DowntimeTypeOK
  <2>2. CASE p = d
    BY <1>5, <1>6, <2>2 DEF Reaches
  <2>3. CASE p # d
    <3>1. PICK f \in Frames : Reaches(f, p, e)
      BY <1>1, <1>7, <2>1, <2>3 DEF IInv, TakenAlong
    <3>2. f # Top(t)
      BY <1>1, <1>2, <2>1, <2>3, <3>1 DEF Reaches
    <3> QED
      BY <1>6, <3>1, <3>2
  <2> QED
    BY <2>2, <2>3
<1> QED
  BY <1>9, <1>10, <1>11, <1>12, <1>13, <1>15, <1>16, <1>17 DEF IInv

\* The timer is set, and the call knows what it triggers.
LEMMA SetupAndLockKeeps == ASSUME IInv, NEW t \in Threads, SetupAndLock(t) PROVE IInv'
<1>1. /\ calls[t] # <<>> /\ Top(t).pc = "setup"
      /\ UNCHANGED <<now, downtimes, triggers, triggerTime, request, announced, unannounced, late>>
  BY DEF SetupAndLock, AtTop, requestVars
<1>2. PICK d : d = Top(t).name
  OBVIOUS
<1>3. Top(t) \in Frames /\ Top(t) \in CallRecord /\ d \in Names /\ Life(d) # "none" /\ now >= Window(d).start
  <2>1. Top(t) \in Frames /\ Top(t) \in CallRecord
    BY <1>1, TopFrame DEF IInv
  <2>2. d # NoName /\ d \in Names
    BY <1>1, <1>2, <2>1 DEF IInv, NamesOK, CallRecord
  <2> QED
    BY <1>1, <1>2, <2>1, <2>2 DEF IInv, NamesOK, TimesOK
<1>4. PICK x : x = Call(d, "each", triggers[d])
  OBVIOUS
<1>5. x \in CallRecord /\ x.name = d /\ x.pc = "each" /\ x.todo = triggers[d]
  BY <1>3, <1>4 DEF Call, CallRecord, IInv, DowntimeTypeOK
<1>6. /\ calls' \in [Threads -> Seq(CallRecord)] /\ calls'[t] # <<>> /\ Top(t)' = x
      /\ \A u \in Threads \ {t} : calls'[u] = calls[u]
      /\ x \in Frames' /\ Frames' \subseteq Frames \cup {x}
      /\ Frames \subseteq Frames' \cup {Top(t)}
  <2>1. calls' = [calls EXCEPT ![t] = Append(Below(t), x)]
    BY <1>2, <1>4 DEF SetupAndLock
  <2> QED
    BY <1>1, <1>5, <2>1, SwapTop DEF IInv
<1>7. /\ cleanup' = [cleanup EXCEPT ![d] = IF @ = Running THEN @ ELSE CleanupTime(d)]
      /\ overrun' = IF cleanup[d] = Running THEN overrun \cup {d} ELSE overrun
  BY <1>2 DEF SetupAndLock, SetupCleanupTimer
<1>8. /\ cleanup' \in [Names -> Int] /\ overrun \subseteq overrun' /\ overrun' \subseteq Names
      /\ \A e \in Names \ {d} : cleanup'[e] = cleanup[e]
      /\ (cleanup'[d] = CleanupTime(d) /\ cleanup'[d] # Running) \/ d \in overrun'
  BY <1>3, <1>7, ExpiredThen DEF IInv, DowntimeTypeOK, Running
<1>9. DowntimeTypeOK'
  BY <1>1, <1>6, <1>8 DEF IInv, DowntimeTypeOK
<1>10. TimesOK'
  <2>1. \A f \in Frames' : f.name # NoName => now >= Window(f.name).start
    BY <1>3, <1>5, <1>6 DEF IInv, TimesOK
  <2> QED
    BY <1>1, <1>6, <2>1 DEF IInv, TimesOK, Window, Life, TriggeredAt
<1>11. RequestOK'
  BY <1>1, <1>6 DEF IInv, RequestOK, Threads, Life
<1>12. NamesOK'
  <2>1. \A f \in Frames' : f \in Frames \/ f = x
    BY <1>6
  <2>2. NamesOK /\ NoName \notin Names
    BY DowntimeAssumption DEF IInv
  <2> QED
    BY <1>1, <1>3, <1>5, <2>1, <2>2 DEF NamesOK, Life
<1>13. Heard'
  <2>1. ASSUME NEW e, NEW f \in Frames, f.name = e PROVE \E g \in Frames' : g.name = e
    BY <1>2, <1>5, <1>6, <2>1
  <2> QED
    BY <1>1, <2>1 DEF IInv, Heard, Window, TriggeredAt
<1>14. \A e \in Names \ {d} : AtSetup(e) => AtSetup(e)'
  <2>1. ASSUME NEW u \in Threads, AtTop(u, "setup"), Top(u).name # d
        PROVE  AtTop(u, "setup")' /\ Top(u)' = Top(u)
    BY <1>2, <1>6, <2>1 DEF AtTop, Top
  <2> QED
    BY <2>1 DEF AtSetup
<1>15. \A e \in Names : CleanupTime(e)' = CleanupTime(e) /\ IsExpired(e)' = IsExpired(e)
  BY <1>1 DEF CleanupTime, IsExpired, IsTriggered, IsInEffect
<1>16. CleanupComes'
  BY <1>1, <1>8, <1>14, <1>15 DEF IInv, CleanupComes, AtSetup, Life
<1>17. CallbackInTime'
  BY <1>1, <1>8, <1>14, <1>15 DEF IInv, CallbackInTime, Life
<1>18. TakenAlong'
  <2>1. ASSUME NEW p \in Names, NEW e \in triggers[p], NEW f \in Frames, Reaches(f, p, e)
        PROVE  \E g \in Frames' : Reaches(g, p, e)
    <3>1. CASE f = Top(t)
      BY <1>1, <1>2, <1>5, <1>6, <2>1, <3>1 DEF Reaches
    <3>2. CASE f # Top(t)
      BY <1>6, <2>1, <3>2
    <3> QED
      BY <3>1, <3>2
  <2> QED
    BY <1>1, <2>1 DEF IInv, TakenAlong, Window, TriggeredAt, Life
<1> QED
  BY <1>9, <1>10, <1>11, <1>12, <1>13, <1>16, <1>17, <1>18 DEF IInv

\* The next of the downtimes is triggered, unless that returns at once.
LEMMA TriggerNextKeeps == ASSUME IInv, NEW t \in Threads, TriggerNext(t) PROVE IInv'
<1>1. /\ calls[t] # <<>> /\ Top(t).pc = "each"
      /\ UNCHANGED <<now, downtimes, triggers, cleanup, triggerTime, request, announced, unannounced,
                     overrun, late>>
  BY DEF TriggerNext, AtTop, requestVars, historyVars
<1>2. Top(t) \in Frames /\ Top(t) \in CallRecord
  BY <1>1, TopFrame DEF IInv
<1>n. PICK n : n = Top(t).name
  OBVIOUS
<1>d. PICK d \in Top(t).todo :
        LET rest == Append(Below(t), Call(Top(t).name, "each", Top(t).todo \ {d}))
        IN calls' = [calls EXCEPT ![t] = IF Top(t).name = NoName \/ Registered(d)
                                         THEN Trigger(rest, d) ELSE rest]
  BY DEF TriggerNext
<1>x. PICK x : x = Call(n, "each", Top(t).todo \ {d})
  OBVIOUS
<1>3. /\ n = Top(t).name
      /\ x = Call(n, "each", Top(t).todo \ {d})
      /\ calls' = [calls EXCEPT ![t] = IF n = NoName \/ Registered(d)
                                       THEN Trigger(Append(Below(t), x), d) ELSE Append(Below(t), x)]
  BY <1>n, <1>d, <1>x
<1>4. /\ x \in CallRecord /\ x.name = n /\ x.pc = "each" /\ x.todo = Top(t).todo \ {d}
      /\ d \in Names /\ n \in Names \cup {NoName}
  BY <1>2, <1>3 DEF Call, CallRecord
<1>5. PICK y : y = Call(d, "set", {})
  OBVIOUS
<1>6. y \in CallRecord /\ y.name = d /\ y.pc = "set" /\ y.todo = {}
  BY <1>4, <1>5 DEF Call, CallRecord
<1>7. /\ calls' \in [Threads -> Seq(CallRecord)] /\ calls'[t] # <<>>
      /\ \A u \in Threads \ {t} : calls'[u] = calls[u]
      /\ x \in Frames' /\ Frames \subseteq Frames' \cup {Top(t)}
      /\ \/ /\ n = NoName \/ Registered(d)
            /\ CanBeTriggered(d)
            /\ y \in Frames' /\ Frames' \subseteq Frames \cup {x, y}
         \/ /\ ~((n = NoName \/ Registered(d)) /\ CanBeTriggered(d))
            /\ Frames' \subseteq Frames \cup {x}
  <2>1. CASE (n = NoName \/ Registered(d)) /\ CanBeTriggered(d)
    <3>1. calls' = [calls EXCEPT ![t] = Append(Append(Below(t), x), y)]
      BY <1>3, <1>5, <2>1 DEF Trigger
    <3> QED
      BY <1>1, <1>4, <1>6, <2>1, <3>1, PushTop DEF IInv
  <2>2. CASE ~((n = NoName \/ Registered(d)) /\ CanBeTriggered(d))
    <3>1. calls' = [calls EXCEPT ![t] = Append(Below(t), x)]
      BY <1>3, <2>2 DEF Trigger
    <3> QED
      BY <1>1, <1>4, <2>2, <3>1, SwapTop DEF IInv
  <2> QED
    BY <2>1, <2>2
<1>8. \A f \in Frames' : f \in Frames \/ f = x
                         \/ (f = y /\ CanBeTriggered(d) /\ (n = NoName \/ Registered(d)))
  BY <1>7
<1>9. DowntimeTypeOK'
  BY <1>1, <1>7 DEF IInv, DowntimeTypeOK
<1>10. TimesOK'
  <2>1. \A f \in Frames' : f.name # NoName => now >= Window(f.name).start
    <3>1. CanBeTriggered(d) => now >= Window(d).start
      BY <1>4, WhenTriggered DEF IInv
    <3>2. n # NoName => now >= Window(n).start
      BY <1>2, <1>3 DEF IInv, TimesOK
    <3> QED
      BY <1>4, <1>6, <1>8, <3>1, <3>2 DEF IInv, TimesOK
  <2>2. \A u \in Threads : calls'[u] # <<>> => calls[u] # <<>>
    BY <1>1, <1>7
  <2> QED
    BY <1>1, <2>1, <2>2 DEF IInv, TimesOK, Window, Life, TriggeredAt
<1>11. RequestOK'
  BY <1>1, <1>7 DEF IInv, RequestOK, Threads, Life
<1>12. NamesOK'
  <2>1. NamesOK /\ NoName \notin Names
    BY DowntimeAssumption DEF IInv
  <2>2. (n = NoName \/ Registered(d)) => Life(d) # "none"
    BY <1>2, <1>3, <2>1 DEF NamesOK, Registered, Life
  <2>3. /\ n # NoName => Life(n) # "none"
        /\ n = NoName => \A e \in Top(t).todo \ {d} : Life(e) # "none"
    BY <1>2, <1>3, <2>1 DEF NamesOK
  <2>4. ASSUME NEW f \in Frames'
        PROVE  /\ f.name # NoName => Life(f.name) # "none"
               /\ f.name = NoName => f.pc = "each" /\ \A e \in f.todo : Life(e) # "none"
    BY <1>4, <1>6, <1>8, <2>1, <2>2, <2>3, <2>4 DEF NamesOK
  <2> QED
    BY <1>1, <2>1, <2>4 DEF NamesOK, Life
<1>13. Heard'
  <2>1. ASSUME NEW e, NEW f \in Frames, f.name = e PROVE \E g \in Frames' : g.name = e
    BY <1>3, <1>4, <1>7, <2>1
  <2> QED
    BY <1>1, <2>1 DEF IInv, Heard, Window, TriggeredAt
<1>14. \A e : AtSetup(e) => AtSetup(e)'
  <2>1. ASSUME NEW u \in Threads, AtTop(u, "setup") PROVE AtTop(u, "setup")' /\ Top(u)' = Top(u)
    <3>1. u # t
      BY <1>1, <2>1 DEF AtTop
    <3> QED
      BY <1>7, <2>1, <3>1 DEF AtTop, Top
  <2> QED
    BY <2>1 DEF AtSetup
<1>15. \A e \in Names : CleanupTime(e)' = CleanupTime(e) /\ IsExpired(e)' = IsExpired(e)
  BY <1>1 DEF CleanupTime, IsExpired, IsTriggered, IsInEffect
<1>16. CleanupComes' /\ CallbackInTime'
  BY <1>1, <1>14, <1>15 DEF IInv, CleanupComes, CallbackInTime, AtSetup, Life
<1>17. TakenAlong'
  <2> SUFFICES ASSUME NEW p \in Names, NEW e \in triggers[p],
                      ~Window(p).fixed, TriggeredAt(p) # 0, Window(e) = Window(p), e \notin late,
                      Life(e) # "removed", TriggeredAt(e) = 0, ~(Window(e).end < now)
               PROVE  \E f \in Frames' : Reaches(f, p, e)
    BY <1>1 DEF TakenAlong, Window, TriggeredAt, Life
  <2>1. PICK f \in Frames : Reaches(f, p, e)
    BY DEF IInv, TakenAlong
  <2>2. CASE f # Top(t)
    BY <1>7, <2>1, <2>2
  <2>3. CASE f = Top(t) /\ e # d
    BY <1>1, <1>3, <1>4, <1>7, <2>1, <2>3 DEF Reaches
  <2>4. CASE f = Top(t) /\ e = d
    <3>1. Registered(d)
      BY <2>4 DEF IInv, NamesOK, Registered, Life
    <3>2. now >= Window(d).start
      BY <2>4 DEF IInv, TimesOK
    <3>3. CanBeTriggered(d)
      BY <1>4, <2>4, <3>2, WhenTriggered, Values DEF IInv
    <3> QED
      BY <1>6, <1>7, <2>4, <3>1, <3>3 DEF Reaches
  <2> QED
    BY <2>2, <2>3, <2>4
<1> QED
  BY <1>9, <1>10, <1>11, <1>12, <1>13, <1>16, <1>17 DEF IInv

\* A call returns: it has gone through all that the downtime triggers and, if that is
\* flexible, has announced its start.
LEMMA TriggerReturnKeeps == ASSUME IInv, NEW t \in Threads, TriggerReturn(t) PROVE IInv'
<1>1. /\ calls[t] # <<>> /\ Top(t).pc = "each" /\ Top(t).todo = {}
      /\ calls' = [calls EXCEPT ![t] = Below(t)]
      /\ UNCHANGED <<now, downtimes, triggers, cleanup, request, unannounced, overrun, late>>
  BY DEF TriggerReturn, AtTop, requestVars
<1>2. PICK d : d = Top(t).name
  OBVIOUS
<1>3. Top(t) \in Frames /\ Top(t) \in CallRecord /\ d \in Names \cup {NoName}
  BY <1>1, <1>2, TopFrame DEF IInv, CallRecord
<1>4. /\ calls' \in [Threads -> Seq(CallRecord)] /\ calls'[t] = Below(t)
      /\ \A u \in Threads \ {t} : calls'[u] = calls[u]
      /\ Frames' \subseteq Frames /\ Frames \subseteq Frames' \cup {Top(t)}
  BY <1>1, PopTop DEF IInv
<1>5. announced' = IF d = NoName \/ Window(d).fixed THEN announced
                   ELSE [announced EXCEPT ![d] = @ \cup {"start"}]
  BY <1>2 DEF TriggerReturn, Window
<1>6. /\ announced' \in [Names -> SUBSET {"start", "end"}]
      /\ \A e \in Names : /\ announced[e] \subseteq announced'[e]
                          /\ "end" \in announced'[e] => "end" \in announced[e]
                          /\ e # d => announced'[e] = announced[e]
      /\ d \in Names /\ ~Window(d).fixed => "start" \in announced'[d]
  BY <1>3, <1>5, DowntimeAssumption DEF IInv, DowntimeTypeOK
<1>7. /\ triggerTime' \in [Threads -> Nat]
      /\ \A u \in Threads : triggerTime'[u] <= now /\ (calls'[u] # <<>> => triggerTime'[u] > 0)
  <2>1. triggerTime' = IF Below(t) = <<>> THEN [triggerTime EXCEPT ![t] = 0] ELSE triggerTime
    BY DEF TriggerReturn
  <2>2. triggerTime \in [Threads -> Nat] /\ now \in Nat
    BY DEF IInv, DowntimeTypeOK
  <2>3. triggerTime' \in [Threads -> Nat]
    BY <2>1, <2>2
  <2> QED
    BY <1>1, <1>4, <2>1, <2>2, <2>3 DEF IInv, TimesOK
<1>8. DowntimeTypeOK'
  BY <1>1, <1>4, <1>6, <1>7 DEF IInv, DowntimeTypeOK
<1>9. TimesOK'
  BY <1>1, <1>4, <1>7 DEF IInv, TimesOK, Window, Life, TriggeredAt
<1>10. RequestOK'
  BY <1>1, <1>4 DEF IInv, RequestOK, Threads, Life
<1>11. NamesOK'
  <2>1. NamesOK
    BY DEF IInv
  <2>2. \A e \in Names : Life(e) = "none" => e # d
    BY <1>2, <1>3, <2>1, DowntimeAssumption DEF NamesOK
  <2> QED
    BY <1>1, <1>4, <1>6, <2>1, <2>2 DEF NamesOK, Life
<1>12. Heard'
  <2>1. ASSUME NEW e \in Names, e # d, NEW f \in Frames, f.name = e PROVE f \in Frames'
    BY <1>2, <1>4, <2>1
  <2> QED
    BY <1>1, <1>6, <2>1 DEF IInv, Heard, Window, TriggeredAt
<1>13. \A e : AtSetup(e) => AtSetup(e)'
  <2>1. ASSUME NEW u \in Threads, AtTop(u, "setup") PROVE AtTop(u, "setup")' /\ Top(u)' = Top(u)
    <3>1. u # t
      BY <1>1, <2>1 DEF AtTop
    <3> QED
      BY <1>4, <2>1, <3>1 DEF AtTop, Top
  <2> QED
    BY <2>1 DEF AtSetup
<1>14. \A e \in Names : CleanupTime(e)' = CleanupTime(e) /\ IsExpired(e)' = IsExpired(e)
  BY <1>1 DEF CleanupTime, IsExpired, IsTriggered, IsInEffect
<1>15. CleanupComes' /\ CallbackInTime'
  BY <1>1, <1>13, <1>14 DEF IInv, CleanupComes, CallbackInTime, AtSetup, Life
<1>16. TakenAlong'
  <2>1. ASSUME NEW p, NEW e, NEW f \in Frames, Reaches(f, p, e) PROVE f \in Frames'
    BY <1>1, <1>4, <2>1 DEF Reaches
  <2> QED
    BY <1>1, <2>1 DEF IInv, TakenAlong, Window, TriggeredAt, Life
<1> QED
  BY <1>8, <1>9, <1>10, <1>11, <1>12, <1>15, <1>16 DEF IInv

\* A thread makes its first call. Nothing but a start may be announced with it, of a
\* downtime that exists.
LEMMA CallBegins ==
    ASSUME IInv, NEW t \in Threads, calls[t] = <<>>, NEW x \in CallRecord, x.pc # "setup",
           x.name # NoName => Life(x.name) # "none" /\ now >= Window(x.name).start,
           x.name = NoName => x.pc = "each" /\ \A e \in x.todo : Life(e) # "none",
           calls' = [calls EXCEPT ![t] = <<x>>],
           NEW v \in Nat, v > 0, v <= now, triggerTime' = [triggerTime EXCEPT ![t] = v],
           announced' \in [Names -> SUBSET {"start", "end"}],
           \A e \in Names : /\ announced[e] \subseteq announced'[e]
                            /\ "end" \in announced'[e] => "end" \in announced[e]
                            /\ Life(e) = "none" => announced'[e] = announced[e],
           request' \in RequestRecord, RequestOK',
           UNCHANGED <<now, downtimes, triggers, cleanup, unannounced, overrun, late>>
    PROVE  IInv'
<1>1. /\ calls' \in [Threads -> Seq(CallRecord)] /\ calls'[t] # <<>> /\ Top(t)' = x
      /\ \A u \in Threads \ {t} : calls'[u] = calls[u]
      /\ x \in Frames' /\ Frames' = Frames \cup {x}
  BY FirstCall DEF IInv
<1>2. /\ triggerTime' \in [Threads -> Nat]
      /\ \A u \in Threads : triggerTime'[u] <= now /\ (calls'[u] # <<>> => triggerTime'[u] > 0)
  BY <1>1 DEF IInv, TimesOK, DowntimeTypeOK
<1>3. DowntimeTypeOK'
  BY <1>1, <1>2 DEF IInv, DowntimeTypeOK
<1>4. TimesOK'
  BY <1>1, <1>2 DEF IInv, TimesOK, Window, Life, TriggeredAt
<1>5. NamesOK'
  BY <1>1 DEF IInv, NamesOK, Life
<1>6. Heard'
  BY <1>1 DEF IInv, Heard, Window, TriggeredAt
<1>7. \A e : AtSetup(e) => AtSetup(e)'
  <2>1. ASSUME NEW u \in Threads, AtTop(u, "setup") PROVE AtTop(u, "setup")' /\ Top(u)' = Top(u)
    <3>1. u # t
      BY <2>1 DEF AtTop
    <3> QED
      BY <1>1, <2>1, <3>1 DEF AtTop, Top
  <2> QED
    BY <2>1 DEF AtSetup
<1>8. \A e \in Names : CleanupTime(e)' = CleanupTime(e) /\ IsExpired(e)' = IsExpired(e)
  BY DEF CleanupTime, IsExpired, IsTriggered, IsInEffect
<1>9. CleanupComes' /\ CallbackInTime'
  BY <1>7, <1>8 DEF IInv, CleanupComes, CallbackInTime, AtSetup, Life
<1>10. TakenAlong'
  BY <1>1 DEF IInv, TakenAlong, Window, TriggeredAt, Life
<1> QED
  BY <1>3, <1>4, <1>5, <1>6, <1>9, <1>10 DEF IInv

\* A result that is not OK triggers the downtimes of its checkable.
LEMMA ProcessBadResultKeeps == ASSUME IInv, NEW c \in Checkables, ProcessBadResult(c) PROVE IInv'
<1>1. PICK ds : ds = {d \in Names : Registered(d) /\ downtimes[d].on = c}
  OBVIOUS
<1>2. PICK x : x = Call(NoName, "each", ds)
  OBVIOUS
<1>3. /\ calls[c] = <<>> /\ calls' = [calls EXCEPT ![c] = <<x>>]
      /\ triggerTime' = [triggerTime EXCEPT ![c] = now]
      /\ UNCHANGED <<now, downtimes, triggers, cleanup, request, announced, unannounced, overrun, late>>
  BY <1>1, <1>2 DEF ProcessBadResult, Room, requestVars, historyVars
<1>4. /\ x \in CallRecord /\ x.pc = "each" /\ x.name = NoName
      /\ \A e \in x.todo : Life(e) # "none"
  BY <1>1, <1>2 DEF Call, CallRecord, Registered, Life
<1>5. c \in Threads /\ c # "request" /\ "request" \in Threads
  BY DowntimeAssumption DEF Threads
<1>6. /\ announced \in [Names -> SUBSET {"start", "end"}] /\ request \in RequestRecord
      /\ now \in Nat /\ now > 0 /\ calls \in [Threads -> Seq(CallRecord)]
  BY DEF IInv, DowntimeTypeOK
<1>7. RequestOK'
  BY <1>3, <1>5, <1>6 DEF IInv, RequestOK, Life
<1>8. PICK v : v = now
  OBVIOUS
<1>9. v \in Nat /\ v > 0 /\ v <= now /\ triggerTime' = [triggerTime EXCEPT ![c] = v]
  BY <1>3, <1>6, <1>8
<1>10. \A e \in Names : announced'[e] = announced[e]
  BY <1>3
<1> QED
  BY <1>3, <1>4, <1>5, <1>6, <1>7, <1>9, <1>10, CallBegins

\* A fixed downtime is announced and triggered.
LEMMA StartFixedKeeps ==
    ASSUME IInv, NEW t \in Threads, NEW d \in Names, calls[t] = <<>>, Registered(d), CanBeTriggered(d),
           StartFixed(t, d), request' \in RequestRecord, RequestOK',
           UNCHANGED <<now, downtimes, triggers, cleanup, unannounced, overrun, late>>
    PROVE  IInv'
<1>1. PICK x : x = Call(d, "set", {})
  OBVIOUS
<1>2. x \in CallRecord /\ x.pc = "set" /\ x.name = d /\ d # NoName
  BY <1>1, DowntimeAssumption DEF Call, CallRecord
<1>3. /\ calls' = [calls EXCEPT ![t] = <<x>>]
      /\ triggerTime' = [triggerTime EXCEPT ![t] = downtimes[d].earliest]
      /\ announced' = [announced EXCEPT ![d] = @ \cup {"start"}]
  BY <1>1 DEF StartFixed, Trigger
<1>4. Life(d) # "none"
  BY DEF Registered, Life
<1>5. now >= Window(d).start
  BY WhenTriggered DEF IInv
<1>6. downtimes[d].earliest \in Nat /\ downtimes[d].earliest > 0 /\ downtimes[d].earliest <= now
  BY <1>4, <1>5, Values DEF IInv, TimesOK
<1>7. /\ announced' \in [Names -> SUBSET {"start", "end"}]
      /\ \A e \in Names : /\ announced[e] \subseteq announced'[e]
                          /\ "end" \in announced'[e] => "end" \in announced[e]
                          /\ Life(e) = "none" => announced'[e] = announced[e]
  BY <1>3, <1>4 DEF IInv, DowntimeTypeOK
<1>8. PICK v : v = downtimes[d].earliest
  OBVIOUS
<1> QED
  BY <1>2, <1>3, <1>4, <1>5, <1>6, <1>7, <1>8, CallBegins

\* The start timer comes to a downtime.
LEMMA StartTimerKeeps == ASSUME IInv, NEW d \in Names, DowntimesStartTimerHandler(d) PROVE IInv'
<1>1. /\ calls["timer"] = <<>> /\ Registered(d) /\ CanBeTriggered(d) /\ StartFixed("timer", d)
      /\ UNCHANGED <<now, downtimes, triggers, cleanup, request, unannounced, overrun, late>>
  BY DEF DowntimesStartTimerHandler, Room, requestVars
<1>2. "timer" \in Threads /\ "request" \in Threads /\ request \in RequestRecord
  BY DEF Threads, IInv, DowntimeTypeOK
<1>3. calls'["request"] = calls["request"]
  BY <1>1, <1>2 DEF StartFixed, IInv, DowntimeTypeOK
<1>4. RequestOK'
  BY <1>1, <1>3 DEF IInv, RequestOK, Life
<1> QED
  BY <1>1, <1>2, <1>4, StartFixedKeeps

-----------------------------------------------------------------------------
(* Requests                                                                  *)

\* A step of the request that triggers nothing.
LEMMA RequestOnly ==
    ASSUME IInv, request' \in RequestRecord, RequestOK',
           triggerTime' \in [Threads -> Nat],
           \A t \in Threads : triggerTime'[t] <= now /\ (calls[t] # <<>> => triggerTime'[t] > 0),
           UNCHANGED <<now, downtimes, triggers, cleanup, calls, announced, unannounced, overrun, late>>
    PROVE  IInv'
<1>1. Frames' = Frames /\ \A e : AtSetup(e)' = AtSetup(e)
  BY SameCalls
<1>2. DowntimeTypeOK'
  BY DEF IInv, DowntimeTypeOK
<1>3. TimesOK' /\ NamesOK' /\ Heard' /\ TakenAlong'
  BY <1>1 DEF IInv, TimesOK, NamesOK, Heard, TakenAlong, Life, Window, TriggeredAt
<1>4. CleanupComes' /\ CallbackInTime'
  BY <1>1 DEF IInv, CleanupComes, CallbackInTime, CleanupTime, IsExpired, IsTriggered, IsInEffect, AtTop, Top, Life
<1> QED
  BY <1>2, <1>3, <1>4 DEF IInv

\* Start triggers the downtime, if it is time.
LEMMA StartTriggerKeeps == ASSUME IInv, StartTrigger PROVE IInv'
<1>1. PICK d : d = request.name
  OBVIOUS
<1>2. /\ request.pc = "trigger" /\ request' = [request EXCEPT !.pc = "started"]
      /\ UNCHANGED <<now, downtimes, triggers, cleanup, unannounced, overrun, late>>
  BY DEF StartTrigger
<1>3. /\ d \in Names /\ Life(d) = "starting" /\ calls["request"] = <<>> /\ Registered(d)
      /\ "request" \in Threads /\ d # NoName
  BY <1>1, <1>2, DowntimeAssumption DEF IInv, RequestOK, Registered, Life, Threads
<1>4. request' \in RequestRecord /\ RequestOK'
  BY <1>1, <1>2, <1>3 DEF IInv, DowntimeTypeOK, RequestRecord, RequestOK, Life
<1>5. CASE ~Window(d).fixed /\ \E changed \in 0 .. now :
                 /\ triggerTime' = [triggerTime EXCEPT !["request"] =
                        IF CanBeTriggered(d) THEN Later(downtimes[d].earliest, changed) ELSE 0]
                 /\ calls' = [calls EXCEPT !["request"] = Trigger(<<>>, d)]
                 /\ UNCHANGED announced
  <2>1. PICK changed \in 0 .. now :
                 /\ triggerTime' = [triggerTime EXCEPT !["request"] =
                        IF CanBeTriggered(d) THEN Later(downtimes[d].earliest, changed) ELSE 0]
                 /\ calls' = [calls EXCEPT !["request"] = Trigger(<<>>, d)]
                 /\ UNCHANGED announced
    BY <1>5
  <2>2. announced \in [Names -> SUBSET {"start", "end"}] /\ now \in Nat
    BY DEF IInv, DowntimeTypeOK
  <2>3. CASE CanBeTriggered(d)
    <3>1. PICK x : x = Call(d, "set", {})
      OBVIOUS
    <3>2. x \in CallRecord /\ x.pc = "set" /\ x.name = d
      BY <1>3, <3>1 DEF Call, CallRecord
    <3>3. PICK v : v = Later(downtimes[d].earliest, changed)
      OBVIOUS
    <3>4. now >= Window(d).start
      BY <1>3, <2>3, WhenTriggered DEF IInv
    <3>5. v \in Nat /\ v > 0 /\ v <= now
      <4>1. downtimes[d].earliest \in Nat /\ downtimes[d].earliest > 0 /\ downtimes[d].earliest <= now
        BY <1>3, <3>4, Values DEF IInv, TimesOK
      <4> QED
        BY <2>2, <3>3, <4>1 DEF Later
    <3>6. calls' = [calls EXCEPT !["request"] = <<x>>] /\ triggerTime' = [triggerTime EXCEPT !["request"] = v]
      BY <2>1, <2>3, <3>1, <3>3 DEF Trigger
    <3> QED
      BY <1>2, <1>3, <1>4, <2>1, <2>2, <3>2, <3>4, <3>5, <3>6, CallBegins
  <2>4. CASE ~CanBeTriggered(d)
    <3>1. calls' = calls /\ triggerTime' = [triggerTime EXCEPT !["request"] = 0]
      BY <1>3, <2>1, <2>4 DEF Trigger, IInv, DowntimeTypeOK
    <3>2. /\ triggerTime' \in [Threads -> Nat]
          /\ \A t \in Threads : triggerTime'[t] <= now /\ (calls[t] # <<>> => triggerTime'[t] > 0)
      BY <1>3, <2>2, <3>1 DEF IInv, TimesOK, DowntimeTypeOK
    <3> QED
      BY <1>2, <1>4, <2>1, <3>1, <3>2, RequestOnly
  <2> QED
    BY <2>3, <2>4
<1>6. CASE CanBeTriggered(d) /\ StartFixed("request", d)
  BY <1>2, <1>3, <1>4, <1>6, StartFixedKeeps
<1>7. CASE UNCHANGED <<announced, triggerTime, calls>>
  <2>1. /\ triggerTime \in [Threads -> Nat]
        /\ \A t \in Threads : triggerTime[t] <= now /\ (calls[t] # <<>> => triggerTime[t] > 0)
    BY DEF IInv, TimesOK, DowntimeTypeOK
  <2> QED
    BY <1>2, <1>4, <1>7, <2>1, RequestOnly
<1> QED
  BY <1>1, <1>5, <1>6, <1>7 DEF StartTrigger, Window

\* An object comes into being under a name that nothing refers to.
LEMMA CreateKeeps ==
    ASSUME IInv, NEW d \in Unused, NEW c \in Checkables, NEW w \in Windows,
           NEW parent \in Names \cup {NoName}, Create(d, c, w, parent),
           request' \in RequestRecord,
           request.pc \in {"idle", "children"}, request'.pc = "trigger", request'.name = d,
           request'.first \in Names, request'.first = d \/ Life(request'.first) # "none",
           request'.trigger \in {NoName, request'.first},
           UNCHANGED <<now, triggers, cleanup, calls, triggerTime, announced, unannounced, overrun, late>>
    PROVE  IInv'
<1>1. d \in Names /\ Life(d) = "none"
  BY DEF Unused, Life
<1>2. Frames' = Frames /\ \A e : AtSetup(e)' = AtSetup(e)
  BY SameCalls
<1>w. w.start \in Nat /\ w.start > 0 /\ now \in Nat /\ now > 0
  BY DowntimeAssumption DEF IInv, DowntimeTypeOK
<1>3. /\ Later(w.start, now) \in Nat /\ Later(w.start, now) > 0
      /\ Later(w.start, now) <= now \/ Later(w.start, now) <= w.start
  BY <1>w DEF Later
<1>4. /\ downtimes' \in [Names -> DowntimeRecord]
      /\ \A e \in Names \ {d} : downtimes'[e] = downtimes[e]
      /\ Window(d)' = w /\ Life(d)' = "starting" /\ TriggeredAt(d)' = 0
      /\ downtimes'[d].earliest = Later(w.start, now) /\ downtimes'[d].paused = TRUE
  BY <1>1, <1>3 DEF Create, IInv, DowntimeTypeOK, DowntimeRecord, Window, Life, TriggeredAt
<1>5. \A e \in Names \ {d} : Window(e)' = Window(e) /\ Life(e)' = Life(e) /\ TriggeredAt(e)' = TriggeredAt(e)
  BY <1>4 DEF Window, Life, TriggeredAt
<1>6. /\ announced[d] = {} /\ triggers[d] = {} /\ \A p \in Names : d \notin triggers[p]
      /\ \A f \in Frames : /\ f.name \in (Names \ {d}) \cup {NoName}
                           /\ f.name = NoName => d \notin f.todo
  BY <1>1, FrameTypes, DowntimeAssumption DEF IInv, NamesOK
<1>7. DowntimeTypeOK'
  BY <1>4 DEF IInv, DowntimeTypeOK
<1>8. TimesOK'
  <2>1. \A t \in Threads : (triggerTime[t] <= now /\ (calls[t] # <<>> => triggerTime[t] > 0))'
    BY DEF IInv, TimesOK
  <2>2. \A e \in Names : (/\ TriggeredAt(e) <= now
                          /\ downtimes[e].earliest <= now \/ downtimes[e].earliest <= Window(e).start
                          /\ Life(e) # "none" => downtimes[e].earliest > 0
                          /\ TriggeredAt(e) # 0 => now >= Window(e).start)'
    BY <1>w, <1>3, <1>4, <1>5 DEF IInv, TimesOK
  <2>3. \A f \in Frames' : f.name # NoName => now' >= Window(f.name)'.start
    BY <1>2, <1>5, <1>6 DEF IInv, TimesOK
  <2> QED
    BY <2>1, <2>2, <2>3 DEF TimesOK
<1>9. RequestOK'
  BY <1>1, <1>4, <1>5 DEF IInv, RequestOK
<1>10. NamesOK'
  <2>1. NamesOK
    BY DEF IInv
  <2>2. \A f \in Frames : \A e \in f.todo : e \in Names
    BY FrameTypes DEF IInv
  <2>3. \A p \in Names : \A e \in triggers[p] : e \in Names \ {d}
    BY <1>6 DEF IInv, DowntimeTypeOK
  <2> QED
    BY <1>2, <1>4, <1>5, <1>6, <2>1, <2>2, <2>3 DEF NamesOK
<1>11. Heard'
  BY <1>2, <1>4, <1>5, <1>6 DEF IInv, Heard
<1>12. \A e \in Names \ {d} : CleanupTime(e)' = CleanupTime(e) /\ IsExpired(e)' = IsExpired(e)
  BY <1>4 DEF CleanupTime, IsExpired, IsTriggered, IsInEffect
<1>13. CleanupComes'
  BY <1>2, <1>4, <1>12 DEF IInv, CleanupComes, AtSetup, Life
<1>14. CallbackInTime'
  BY <1>2, <1>4, <1>5, <1>12 DEF IInv, CallbackInTime
<1>15. TakenAlong'
  <2>1. \A p \in Names : \A e \in triggers[p] : p # d /\ e \in Names \ {d}
    BY <1>6 DEF IInv, DowntimeTypeOK
  <2> QED
    BY <1>2, <1>5, <2>1 DEF IInv, TakenAlong
<1> QED
  BY <1>7, <1>8, <1>9, <1>10, <1>11, <1>13, <1>14, <1>15 DEF IInv

\* A downtime is scheduled.
LEMMA ScheduleDowntimeKeeps ==
    ASSUME IInv, NEW c \in Checkables, NEW w \in Windows, NEW option \in Options,
           ScheduleDowntime(c, w, option)
    PROVE  IInv'
<1>1. PICK children : children = IF option = "DowntimeNoChildren" THEN {} ELSE Children[c]
  OBVIOUS
<1>2. PICK d \in Unused :
          /\ Create(d, c, w, NoName)
          /\ request' = [pc |-> "trigger", name |-> d, first |-> d, trigger |-> NoName,
                         children |-> children, option |-> option]
  BY <1>1 DEF ScheduleDowntime
<1>3. /\ request.pc = "idle"
      /\ UNCHANGED <<now, triggers, cleanup, calls, triggerTime, announced, unannounced, overrun, late>>
  BY DEF ScheduleDowntime, threadVars, historyVars
<1>4. d \in Names /\ request' \in RequestRecord
  BY <1>1, <1>2, DowntimeAssumption DEF RequestRecord, Unused
<1> QED
  BY <1>2, <1>3, <1>4, CreateKeeps

\* The downtime of a child is scheduled.
LEMMA ScheduleChildKeeps == ASSUME IInv, ScheduleChild PROVE IInv'
<1>1. PICK c \in request.children, d \in Unused :
          /\ Create(d, c, downtimes[request.first].window, request.first)
          /\ request' = [request EXCEPT !.pc = "trigger", !.name = d, !.children = @ \ {c},
                !.trigger = IF request.option = "DowntimeTriggeredChildren"
                            THEN request.first ELSE @]
  BY DEF ScheduleChild
<1>2. /\ request.pc = "children" /\ request \in RequestRecord
      /\ UNCHANGED <<now, triggers, cleanup, calls, triggerTime, announced, unannounced, overrun, late>>
  BY DEF ScheduleChild, threadVars, historyVars, IInv, DowntimeTypeOK
<1>3. /\ request.first \in Names /\ Life(request.first) # "none" /\ d \in Names /\ c \in Checkables
      /\ request.trigger \in {NoName, request.first}
  BY <1>1, <1>2 DEF IInv, RequestOK, Unused, RequestRecord
<1>4. PICK w : w = downtimes[request.first].window
  OBVIOUS
<1>5. w \in Windows
  BY <1>3, <1>4, Values DEF IInv, Window
<1>6. /\ request' \in RequestRecord /\ request'.pc = "trigger" /\ request'.name = d
      /\ request'.first = request.first /\ request'.trigger \in {NoName, request.first}
  BY <1>1, <1>2, <1>3 DEF RequestRecord
<1>7. PICK parent : parent = request.first
  OBVIOUS
<1> QED
  BY <1>1, <1>2, <1>3, <1>4, <1>5, <1>6, <1>7, CreateKeeps

\* Start returns, and the downtime is linked to the one that triggers it.
LEMMA StartReturnKeeps == ASSUME IInv, StartReturn PROVE IInv'
<1>1. PICK n, p : n = request.name /\ p = request.trigger
  OBVIOUS
<1>2. /\ request.pc = "started" /\ calls["request"] = <<>> /\ request \in RequestRecord
      /\ downtimes' = [downtimes EXCEPT ![n].life = "started"]
      /\ request' = IF request.children = {} THEN Idle ELSE [request EXCEPT !.pc = "children"]
      /\ UNCHANGED <<now, cleanup, calls, triggerTime, announced, unannounced, overrun>>
  BY <1>1 DEF StartReturn, threadVars, IInv, DowntimeTypeOK
<1>3. /\ n \in Names /\ Life(n) = "starting" /\ downtimes[n].paused /\ request.first \in Names
      /\ Life(request.first) # "none" /\ p \in {NoName, request.first} /\ NoName \notin Names
  BY <1>1, <1>2, DowntimeAssumption DEF IInv, RequestOK, NamesOK
<1>4. /\ downtimes' \in [Names -> DowntimeRecord]
      /\ \A e \in Names : /\ Window(e)' = Window(e) /\ TriggeredAt(e)' = TriggeredAt(e)
                          /\ downtimes'[e].earliest = downtimes[e].earliest
                          /\ downtimes'[e].paused = downtimes[e].paused
                          /\ e # n => downtimes'[e] = downtimes[e] /\ Life(e)' = Life(e)
      /\ Life(n)' = "started"
  <2>1. downtimes \in [Names -> DowntimeRecord]
    BY DEF IInv, DowntimeTypeOK
  <2>2. \A e \in Names \ {n} : downtimes'[e] = downtimes[e]
    BY <1>2, <2>1
  <2>3. downtimes'[n] = [downtimes[n] EXCEPT !.life = "started"] /\ downtimes[n] \in DowntimeRecord
    BY <1>2, <1>3, <2>1
  <2>4. /\ Window(n)' = Window(n) /\ Life(n)' = "started" /\ TriggeredAt(n)' = TriggeredAt(n)
        /\ downtimes'[n].earliest = downtimes[n].earliest
        /\ downtimes'[n].paused = downtimes[n].paused /\ downtimes'[n] \in DowntimeRecord
    BY <2>3 DEF DowntimeRecord, Window, Life, TriggeredAt
  <2>5. downtimes' \in [Names -> DowntimeRecord]
    BY <1>2, <2>1, <2>2, <2>4
  <2> QED
    BY <2>2, <2>4, <2>5 DEF Window, Life, TriggeredAt
<1>5. /\ triggers' \in [Names -> SUBSET Names] /\ late \subseteq late' /\ late' \subseteq Names
      /\ \A q \in Names : \A e \in triggers'[q] :
            e \in triggers[q] \/ (e = n /\ q = p /\ (TriggeredAt(p) # 0 => n \in late'))
      /\ \A q \in Names : triggers'[q] # {} => triggers[q] # {} \/ q = p
  <2>1. triggers \in [Names -> SUBSET Names] /\ late \subseteq Names
    BY DEF IInv, DowntimeTypeOK
  <2>2. CASE p = NoName
    <3>1. triggers' = triggers /\ late' = late
      BY <1>1, <2>2 DEF StartReturn
    <3> QED
      BY <2>1, <3>1
  <2>3. CASE p # NoName
    <3>1. /\ triggers' = [triggers EXCEPT ![p] = @ \cup {n}]
          /\ late' = IF TriggeredAt(p) # 0 THEN late \cup {n} ELSE late
      BY <1>1, <2>3 DEF StartReturn, TriggeredAt
    <3> QED
      BY <1>3, <2>1, <2>3, <3>1
  <2> QED
    BY <2>2, <2>3
<1>6. Frames' = Frames /\ \A e : AtSetup(e)' = AtSetup(e)
  BY <1>2, SameCalls
<1>7. request' \in RequestRecord /\ RequestOK'
  <2>1. CASE request.children = {}
    BY <1>2, <2>1 DEF Idle, RequestRecord, RequestOK
  <2>2. CASE request.children # {}
    <3>1. /\ request' \in RequestRecord /\ request'.pc = "children"
          /\ request'.first = request.first /\ request'.trigger = p
      BY <1>1, <1>2, <2>2 DEF RequestRecord
    <3>2. downtimes'[request.first].life # "none"
      BY <1>3, <1>4 DEF Life
    <3> QED
      BY <1>2, <1>3, <3>1, <3>2 DEF RequestOK, Life
  <2> QED
    BY <2>1, <2>2
<1>8. DowntimeTypeOK'
  BY <1>2, <1>4, <1>5, <1>7 DEF IInv, DowntimeTypeOK
<1>f. \A f \in Frames : f.name \in Names \cup {NoName} /\ \A e \in f.todo : e \in Names
  BY FrameTypes DEF IInv
<1>9. TimesOK'
  <2>1. \A e \in Names : Life(e)' # "none" => Life(e) # "none"
    BY <1>3, <1>4
  <2> QED
    BY <1>2, <1>4, <1>6, <1>f, <2>1 DEF IInv, TimesOK
<1>10. NamesOK'
  <2>1. NamesOK
    BY DEF IInv
  <2>2. \A e \in Names : Life(e)' = "none" => Life(e) = "none" /\ e # p
    BY <1>3, <1>4
  <2>3. ASSUME NEW q \in Names, NEW e \in triggers'[q] PROVE Life(e)' \in {"started", "removed"}
    <3>1. e \in Names
      BY <1>5
    <3> QED
      BY <1>4, <1>5, <2>1, <3>1 DEF NamesOK
  <2>4. \A e \in Names : Life(e)' = "none" => triggers'[e] = {}
    BY <1>5, <2>1, <2>2 DEF NamesOK
  <2>5. \A e \in Names : Life(e)' = "starting" => downtimes'[e].paused
    BY <1>4, <2>1 DEF NamesOK
  <2>6. ASSUME NEW f \in Frames'
        PROVE  /\ f.name # NoName => Life(f.name)' # "none"
               /\ f.name = NoName => f.pc = "each" /\ \A e \in f.todo : Life(e)' # "none"
    BY <1>6, <1>f, <2>1, <2>2 DEF NamesOK
  <2> QED
    BY <1>2, <2>1, <2>2, <2>3, <2>4, <2>5, <2>6 DEF NamesOK
<1>11. Heard'
  BY <1>2, <1>4, <1>6 DEF IInv, Heard
<1>12. \A e \in Names \ {n} : CleanupTime(e)' = CleanupTime(e) /\ IsExpired(e)' = IsExpired(e)
  BY <1>2, <1>4 DEF CleanupTime, IsExpired, IsTriggered, IsInEffect
<1>13. CleanupComes'
  BY <1>2, <1>3, <1>4, <1>6, <1>12 DEF IInv, CleanupComes, AtSetup, Life
<1>14. CallbackInTime'
  BY <1>2, <1>3, <1>4, <1>6, <1>12 DEF IInv, CallbackInTime
<1>15. TakenAlong'
  <2> SUFFICES ASSUME NEW q \in Names, NEW e \in triggers'[q],
                      (/\ ~Window(q).fixed /\ TriggeredAt(q) # 0
                       /\ Window(e) = Window(q) /\ e \notin late)'
               PROVE  (\/ Life(e) = "removed"
                       \/ TriggeredAt(e) # 0
                       \/ Window(e).end < now
                       \/ \E f \in Frames : Reaches(f, q, e))'
    BY DEF TakenAlong
  <2>1. e \in Names /\ TriggeredAt(q) # 0 /\ e \in triggers[q] /\ e \notin late
    BY <1>4, <1>5
  <2>2. e # n
    BY <1>3, <2>1 DEF IInv, NamesOK
  <2> QED
    BY <1>2, <1>4, <1>6, <2>1, <2>2 DEF IInv, TakenAlong
<1> QED
  BY <1>7, <1>8, <1>9, <1>10, <1>11, <1>13, <1>14, <1>15 DEF IInv

-----------------------------------------------------------------------------
(* The theorems                                                              *)

\* Every step keeps the invariant.
LEMMA StepsKeep == ASSUME IInv, [DowntimeNext]_downtimeVars PROVE IInv'
<1>1. CASE UNCHANGED downtimeVars
  <2>1. UNCHANGED <<now, downtimes, triggers, cleanup, calls, triggerTime, request, announced,
                    unannounced, overrun, late>>
    BY <1>1 DEF downtimeVars
  <2>2. /\ request' \in RequestRecord /\ RequestOK' /\ triggerTime' \in [Threads -> Nat]
        /\ \A t \in Threads : triggerTime'[t] <= now /\ (calls[t] # <<>> => triggerTime'[t] > 0)
    BY <2>1 DEF IInv, DowntimeTypeOK, RequestOK, Life, TimesOK
  <2> QED
    BY <2>1, <2>2, RequestOnly
<1>2. CASE \E c \in Checkables : ProcessBadResult(c)
  BY <1>2, ProcessBadResultKeeps
<1>3. CASE \E d \in Names : DowntimesStartTimerHandler(d)
  BY <1>3, StartTimerKeeps
<1>4. CASE \E d \in Names : CleanupBegin(d) \/ CleanupEnd(d)
  BY <1>4, CleanupBeginKeeps, CleanupEndKeeps
<1>5. CASE \E d \in Names : Resume(d) \/ Pause(d)
  BY <1>5, AuthorityKeeps
<1>6. CASE \E d \in Names : \E includeChildren \in BOOLEAN : RemoveDowntime(d, includeChildren)
  BY <1>6, RemoveDowntimeKeeps
<1>7. CASE \E t \in Threads : ThreadStep(t)
  BY <1>7, SetTriggerTimeKeeps, SetupAndLockKeeps, TriggerNextKeeps, TriggerReturnKeeps DEF ThreadStep
<1>8. CASE \E c \in Checkables, w \in Windows, o \in Options : ScheduleDowntime(c, w, o)
  BY <1>8, ScheduleDowntimeKeeps
<1>9. CASE RequestStep
  BY <1>9, StartTriggerKeeps, StartReturnKeeps, ScheduleChildKeeps DEF RequestStep
<1>10. CASE Tick
  BY <1>10, TickKeeps
<1> QED
  BY <1>1, <1>2, <1>3, <1>4, <1>5, <1>6, <1>7, <1>8, <1>9, <1>10 DEF DowntimeNext

\* The invariant always holds.
LEMMA Invariance == DowntimeSpec => []IInv
<1>1. DowntimeInit => IInv
  BY Initially
<1>2. IInv /\ [DowntimeNext]_downtimeVars => IInv'
  BY StepsKeep
<1> QED
  BY <1>1, <1>2, PTL DEF DowntimeSpec

\* OnDowntimeRemoved against OnDowntimeStarted and OnDowntimeTriggered: the end of a
\* downtime is announced only after its start, for any number of threads that trigger,
\* expire and remove it at the same time.
THEOREM StartIsHeard == DowntimeSpec => []EndFollowsStart
<1>1. IInv => EndFollowsStart
  <2> SUFFICES ASSUME IInv, NEW d \in Names, "end" \in announced[d],
                      "start" \notin announced[d], d \notin unannounced
               PROVE  Busy(d)
    BY DEF EndFollowsStart
  <2>1. PICK f \in Frames : f.name = d
    BY DEF IInv, Heard
  <2> QED
    BY <2>1 DEF Busy, Frames, FramesOf
<1> QED
  BY <1>1, Invariance, PTL

\* SetupCleanupTimer: the cleanup timer of a downtime that the node is responsible for is
\* set to the time of its expiry, except if it is set while its callback runs.
THEOREM ExpiredIsRemoved == DowntimeSpec => []CleanupComes
<1>1. IInv => CleanupComes
  BY DEF IInv
<1> QED
  BY <1>1, Invariance, PTL

\* TriggerDowntime: when nothing is under way, what a downtime in effect triggers is or was
\* in effect too, except if it was linked after the downtime had been triggered.
THEOREM ChildrenAreTaken == DowntimeSpec => []ChildrenFollow
<1>1. IInv => ChildrenFollow
  <2> SUFFICES ASSUME IInv, \A t \in Threads : calls[t] = <<>>,
                      NEW p \in Names, NEW d \in triggers[p], Registered(p), IsInEffect(p),
                      Registered(d), Window(d) = Window(p), d \notin late
               PROVE  IsInEffect(d) \/ IsExpired(d)
    BY DEF ChildrenFollow, Window
  <2>1. d \in Names /\ Frames = {}
    BY DEF IInv, DowntimeTypeOK, Frames, FramesOf
  <2>2. CASE Window(p).fixed
    BY <2>2 DEF IsInEffect, Window
  <2>3. CASE ~Window(p).fixed
    <3>1. TriggeredAt(p) # 0
      BY <2>3 DEF IsInEffect, Window, TriggeredAt
    <3>2. TriggeredAt(d) # 0 \/ Window(d).end < now
      BY <2>1, <2>3, <3>1 DEF IInv, TakenAlong, Registered, Life
    <3>3. TriggeredAt(d) <= now /\ TriggeredAt(d) \in Nat
      BY <2>1, Values DEF IInv, TimesOK
    <3> QED
      BY <2>1, <2>3, <3>2, <3>3, Values DEF IInv, IsInEffect, IsExpired, IsTriggered, Window, TriggeredAt
  <2> QED
    BY <2>2, <2>3
<1> QED
  BY <1>1, Invariance, PTL

=============================================================================

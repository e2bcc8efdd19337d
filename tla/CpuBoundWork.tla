---------------------------- MODULE CpuBoundWork ----------------------------
(***************************************************************************)
(* The slots for CPU-bound work of coroutines (CpuBoundWork and             *)
(* AsioConditionVariable, lib/base/io-engine.cpp). Slots are an atomic      *)
(* counter; a coroutine that finds none subscribes for a wake-up under a    *)
(* mutex and suspends; whoever frees the first slot takes all subscriptions *)
(* and posts a wake-up to each subscriber's strand. A posted wake-up runs   *)
(* only while its coroutine is suspended, as both run on one strand.        *)
(***************************************************************************)
EXTENDS Naturals, FiniteSets

CONSTANTS Coroutines,   \* coroutines that do CPU-bound work, each on its strand
          Slots,        \* what m_CpuBoundSemaphore starts with
          MaxWork       \* bound: how often each coroutine asks for a slot

ASSUME CpuBoundWorkAssumption ==
    /\ IsFiniteSet(Coroutines)
    /\ Slots \in Nat \ {0}
    /\ MaxWork \in Nat

VARIABLES freeSlots,    \* m_CpuBoundSemaphore
          waiting,      \* m_CpuBoundWaiting: the subscribed coroutines
          coroutine,    \* where each coroutine is
          posted,       \* wake-ups posted to a strand and not yet run
          wakes,        \* subscriptions a coroutine in Done() has taken
          asked         \* how often each coroutine asked

cpuVars == <<freeSlots, waiting, coroutine, posted, wakes, asked>>

CpuBoundInit ==
    /\ freeSlots = Slots
    /\ waiting = {}
    /\ coroutine = [c \in Coroutines |-> "idle"]
    /\ posted = {}
    /\ wakes = [c \in Coroutines |-> {}]
    /\ asked = [c \in Coroutines |-> 0]

At(c, place) == coroutine[c] = place
Goto(c, place) == coroutine' = [coroutine EXCEPT ![c] = place]

\* The compare-and-exchange loop of TryAcquireSlot ends in one of two ways.
TryAcquireSlot(c, success, failure) ==
    \/ /\ freeSlots > 0
       /\ freeSlots' = freeSlots - 1
       /\ Goto(c, success)
    \/ /\ freeSlots = 0
       /\ Goto(c, failure)
       /\ UNCHANGED freeSlots

-----------------------------------------------------------------------------
(* The constructor.                                                         *)

Construct(c) ==
    /\ At(c, "idle")
    /\ asked[c] < MaxWork
    /\ asked' = [asked EXCEPT ![c] = @ + 1]
    /\ Goto(c, "try")
    /\ UNCHANGED <<freeSlots, waiting, posted, wakes>>

FastPath(c) ==
    /\ At(c, "try")
    /\ TryAcquireSlot(c, "work", "slow")
    /\ UNCHANGED <<waiting, posted, wakes, asked>>

MutexFree == \A c \in Coroutines : ~At(c, "subscribe")

\* The second attempt is made without the mutex.
SlowPathUnlocked(c) ==
    /\ At(c, "slow")
    /\ Goto(c, "subscribe")
    /\ UNCHANGED <<freeSlots, waiting, posted, wakes, asked>>

\* Takes m_CpuBoundWaitingMutex and tries again.
SlowPath(c) ==
    /\ At(c, "slow")
    /\ MutexFree
    /\ TryAcquireSlot(c, "work", "subscribe")
    /\ UNCHANGED <<waiting, posted, wakes, asked>>

\* emplace_back(), the end of the lock, and the suspension in cv->Wait().
Subscribe(c) ==
    /\ At(c, "subscribe")
    /\ waiting' = waiting \cup {c}
    /\ Goto(c, "waiting")
    /\ UNCHANGED <<freeSlots, posted, wakes, asked>>

\* NotifyOne() runs on the strand, and the loop starts again.
WakeUp(c) ==
    /\ c \in posted
    /\ At(c, "waiting")
    /\ posted' = posted \ {c}
    /\ Goto(c, "try")
    /\ UNCHANGED <<freeSlots, waiting, wakes, asked>>

-----------------------------------------------------------------------------
(* Done().                                                                  *)

\* Only a slot freed when there was none wakes anybody up.
Release(c) ==
    /\ At(c, "work")
    /\ freeSlots' = freeSlots + 1
    /\ Goto(c, IF freeSlots = 0 THEN "wake" ELSE "idle")
    /\ UNCHANGED <<waiting, posted, wakes, asked>>

\* std::swap() under the mutex.
TakeSubscribers(c) ==
    /\ At(c, "wake")
    /\ MutexFree
    /\ wakes' = [wakes EXCEPT ![c] = waiting]
    /\ waiting' = {}
    /\ Goto(c, "posting")
    /\ UNCHANGED <<freeSlots, posted, asked>>

PostWakeUp(c) ==
    /\ At(c, "posting")
    /\ \/ /\ wakes[c] = {}
          /\ Goto(c, "idle")
          /\ UNCHANGED <<posted, wakes>>
       \/ \E d \in wakes[c] :
             /\ posted' = posted \cup {d}
             /\ wakes' = [wakes EXCEPT ![c] = @ \ {d}]
             /\ UNCHANGED coroutine
    /\ UNCHANGED <<freeSlots, waiting, asked>>

-----------------------------------------------------------------------------
CoroutineStep(c) ==
    \/ FastPath(c) \/ SlowPath(c) \/ Subscribe(c) \/ WakeUp(c)
    \/ Release(c) \/ TakeSubscribers(c) \/ PostWakeUp(c)

CpuBoundNext == \E c \in Coroutines : Construct(c) \/ CoroutineStep(c)

(* The I/O threads run every coroutine that is not suspended and every      *)
(* posted handler; CPU-bound work ends.                                     *)
CpuBoundFairness == \A c \in Coroutines : WF_cpuVars(CoroutineStep(c))

CpuBoundSpec == CpuBoundInit /\ [][CpuBoundNext]_cpuVars /\ CpuBoundFairness

-----------------------------------------------------------------------------
Places == {"idle", "try", "slow", "subscribe", "waiting", "work", "wake", "posting"}

\* Every variable has its type (IoEngine's members and the local variables).
CpuBoundTypeOK ==
    /\ freeSlots \in Nat
    /\ waiting \subseteq Coroutines
    /\ coroutine \in [Coroutines -> Places]
    /\ posted \subseteq Coroutines
    /\ wakes \in [Coroutines -> SUBSET Coroutines]
    /\ asked \in [Coroutines -> 0 .. MaxWork]

(* No lost wake-up: while a slot is free, no coroutine is subscribed unless *)
(* one in Done() is still about to take the subscriptions. And a suspended  *)
(* coroutine is subscribed, about to be sent its wake-up, or has been sent  *)
(* it, in exactly one of these places. Slots are neither lost nor invented  *)
(* on the way: the free ones and those in use are the ones there are.       *)
NoForgottenWaiter ==
    /\ freeSlots + Cardinality({c \in Coroutines : At(c, "work")}) = Slots
    /\ freeSlots > 0 /\ waiting # {} => \E c \in Coroutines : At(c, "wake")
    /\ \A c \in Coroutines :
          LET held == {d \in Coroutines : c \in wakes[d]}
          IN At(c, "waiting") <=>
                \/ c \in waiting /\ c \notin posted /\ held = {}
                \/ c \notin waiting /\ c \in posted /\ held = {}
                \/ c \notin waiting /\ c \notin posted /\ Cardinality(held) = 1

=============================================================================

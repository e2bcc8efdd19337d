------------------------------ MODULE TaskPool ------------------------------
(***************************************************************************)
(* What users of icinga::WorkQueue (lib/base/workqueue.hpp) rely on, with   *)
(* no threads, mutex, condition variables or limit: tasks are handed in,    *)
(* each one starts once, the most urgent first and equals in the order they *)
(* were handed in, and everything handed in is eventually finished.         *)
(* WorkQueue.tla is shown to implement this specification.                  *)
(***************************************************************************)
EXTENDS Naturals

CONSTANTS Tasks,      \* every task that is ever handed in
          Priority    \* Priority[t]: a larger number is more urgent

VARIABLES waiting,    \* tasks handed in and not started
          started,    \* tasks being executed
          finished,   \* tasks executed
          ticket      \* ticket[t]: when t was handed in, 0 if it was not

poolVars == <<waiting, started, finished, ticket>>

Known == waiting \cup started \cup finished

\* s goes before t.
Before(s, t) ==
    \/ Priority[s] > Priority[t]
    \/ Priority[s] = Priority[t] /\ ticket[s] < ticket[t]

PoolInit ==
    /\ waiting = {}
    /\ started = {}
    /\ finished = {}
    /\ ticket = [t \in Tasks |-> 0]

Submit(t) ==
    /\ t \notin Known
    /\ waiting' = waiting \cup {t}
    /\ ticket' = [ticket EXCEPT ![t] = ticket'[t]]
    /\ ticket'[t] \in Nat
    /\ \A s \in Tasks : ticket[s] < ticket'[t]
    /\ UNCHANGED <<started, finished>>

Start(t) ==
    /\ t \in waiting
    /\ \A s \in waiting \ {t} : Before(t, s)
    /\ waiting' = waiting \ {t}
    /\ started' = started \cup {t}
    /\ UNCHANGED <<finished, ticket>>

Finish(t) ==
    /\ t \in started
    /\ started' = started \ {t}
    /\ finished' = finished \cup {t}
    /\ UNCHANGED <<waiting, ticket>>

\* A task that another task calls at once instead of handing it in.
CallDirectly(t) ==
    /\ t \notin Known
    /\ started # {}
    /\ finished' = finished \cup {t}
    /\ UNCHANGED <<waiting, started, ticket>>

PoolNext == \E t \in Tasks : Submit(t) \/ Start(t) \/ Finish(t) \/ CallDirectly(t)

Drained == \A t \in Tasks : t \in waiting \cup started ~> t \in finished

PoolSpec == PoolInit /\ [][PoolNext]_poolVars /\ Drained

=============================================================================

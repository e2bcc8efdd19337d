----------------------------- MODULE MCDowntime -----------------------------
(* A host and its child, with a flexible and a fixed downtime.               *)
EXTENDS Downtime, TLC

MCChildren == ("parent" :> {"child"}) @@ ("child" :> {})
MCWindows == {[start |-> 2, end |-> 2, fixed |-> FALSE, duration |-> 1],
              [start |-> 2, end |-> 3, fixed |-> TRUE, duration |-> 0]}
=============================================================================

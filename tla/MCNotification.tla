---------------------------- MODULE MCNotification ----------------------------
(* Two users for the notification object: plain takes everything, critical     *)
(* only wants to hear of critical problems.                                    *)
EXTENDS Notification

MCUsers == {"plain", "critical"}
MCStates == {"OK", "WARNING", "CRITICAL"}
MCUserTypes == [u \in MCUsers |-> Types]
MCUserStates ==
    [u \in MCUsers |-> IF u = "plain" THEN MCStates ELSE {"CRITICAL"}]
=============================================================================

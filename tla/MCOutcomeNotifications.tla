----------------------- MODULE MCOutcomeNotifications -----------------------
(* Three outcomes; the last one to complete is the most urgent.              *)
EXTENDS OutcomeNotifications, TLC

MCDecisions == {1, 2, 3}
MCUrgency   == 1 :> 2 @@ 2 :> 1 @@ 3 :> 0
=============================================================================

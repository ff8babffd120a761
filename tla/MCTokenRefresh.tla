---------------------------- MODULE MCTokenRefresh ----------------------------
(* The two timers, one every quarter of an hour, one every hour.           *)
EXTENDS TokenRefresh

CONSTANTS quarterly, hourly

Period == [t \in {quarterly, hourly} |-> IF t = quarterly THEN 1 ELSE 4]
=============================================================================

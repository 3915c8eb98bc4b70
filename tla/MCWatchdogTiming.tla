---------------------------- MODULE MCWatchdogTiming ----------------------------
(* Every combination of small timings, accepted by validate or not. *)
EXTENDS WatchdogTiming

MCOffers == [check_timeout : 1..3, heartbeat_interval : 1..3, check_interval : 1..4,
             service_timeout : {4, 8, 9}, readiness_timeout : {2, 4, 5},
             observation_max_age : {2, 4, 6}]
================================================================================

-------------------------------- MODULE MCJobs --------------------------------
(* Instance of Jobs for TLC: jobs that share a scope and one that fails.   *)
EXTENDS Jobs

CONSTANTS a, b, dl, kotlin

MCScopeOf == [j \in Job |-> dl]
MCSteps   == [j \in Job |-> 1]
MCFailAt  == [j \in Job |-> IF j = b THEN 1 ELSE 0]
MCEcho    == [job |-> NoJob, what |-> "echo", step |-> 0]
MCEvent   == [job : Job, what : {"started", "progress"} \cup Outcomes, step : 0 .. 2]
               \cup {MCEcho}

(* RcEventBus is there first; the re-entrant callback may replace it.      *)
MCInit == JobsInit /\ sink = kotlin
MCSpec == MCInit /\ [][JobsNext]_vars /\ JobsFairness
===============================================================================

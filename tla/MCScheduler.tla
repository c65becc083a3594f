----------------------------- MODULE MCScheduler -----------------------------
(* Small instances of Scheduler: an hourly job without and a daily one with a *)
(* report, at intervals of a few ticks.                                       *)
EXTENDS Scheduler

CONSTANTS Hourly, Daily, Hour, Day, Job1, Job2

MCJobs == IF Job1 = Job2 THEN <<Job1>> ELSE <<Job1, Job2>>
MCInterval == [j \in {Job1, Job2} |-> IF j = Hourly THEN Hour ELSE Day]

==============================================================================

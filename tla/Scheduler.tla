------------------------------- MODULE Scheduler -------------------------------
(***************************************************************************)
(* The Intelligence Scheduler: one task that, tick after tick, visits      *)
(* every active company and runs the jobs intelligence_job_runs says are   *)
(* due.  A job's cycle (module Intelligence) either completes or raises;   *)
(* the job is marked as run in both cases, and a raise ends the tick.      *)
(*                                                                         *)
(* Time is counted in ticks, and last_run_at by its age in ticks.          *)
(***************************************************************************)
EXTENDS Naturals, Sequences, FiniteSets, SequencesExt

CONSTANTS
    Companies,    \* companies with an intelligence_status row, in time
    Failing,      \* those whose cycle or report may raise
    Jobs,         \* the keys of _JOBS, in its order
    Interval,     \* ticks between two runs of a job
    Reporting,    \* _REPORT_TYPES: the jobs that store a report
    MaxCrashes    \* bound: failing statements and restarts explored

JobSet == ToSet(Jobs)

ASSUME CompaniesAssumption == IsFiniteSet(Companies) /\ Failing \subseteq Companies
ASSUME JobsAssumption == /\ Jobs \in Seq(JobSet) /\ Jobs # <<>>
                         /\ Reporting \subseteq JobSet
                         /\ Interval \in [JobSet -> Nat \ {0}]
ASSUME CrashAssumption == MaxCrashes \in Nat

VARIABLES
    active,    \* companies whose intelligence_status.active is true
    stage,     \* where the scheduler's task is
    todo,      \* companies left in this tick, the one being visited first
    left,      \* jobs left for that company, the one being looked at first
    raised,    \* whether the job being marked raised
    age,       \* ticks since last_run_at, up to the interval; due from there on
    fresh,     \* ticks since the last report, up to the interval
    late,      \* history: ticks a due job has been waiting
    struck,    \* history: jobs whose last run a crash has cut short
    crashes    \* crashes so far

rows == <<age, fresh>>
loops == <<todo, left>>
vars == <<active, stage, loops, raised, rows, late, struck, crashes>>

-----------------------------------------------------------------------------
C == Head(todo)
J == Head(left)
Clear(table) == [table EXCEPT ![C][J] = 0]

\* Mutant: every job is held to the interval of the first.
DueByFirst(c, j) == age[c][j] >= Interval[Jobs[1]]

\* last_run_at is an interval ago, or there is none.
Due(c, j) == age[c][j] = Interval[j]
Older(ages) == [c \in Companies |-> [j \in JobSet |->
                   IF ages[c][j] < Interval[j] THEN ages[c][j] + 1 ELSE Interval[j]]]

\* How late failures may make a job: each failing job and each crash ends one
\* tick, and a company activated during a tick is first seen by the next.
Patience == Cardinality(Failing) * Len(Jobs) + MaxCrashes + 1

\* The next turn of the inner loop of _tick, or of the outer one.
NextJob ==
    /\ left' = IF Tail(left) = <<>> THEN Jobs ELSE Tail(left)
    /\ todo' = IF Tail(left) = <<>> THEN Tail(todo) ELSE todo

\* An exception leaves both loops.
EndTick == todo' = <<>> /\ left' = Jobs

\* The job that is being run, if one is.
Running == stage \in {"cycle", "report", "mark"}
Current == IF Running THEN {<<C, J>>} ELSE {}

Init ==
    /\ active = {}
    /\ stage = "tick"
    /\ todo = <<>>
    /\ left = Jobs
    /\ raised = FALSE
    /\ age = [c \in Companies |-> Interval]
    /\ fresh = [c \in Companies |-> Interval]
    /\ late = [c \in Companies |-> [j \in JobSet |-> 0]]
    /\ struck = {}
    /\ crashes = 0

-----------------------------------------------------------------------------
\* A Blueprint of company c is published (module Blueprint).
Activate(c) ==
    /\ c \notin active
    /\ active' = active \cup {c}
    /\ UNCHANGED <<stage, loops, raised, rows, late, struck, crashes>>

\* _tick reads the active companies, in whatever order Postgres returns them.
StartTick ==
    /\ stage = "tick"
    /\ todo' \in SetToSeqs(active)
    /\ stage' = "visit"
    /\ UNCHANGED <<active, left, raised, rows, late, struck, crashes>>

\* _is_due of the next job; a company that has no row yet is due.
CheckDue ==
    /\ stage = "visit"
    /\ todo # <<>>
    /\ IF Due(C, J)
       THEN stage' = "cycle" /\ late' = Clear(late) /\ UNCHANGED loops
       ELSE NextJob /\ UNCHANGED <<stage, late>>
    /\ UNCHANGED <<active, raised, rows, struck, crashes>>

\* run_cycle completes, or raises.
RunCycle ==
    /\ stage = "cycle"
    /\ \/ /\ stage' = IF J \in Reporting THEN "report" ELSE "mark"
          /\ UNCHANGED raised
       \/ /\ C \in Failing
          /\ stage' = "mark"
          /\ raised' = TRUE
    /\ UNCHANGED <<active, loops, rows, late, struck, crashes>>

\* generate_report inserts one row, or raises before it.
GenerateReport ==
    /\ stage = "report"
    /\ stage' = "mark"
    /\ \/ /\ fresh' = Clear(fresh)
          /\ UNCHANGED raised
       \/ /\ C \in Failing
          /\ raised' = TRUE
          /\ UNCHANGED fresh
    /\ UNCHANGED <<active, loops, age, late, struck, crashes>>

\* Mutant: a job that raised is not marked, "so that it is tried again".
MarkOnSuccess ==
    /\ stage = "mark"
    /\ stage' = "visit"
    /\ raised' = FALSE
    /\ age' = IF raised THEN age ELSE Clear(age)
    /\ IF raised THEN EndTick ELSE NextJob
    /\ struck' = struck \ Current
    /\ UNCHANGED <<active, fresh, late, crashes>>

\* Mutant: every job is marked under the name of the first.
MarkFirst ==
    /\ stage = "mark"
    /\ stage' = "visit"
    /\ raised' = FALSE
    /\ age' = [age EXCEPT ![C][Jobs[1]] = 0]
    /\ IF raised THEN EndTick ELSE NextJob
    /\ struck' = struck \ Current
    /\ UNCHANGED <<active, fresh, late, crashes>>

\* "finally": last_run_at = now(), whatever became of the job; an exception
\* goes on to _loop and ends the tick.
Mark ==
    /\ stage = "mark"
    /\ stage' = "visit"
    /\ raised' = FALSE
    /\ age' = Clear(age)
    /\ IF raised THEN EndTick ELSE NextJob
    /\ struck' = struck \ Current
    /\ UNCHANGED <<active, fresh, late, crashes>>

\* tick_seconds go by.
Sleep ==
    /\ stage = "visit"
    /\ todo = <<>>
    /\ stage' = "tick"
    /\ age' = Older(age)
    /\ fresh' = Older(fresh)
    /\ late' = [c \in Companies |-> [j \in JobSet |->
                   IF c \in active /\ Due(c, j) /\ late[c][j] <= Patience
                   THEN late[c][j] + 1 ELSE late[c][j]]]
    /\ UNCHANGED <<active, loops, raised, struck, crashes>>

\* The task loses its place; what was not marked is still due.
Lose(next) ==
    /\ crashes < MaxCrashes
    /\ crashes' = crashes + 1
    /\ stage' = next
    /\ raised' = FALSE
    /\ EndTick
    /\ struck' = struck \cup Current
    /\ UNCHANGED <<active, rows, late>>

\* A statement of the scheduler itself fails: _loop logs it and sleeps.
Crash ==
    /\ stage # "visit" \/ todo # <<>>
    /\ Lose("visit")

\* The process restarts, in a tick or between two: _loop begins with a tick.
Restart == Lose("tick")

-----------------------------------------------------------------------------
Step == StartTick \/ CheckDue \/ RunCycle \/ GenerateReport \/ Mark \/ Sleep

Next == (\E c \in Companies : Activate(c)) \/ Step \/ Crash \/ Restart

Spec == Init /\ [][Next]_vars

\* The task is one coroutine of a running event loop.
FairSpec == Spec /\ WF_vars(Step)

-----------------------------------------------------------------------------
(* Properties.                                                             *)

TypeOK ==
    /\ active \subseteq Companies
    /\ stage \in {"tick", "visit", "cycle", "report", "mark"}
    /\ todo \in Seq(Companies)
    /\ left \in Seq(JobSet) /\ left # <<>>
    /\ stage \in {"cycle", "report", "mark"} => todo # <<>>
    /\ raised \in BOOLEAN
    /\ age \in [Companies -> [JobSet -> Nat]]
    /\ fresh \in [Companies -> [JobSet -> Nat]]
    /\ late \in [Companies -> [JobSet -> Nat]]
    /\ struck \subseteq Companies \X JobSet
    /\ crashes \in Nat
    /\ \A c \in Companies, j \in JobSet : /\ age[c][j] <= Interval[j]
                                          /\ fresh[c][j] <= Interval[j]
                                          /\ late[c][j] <= Patience + 1

\* A due job waits for at most one tick per failing job, one per crash and one
\* more, whatever order the companies come in (scheduler.py:20-22, "close to on
\* time"), while no interval is shorter than that: a job that raised is marked,
\* so the next tick gets past it.
Punctual == \A c \in Companies, j \in JobSet : late[c][j] <= Patience

\* Every job of every active company is run again and again, although others
\* keep raising in front of it.
JobsRecur ==
    \A c \in Companies, j \in JobSet : [](c \in active => <>(age[c][j] = 0))

Stored == stage = "report" /\ fresh' # fresh

\* "One persisted document per report_type per period" (report_generator.py:4-5):
\* a job stores a second report before its interval is over only if a crash has
\* cut the job itself short since it was last marked, whatever raises, whatever
\* a crash does to other jobs, and however often the loop comes by.
ReportsSpaced ==
    [][Stored /\ fresh[C][J] # Interval[J] => <<C, J>> \in struck]_vars

\* Jobs whose report is younger than their mark, which will store it again.
Unmarked == {p \in Companies \X JobSet : age[p[1]][p[2]] > fresh[p[1]][p[2]]}

\* A crash makes at most one report to be repeated: the loop runs one job at a
\* time, and marks it before it looks at the next (scheduler.py:102-112).
RepeatsBounded ==
    Cardinality(Unmarked) <= crashes + (IF stage = "mark" THEN 1 ELSE 0)

===============================================================================

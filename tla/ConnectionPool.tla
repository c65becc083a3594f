---------------------------- MODULE ConnectionPool ----------------------------
(***************************************************************************)
(* The asyncpg pool every module of the kernel shares, and the one place   *)
(* that asks it for a second connection while holding a first:             *)
(* CompanyResolver.resolve keeps its connection while it records the       *)
(* security alert of a refused request.  The pool has a maximum size and   *)
(* acquire() has no timeout.                                               *)
(***************************************************************************)
EXTENDS Naturals, FiniteSets

CONSTANTS
    Tasks,       \* coroutines that use the pool: requests and the scheduler
    Refusable,   \* those whose request the resolver may refuse with an alert
    Ticker,      \* the Intelligence Scheduler's task
    PoolMax      \* settings.database_pool_max

ASSUME PoolTasksAssumption == /\ IsFiniteSet(Tasks)
                              /\ Refusable \subseteq Tasks
                              /\ Ticker \in Tasks \ Refusable
ASSUME PoolSizeAssumption == PoolMax \in Nat \ {0}

VARIABLES
    pc,      \* what each task is doing
    free     \* connections nobody holds

vars == <<pc, free>>

\* "hold" and "refused" keep the one connection acquired first, "alert" a second.
Stages == {"idle", "wait", "hold", "refused", "alert", "leave"}

Goto(t, stage) == pc' = [pc EXCEPT ![t] = stage]

Init ==
    /\ pc = [t \in Tasks |-> "idle"]
    /\ free = PoolMax

-----------------------------------------------------------------------------
\* A task reaches "async with pool.acquire()".
Arrive(t) ==
    /\ pc[t] = "idle"
    /\ Goto(t, "wait")
    /\ UNCHANGED free

\* Mutant: the pool opens connections beyond its maximum.
AcquireBeyondMax(t) ==
    /\ pc[t] = "wait"
    /\ free' = IF free > 0 THEN free - 1 ELSE 0
    /\ Goto(t, "hold")

\* asyncio's queue wakes one waiter per released connection, but a task that
\* is already running may take it first: any waiter may win.
Acquire(t) ==
    /\ pc[t] = "wait"
    /\ free > 0
    /\ free' = free - 1
    /\ Goto(t, "hold")

\* The block ends and the connection goes back.  A request that needs another
\* one later starts again from "idle".
Release(t) ==
    /\ pc[t] = "hold"
    /\ free' = free + 1
    /\ Goto(t, "idle")

\* Mutant: a refused request leaks the connection of its alert.
RecordLeaks(t) ==
    /\ pc[t] = "alert"
    /\ Goto(t, "leave")
    /\ UNCHANGED free

\* resolve() finds a deactivated user or company, or a lapsed subscription,
\* and awaits _alert_deactivated_access inside its own "async with".
Refuse(t) ==
    /\ t \in Refusable
    /\ pc[t] = "hold"
    /\ Goto(t, "refused")
    /\ UNCHANGED free

\* SecurityAlerts.record acquires a connection of its own from the same pool.
AcquireForAlert(t) ==
    /\ pc[t] = "refused"
    /\ free > 0
    /\ free' = free - 1
    /\ Goto(t, "alert")

\* The row is inserted, or the exception is swallowed.
Record(t) ==
    /\ pc[t] = "alert"
    /\ free' = free + 1
    /\ Goto(t, "leave")

\* HTTPException(403) leaves the outer block.
Leave(t) ==
    /\ pc[t] = "leave"
    /\ free' = free + 1
    /\ Goto(t, "idle")

Step(t) == Acquire(t) \/ Release(t) \/ AcquireForAlert(t) \/ Record(t) \/ Leave(t)

Next == \E t \in Tasks : Arrive(t) \/ Refuse(t) \/ Step(t)

Spec == Init /\ [][Next]_vars

\* Every running task goes on, the scheduler always comes back to its loop, and
\* a waiter is not overtaken for ever: the event loop runs ready tasks in order.
Fairness ==
    /\ \A t \in Tasks : /\ WF_vars(Step(t))
                        /\ SF_vars(Acquire(t))
                        /\ SF_vars(AcquireForAlert(t))
    /\ WF_vars(Arrive(Ticker))

FairSpec == Spec /\ Fairness

-----------------------------------------------------------------------------
(* Properties.                                                             *)

\* TypeOK: a task is at one place of its code, and the pool never counts more
\* free connections than it may open.
TypeOK ==
    /\ pc \in [Tasks -> Stages]
    /\ free \in 0..PoolMax

At(stage) == {t \in Tasks : pc[t] = stage}

\* No connection is ever lost or opened twice, whichever way a block is left:
\* those in use and those free are the pool.
ConnectionsConserved ==
    free + Cardinality(At("hold")) + Cardinality(At("refused"))
         + 2 * Cardinality(At("alert")) + Cardinality(At("leave")) = PoolMax

\* As long as fewer requests can be refused at once than the pool has
\* connections, somebody can always go on: a connection is free, or one is held
\* by a task that needs no other to finish.
NeverStuck ==
    Cardinality(Refusable) < PoolMax =>
        free > 0 \/ At("hold") \cup At("alert") \cup At("leave") # {}

\* Every task that asks for a connection gets it and gives it back.
EveryoneIsServed == \A t \in Tasks : pc[t] # "idle" ~> pc[t] = "idle"

\* main.py: "Both run for the lifetime of the process - 'the Intelligence Engine
\* never sleeps'": the scheduler gets a connection again and again.
EngineNeverSleeps == []<>(pc[Ticker] = "hold")

=============================================================================

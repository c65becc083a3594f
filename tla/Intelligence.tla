----------------------------- MODULE Intelligence -----------------------------
(***************************************************************************)
(* The Intelligence Cycle of one company and what reads its results: the   *)
(* cycles that recorded transactions and the scheduler's jobs run          *)
(* (IntelligenceManager.run_cycle), the notifications and recommendations  *)
(* they store once per window, the scheduled report, and the dashboard     *)
(* behind cache_manager's 60 seconds.                                      *)
(*                                                                         *)
(* Every statement of a cycle is awaited, so cycles of one company overlap *)
(* with each other, with new transactions and with dashboard reads.  The   *)
(* ledger stands for the number of its transactions: its statistics are    *)
(* deterministic functions of them.                                        *)
(***************************************************************************)
EXTENDS Naturals, Sequences, FiniteSets

CONSTANTS
    Requests,          \* requests that record transactions or do something else, one after another
    Schedulers,        \* the scheduler's task (at most one), for scheduled jobs
    Readers,           \* requests for the dashboard
    Alerts,            \* notification categories and recommendation types
    FromSummary,       \* those that rest on balance_summary alone
    Found,             \* the alerts a ledger gives cause to, by its transactions
    Window,            \* ticks an alert is not repeated for (6 h, 24 h)
    Ttl,               \* ticks a dashboard is served for (60 s)
    Failing,           \* tasks whose cycle may raise
    MaxTransactions    \* bound: transactions recorded

ASSUME TasksAssumption == /\ IsFiniteSet(Requests \cup Schedulers)
                          /\ Failing \subseteq Requests \cup Schedulers
ASSUME AlertsAssumption == /\ FromSummary \subseteq Alerts
                           /\ \A d \in 0 .. MaxTransactions : Found[d] \subseteq Alerts
ASSUME TimesAssumption == /\ MaxTransactions \in Nat
                          /\ Ttl \in Nat \ {0}
                          /\ \A a \in Alerts : Window[a] \in Nat \ {0}

VARIABLES
    on,        \* intelligence_status.active
    ledger,    \* transactions in ledger_transactions
    graph,     \* the ledger the knowledge graph's weights were derived from
    trend,     \* the ledger the latest metrics were computed from
    recent,    \* ages of the stored alerts that are still inside their window
    cycled,    \* the newest ledger a completed cycle has analysed
    report,    \* the latest report: what its cycle and what the report itself read
    cache,     \* the company's entry of cache_manager._cache
    past,      \* history: the ledger at the latest Ttl ticks, newest first
    job,       \* what each cycle is doing
    read       \* what each dashboard request is doing

vars == <<on, ledger, graph, trend, recent, cycled, report, cache, past, job, read>>

-----------------------------------------------------------------------------
(* Data.                                                                   *)

Tasks == Requests \cup Schedulers
Ledger == 0 .. MaxTransactions
Stages == {"idle", "check", "summary", "analysis", "derive", "rebuild", "metrics",
           "alerts", "insert", "complete", "reread", "store"}

Job == [stage : Stages, reports : BOOLEAN, summary : Ledger, analysis : Ledger,
        latest : Ledger, todo : SUBSET Alerts, alert : SUBSET Alerts]
IdleJob == [stage |-> "idle", reports |-> FALSE, summary |-> 0, analysis |-> 0,
            latest |-> 0, todo |-> {}, alert |-> {}]

Report == [cycle : Ledger, read : Ledger]
Entry == [data : Ledger, age : 0 .. Ttl]
NoEntry == [data |-> 0, age |-> Ttl]      \* nothing that could be served

Read == [stage : {"idle", "compute", "fill"}, entry : Entry]
IdleRead == [stage |-> "idle", entry |-> NoEntry]

At(t, stage) == job[t].stage = stage
Goto(t, stage) == job' = [job EXCEPT ![t].stage = stage]
Finish(t) == job' = [job EXCEPT ![t] = IdleJob]

\* What reasoning found: health and analysis read the ledger after the summary.
Findings(summary, analysis) ==
    (Found[summary] \cap FromSummary) \cup (Found[analysis] \ FromSummary)

Older(age) == IF age < Ttl THEN age + 1 ELSE Ttl
Max2(a, b) == IF a > b THEN a ELSE b

Init ==
    /\ on = FALSE
    /\ ledger = 0 /\ graph = 0 /\ trend = 0 /\ cycled = 0
    /\ recent = [a \in Alerts |-> <<>>]
    /\ report = [cycle |-> 0, read |-> 0]
    /\ cache = NoEntry
    /\ past = [i \in 1 .. Ttl |-> 0]
    /\ job = [t \in Tasks |-> IdleJob]
    /\ read = [r \in Readers |-> IdleRead]

-----------------------------------------------------------------------------
(* What starts a cycle.                                                    *)

\* A Blueprint is published (module Blueprint): activate, for the first time or
\* again, and drop the cache.
Activate ==
    /\ on' = TRUE
    /\ cache' = NoEntry
    /\ UNCHANGED <<ledger, graph, trend, recent, cycled, report, past, job, read>>

\* graph.create commits a transaction and publishes transaction.recorded, whose
\* observer runs the cycle inside the same request.
RecordTransaction(t) ==
    /\ t \in Requests
    /\ At(t, "idle")
    /\ ledger < MaxTransactions
    /\ ledger' = ledger + 1
    /\ job' = [job EXCEPT ![t] = [IdleJob EXCEPT !.stage = "check"]]
    /\ UNCHANGED <<on, graph, trend, recent, cycled, report, cache, past, read>>

\* A row of a file or of a provider is imported; the event, if it comes to one,
\* follows the last row (module Ledger).
ImportRow(t) ==
    /\ t \in Requests
    /\ At(t, "idle")
    /\ ledger < MaxTransactions
    /\ ledger' = ledger + 1
    /\ UNCHANGED <<on, graph, trend, recent, cycled, report, cache, past, job, read>>

\* Every other event of OBSERVED_EVENTS that some workflow publishes - an import,
\* a provider or a system connected or disconnected, a restored Blueprint, a
\* workflow, mapping or schema saved, a replay - runs a cycle inside its request.
Observe(t) ==
    /\ t \in Requests
    /\ At(t, "idle")
    /\ job' = [job EXCEPT ![t] = [IdleJob EXCEPT !.stage = "check"]]
    /\ UNCHANGED <<on, ledger, graph, trend, recent, cycled, report, cache, past, read>>

\* Mutant: a company whose transactions start cycles of their own is not scheduled.
StartJobUnlessBusy(t) ==
    /\ t \in Schedulers
    /\ At(t, "idle")
    /\ on /\ ledger = 0
    /\ \E reports \in BOOLEAN :
          job' = [job EXCEPT ![t] = [IdleJob EXCEPT !.stage = "check",
                                                    !.reports = reports]]
    /\ UNCHANGED <<on, ledger, graph, trend, recent, cycled, report, cache, past, read>>

\* The scheduler reaches a due job, with or without a report (module Scheduler).
StartJob(t) ==
    /\ t \in Schedulers
    /\ At(t, "idle")
    /\ on
    /\ \E reports \in BOOLEAN :
          job' = [job EXCEPT ![t] = [IdleJob EXCEPT !.stage = "check",
                                                    !.reports = reports]]
    /\ UNCHANGED <<on, ledger, graph, trend, recent, cycled, report, cache, past, read>>

-----------------------------------------------------------------------------
(* The cycle: run_cycle.                                                   *)

\* is_active, read once; the cycle of an inactive company is nothing.
CheckActive(t) ==
    /\ At(t, "check")
    /\ IF on THEN Goto(t, "summary") ELSE Finish(t)
    /\ UNCHANGED <<on, ledger, graph, trend, recent, cycled, report, cache, past, read>>

\* ReasoningEngine.run: balance_summary ...
Summarise(t) ==
    /\ At(t, "summary")
    /\ job' = [job EXCEPT ![t].stage = "analysis", ![t].summary = ledger]
    /\ UNCHANGED <<on, ledger, graph, trend, recent, cycled, report, cache, past, read>>

\* ... then health, trend, spend and anomalies, from statements of their own.
Analyse(t) ==
    /\ At(t, "analysis")
    /\ job' = [job EXCEPT ![t].stage = "derive", ![t].analysis = ledger,
                          ![t].todo = Findings(job[t].summary, ledger)]
    /\ UNCHANGED <<on, ledger, graph, trend, recent, cycled, report, cache, past, read>>

\* RelationshipEngine.derive reads the ledger once more.
Derive(t) ==
    /\ At(t, "derive")
    /\ job' = [job EXCEPT ![t].stage = "rebuild", ![t].latest = ledger]
    /\ UNCHANGED <<on, ledger, graph, trend, recent, cycled, report, cache, past, read>>

\* KnowledgeGraph.rebuild upserts nodes and edges in one transaction.
Rebuild(t) ==
    /\ At(t, "rebuild")
    /\ graph' = job[t].latest
    /\ job' = [job EXCEPT ![t].stage = "metrics", ![t].latest = 0]
    /\ UNCHANGED <<on, ledger, trend, recent, cycled, report, cache, past, read>>

\* Health score, net cash flow and balance join the trend history.
RecordMetrics(t) ==
    /\ At(t, "metrics")
    /\ trend' = job[t].summary
    /\ job' = [job EXCEPT ![t].stage = IF job[t].todo = {} THEN "complete" ELSE "alerts",
                          ![t].summary = 0]
    /\ UNCHANGED <<on, ledger, graph, recent, cycled, report, cache, past, read>>

\* Mutant: the look at the rows of the window is forgotten.
CheckNothing(t, a) ==
    /\ At(t, "alerts")
    /\ a \in job[t].todo
    /\ job' = [job EXCEPT ![t].stage = "insert", ![t].alert = {a}]
    /\ UNCHANGED <<on, ledger, graph, trend, recent, cycled, report, cache, past, read>>

\* The alerts still to do once a is dealt with.
Rest(t, a) == job[t].todo \ {a}
AfterAlert(t, a) == IF Rest(t, a) = {} THEN "complete" ELSE "alerts"

\* generate_and_store and notify look for a row of this kind in the window and
\* go on to the next finding when there is one ...
CheckAlert(t, a) ==
    /\ At(t, "alerts")
    /\ a \in job[t].todo
    /\ job' = IF recent[a] = <<>>
              THEN [job EXCEPT ![t].stage = "insert", ![t].alert = {a}]
              ELSE [job EXCEPT ![t].stage = AfterAlert(t, a), ![t].todo = Rest(t, a)]
    /\ UNCHANGED <<on, ledger, graph, trend, recent, cycled, report, cache, past, read>>

\* ... and insert one otherwise, in a statement of its own.
InsertAlert(t, a) ==
    /\ At(t, "insert")
    /\ job[t].alert = {a}
    /\ recent' = [recent EXCEPT ![a] = Append(recent[a], 0)]
    /\ job' = [job EXCEPT ![t].stage = AfterAlert(t, a), ![t].todo = Rest(t, a),
                          ![t].alert = {}]
    /\ UNCHANGED <<on, ledger, graph, trend, cycled, report, cache, past, read>>

\* last_cycle_at, invalidate, and the event nobody subscribes to.
Complete(t) ==
    /\ At(t, "complete")
    /\ cycled' = Max2(cycled, job[t].analysis)
    /\ cache' = NoEntry
    /\ IF job[t].reports THEN Goto(t, "reread") ELSE Finish(t)
    /\ UNCHANGED <<on, ledger, graph, trend, recent, report, past, read>>

\* Mutant: the report is built from what the dashboard has.
RereadCached(t) ==
    /\ At(t, "reread")
    /\ job' = [job EXCEPT ![t].stage = "store", ![t].latest = cache.data]
    /\ UNCHANGED <<on, ledger, graph, trend, recent, cycled, report, cache, past, read>>

\* generate_report reasons again, rather than use the cycle's result.
Reread(t) ==
    /\ At(t, "reread")
    /\ job' = [job EXCEPT ![t].stage = "store", ![t].latest = ledger]
    /\ UNCHANGED <<on, ledger, graph, trend, recent, cycled, report, cache, past, read>>

StoreReport(t) ==
    /\ At(t, "store")
    /\ report' = [cycle |-> job[t].analysis, read |-> job[t].latest]
    /\ Finish(t)
    /\ UNCHANGED <<on, ledger, graph, trend, recent, cycled, cache, past, read>>

\* A statement raises: the observer, or the scheduler's loop, swallows it and
\* what the cycle stored so far stays.
FailCycle(t) ==
    /\ t \in Failing
    /\ ~At(t, "idle")
    /\ Finish(t)
    /\ UNCHANGED <<on, ledger, graph, trend, recent, cycled, report, cache, past, read>>

-----------------------------------------------------------------------------
(* The dashboard: get_or_compute.                                          *)

\* Nothing young enough is cached; a hit would change nothing.
StartRead(r) ==
    /\ read[r].stage = "idle"
    /\ cache.age >= Ttl
    /\ read' = [read EXCEPT ![r] = [stage |-> "compute", entry |-> [data |-> 0, age |-> 0]]]
    /\ UNCHANGED <<on, ledger, graph, trend, recent, cycled, report, cache, past, job>>

Compute(r) ==
    /\ read[r].stage = "compute"
    /\ read' = [read EXCEPT ![r].stage = "fill", ![r].entry.data = ledger]
    /\ UNCHANGED <<on, ledger, graph, trend, recent, cycled, report, cache, past, job>>

\* Mutant: the reader's own record lands in the cache.
FillWhole(r) ==
    /\ read[r].stage = "fill"
    /\ cache' = [read[r] EXCEPT !.entry = IdleRead.entry]
    /\ read' = [read EXCEPT ![r] = IdleRead]
    /\ UNCHANGED <<on, ledger, graph, trend, recent, cycled, report, past, job>>

\* Mutant: the entry is stamped when it is stored, not when it was begun.
FillStampedLate(r) ==
    /\ read[r].stage = "fill"
    /\ cache' = [read[r].entry EXCEPT !.age = 0]
    /\ read' = [read EXCEPT ![r] = IdleRead]
    /\ UNCHANGED <<on, ledger, graph, trend, recent, cycled, report, past, job>>

\* _cache[key] = (now, value), with the time the computation began at.
Fill(r) ==
    /\ read[r].stage = "fill"
    /\ cache' = read[r].entry
    /\ read' = [read EXCEPT ![r] = IdleRead]
    /\ UNCHANGED <<on, ledger, graph, trend, recent, cycled, report, past, job>>

\* The rows of a kind are in the order they were stored, so those that have left
\* their window come first.
InWindow(ages, a) ==
    SubSeq(ages, Cardinality({i \in DOMAIN ages : ages[i] >= Window[a]}) + 1, Len(ages))

\* Time passes: alerts leave their window, dashboards grow old.
Tick ==
    /\ recent' = [a \in Alerts |->
                     InWindow([i \in DOMAIN recent[a] |-> recent[a][i] + 1], a)]
    /\ cache' = [cache EXCEPT !.age = Older(cache.age)]
    /\ read' = [r \in Readers |-> [read[r] EXCEPT !.entry.age = Older(read[r].entry.age)]]
    /\ past' = [i \in 1 .. Ttl |-> IF i = 1 THEN ledger ELSE past[i - 1]]
    /\ UNCHANGED <<on, ledger, graph, trend, cycled, report, job>>

-----------------------------------------------------------------------------
CycleStep(t) ==
    \/ CheckActive(t) \/ Summarise(t) \/ Analyse(t) \/ Derive(t) \/ Rebuild(t)
    \/ RecordMetrics(t) \/ Complete(t) \/ Reread(t) \/ StoreReport(t)
    \/ \E a \in Alerts : CheckAlert(t, a) \/ InsertAlert(t, a)

ReadStep(r) == StartRead(r) \/ Compute(r) \/ Fill(r)

Next ==
    \/ Activate
    \/ Tick
    \/ \E t \in Tasks : \/ RecordTransaction(t) \/ ImportRow(t) \/ Observe(t)
                        \/ StartJob(t) \/ CycleStep(t) \/ FailCycle(t)
    \/ \E r \in Readers : ReadStep(r)

Spec == Init /\ [][Next]_vars

\* The event loop runs every ready task; the scheduler comes back to its jobs.
Fairness ==
    /\ \A t \in Tasks : WF_vars(CycleStep(t))
    /\ \A t \in Schedulers : WF_vars(StartJob(t))

FairSpec == Spec /\ Fairness

-----------------------------------------------------------------------------
(* Properties.                                                             *)

\* Types: cycles and readers carry ledgers, the cache an entry or nothing.
TypeOK ==
    /\ on \in BOOLEAN
    /\ ledger \in Ledger /\ graph \in Ledger /\ trend \in Ledger /\ cycled \in Ledger
    /\ recent \in [Alerts -> Seq(Nat)]
    /\ report \in Report
    /\ cache \in Entry
    /\ past \in [1 .. Ttl -> Ledger]
    /\ job \in [Tasks -> Job]
    /\ read \in [Readers -> Read]

\* Overlapping cycles can store an alert twice in a window (nothing in the
\* tables forbids it), but never more often than there are tasks: a task sees
\* what it stored itself.
AlertsBounded ==
    \A a \in Alerts : Len(recent[a]) <= Cardinality(Tasks)

\* A dashboard that can still be served shows every transaction that was
\* recorded when its time to live began, however slow its computation was and
\* whichever invalidation it missed.
DashboardBounded == cache.age < Ttl => cache.data >= past[Ttl]

\* A report never knows less than the cycle it belongs to.
ReportNotOlder ==
    /\ report.read >= report.cycle
    /\ \A t \in Tasks : At(t, "store") => job[t].latest >= job[t].analysis

\* Every transaction of an active company is analysed in the end, even when
\* the cycle of its own event fails: the scheduler sees it.
TransactionsAnalysed ==
    \A n \in 1 .. MaxTransactions : on /\ ledger >= n ~> cycled >= n

\* However cycles overtook each other, the knowledge graph and the trend's
\* latest metrics settle on the ledger once no more is recorded.
KnowledgeSettles == <>[](on => graph = ledger /\ trend = ledger)

=============================================================================

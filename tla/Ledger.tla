-------------------------------- MODULE Ledger --------------------------------
(***************************************************************************)
(* The books of one company: the handlers that record transactions (by     *)
(* hand, from a CSV statement, from a provider's history), the automations *)
(* that run on each of them, and the requests that read the ledger back -  *)
(* dashboard, insights, the Intelligence Engine's reasoning, replay.       *)
(*                                                                         *)
(* Every statement is a transaction of its own and is awaited, so what a   *)
(* handler has recorded stays when it fails, and what it has read may be   *)
(* old when it is used.                                                    *)
(***************************************************************************)
EXTENDS Analysis, Bags

CONSTANTS
    Writers,       \* requests that record or configure, one job each
    Readers,       \* requests that read, one plan each
    Jobs,          \* what a writer may be asked to do
    Plans,         \* what a reader may be asked for
    Blueprints,    \* what blueprint_loader.load may return (module Blueprint)
    History,       \* the provider's history, the same on every sync
    Failing,       \* writers whose statements may raise
    Standing,      \* the definitions the company begins with
    MaxStarted,    \* bound: requests that are made
    MaxMonths      \* bound: months that pass

ASSUME BooksAssumption == /\ Failing \subseteq Writers
                          /\ Writers \cap Readers = {}
                          /\ MaxMonths \in Nat /\ MaxStarted \in Nat

\* A sequence, of whatever it holds.
IsList(s) == s \in Seq({s[i] : i \in DOMAIN s})

\* What record_transaction is given: anything may stand for a direction, and any
\* number for an amount.
IsEntry(e) ==
    /\ DOMAIN e = {"direction", "amount", "description", "counterparty", "age", "category"}
    /\ e.amount \in Int /\ e.age \in Int
Entries(s) == IsList(s) /\ \A i \in DOMAIN s : IsEntry(s[i])

ASSUME JobsAssumption ==
    /\ Entries(History)
    /\ \A job \in Jobs :
           /\ job.kind \in {"create", "import", "connect", "define", "automate"}
           /\ job.kind = "create" => IsEntry(job.row)
           /\ job.kind = "import" => /\ IsList(job.file.lines)
                                     /\ \A i \in DOMAIN job.file.lines :
                                            job.file.lines[i].amount \in Int /\ job.file.lines[i].age \in Int

\* No category of the Rule Engine's is NULL.
ASSUME CategoriesAssumption == Null \notin {"uncategorized"} \cup {Keywords[i][1] : i \in DOMAIN Keywords}

\* Definitions have a uuid each, and no request that is still to come has stored one.
ASSUME StandingAssumption ==
    /\ IsList(Standing)
    /\ \A i, j \in DOMAIN Standing : Standing[i].id = Standing[j].id => i = j
    /\ \A i \in DOMAIN Standing : Standing[i].id \notin Writers

\* What a reader may be asked for is one of the handlers below.
ASSUME PlansAssumption == Plans \subseteq {"dashboard", "insights", "reasoning", "replay.list", "replay.create"}

\* No number is NULL.
ASSUME NumbersAssumption == Null \notin Int

VARIABLES
    account,    \* the company has a row in accounts
    ledger,     \* ledger_transactions, in the order of insertion
    defs,       \* workflow_definitions, newest first
    runs,       \* automation_runs: how often a definition has run on a row
    events,     \* events of this module: <<name, writer, number>>
    link,       \* the live provider's row in provider_connections
    month,      \* the current month
    write,      \* what each writer is doing
    read        \* what each reader is doing

vars == <<account, ledger, defs, runs, events, link, month, write, read>>

-----------------------------------------------------------------------------
(* Data.                                                                   *)

\* A line of a statement file, as csv.DictReader hands it over: a line with
\* too few columns has None in some; `parses` is FALSE for a date or an amount
\* no format fits, `direction` is "" when the column is missing or blank.
ParseRow(raw) ==
    [ok |-> raw.parses /\ raw.direction \in {"", "inflow", "outflow"},
     row |-> [direction |-> IF raw.direction # "" THEN raw.direction
                            ELSE IF raw.amount >= 0 THEN "inflow" ELSE "outflow",
              amount |-> IF raw.amount < 0 THEN -raw.amount ELSE raw.amount,
              category |-> Null, description |-> raw.description, counterparty |-> Null,
              age |-> raw.age]]

\* parse_statement_csv: the rows that parse, and how many do not.  A missing
\* column of the header refuses the file; None.strip() is an AttributeError,
\* which `except (KeyError, ValueError)` lets through.
Parse(file) ==
    LET lines == [i \in DOMAIN file.lines |-> ParseRow(file.lines[i])]
        good  == Picked(lines, {i \in DOMAIN lines : lines[i].ok})
    IN  IF ~file.header THEN [raises |-> FALSE, rows |-> <<>>, errors |-> 1]
        ELSE [raises |-> \E i \in DOMAIN file.lines : file.lines[i].short,
              rows   |-> [i \in DOMAIN good |-> good[i].row],
              errors |-> Len(lines) - Len(good)]

\* _OPS; float() of a text fails, and no text here contains another.
Numeric == {"gt", "gte", "lt", "lte"}
Holds(op, a, b) ==
    CASE op \in {"eq", "contains"} -> a = b
      [] op = "neq" -> a # b
      [] op = "gt"  -> a > b
      [] op = "gte" -> a >= b
      [] op = "lt"  -> a < b
      [] op = "lte" -> a <= b

\* _matches: a comparison that raises does not match.
Matches(condition, row) ==
    \/ condition = Null
    \/ /\ condition.field \in DOMAIN row
       /\ condition.op \in Numeric \cup {"eq", "neq", "contains"}
       /\ condition.op \in Numeric => condition.field = "amount"
       /\ Holds(condition.op, row[condition.field], condition.value)

\* What evaluate_and_run runs for a row, in the order of the list.
Applies(d, row) == d.trigger = "transaction.recorded" /\ Matches(d.condition, row)
Applicable(row) == Picked(defs, {i \in DOMAIN defs : Applies(defs[i], row)})

Ids == {defs[i].id : i \in DOMAIN defs}

\* A plan is the statements of a reader, in their order: balance_summary is two,
\* and health_score asks for a summary of its own.
Statements(plan) ==
    LET summary == <<"totals", "window">>
    IN  CASE plan \in {"insights", "reasoning"} ->
                 summary \o summary \o <<"flow", "top", "total_out", "flagged">>
          [] plan = "dashboard" -> summary \o summary \o <<"timeline">>
          [] plan \in {"replay.list", "replay.create"} -> summary

IdleWriter == [stage |-> "idle", job |-> Null, left |-> <<>>, average |-> Null, pending |-> <<>>,
               count |-> 0, before |-> {}]
IdleReader == [stage |-> "idle", plan |-> Null, blueprint |-> Null, moments |-> <<>>]

Init ==
    /\ account = FALSE
    /\ ledger = <<>>
    /\ defs = Standing
    /\ runs = EmptyBag
    /\ events = <<>>
    /\ link = [status |-> "none", synced |-> FALSE]
    /\ month = 0
    /\ write = [w \in Writers |-> IdleWriter]
    /\ read = [q \in Readers |-> IdleReader]

\* Bound: so many requests are made, of any kind.
MayStart ==
    Cardinality({w \in Writers : write[w].stage # "idle"} \cup {q \in Readers : read[q].stage # "idle"})
        < MaxStarted

At(w, stage) == write[w].stage = stage
Kind(w) == write[w].job.kind

\* A writer goes on to a stage, and nothing else of it changes.
Go(w, stage) == write' = [write EXCEPT ![w].stage = stage]

Publish(w, name, number) == events' = Append(events, <<name, w, number>>)

\* The rows a writer has recorded, as indices.
RowsOf(w) == {i \in DOMAIN ledger : ledger[i].by = w}

-----------------------------------------------------------------------------
(* Handlers: graph.create, providers.create, workflows.create and the       *)
(* automation of a published Blueprint.                                     *)

\* The rows that a request is to record.
Source(job) ==
    CASE job.kind = "create"  -> <<job.row>>
      [] job.kind = "import"  -> Parse(job.file).rows
      [] job.kind = "connect" -> History
      [] OTHER                -> <<>>

\* A request arrives.  A file is parsed before anything is read or written,
\* and a file that raises ends the request.
Begin(w, job) ==
    /\ At(w, "idle") /\ MayStart
    /\ write' = [write EXCEPT ![w] =
          [stage   |-> IF job.kind = "import" /\ Parse(job.file).raises THEN "failed"
                       ELSE CASE job.kind \in {"create", "import", "connect"} -> "account"
                              [] job.kind = "define"   -> "define"
                              [] job.kind = "automate" -> "purge",
           job     |-> job,
           left    |-> Source(job),
           average |-> Null, pending |-> <<>>, count |-> 0, before |-> Ids]]
    /\ UNCHANGED <<account, ledger, defs, runs, events, link, month, read>>

\* Where a handler goes when it has its account: a provider's row comes first,
\* a file without a row that parses has only its event left.
Accounted(w) ==
    IF Kind(w) = "connect" THEN "link"
    ELSE IF write[w].left = <<>> THEN "announce" ELSE "average"

\* ensure_default_account: the SELECT.
FindAccount(w) ==
    /\ At(w, "account")
    /\ Go(w, IF account THEN Accounted(w) ELSE "open")
    /\ UNCHANGED <<account, ledger, defs, runs, events, link, month, read>>

\* The INSERT: UNIQUE (company_id, name) refuses whoever comes second.
OpenAccount(w) ==
    /\ At(w, "open")
    /\ account' = TRUE
    /\ Go(w, IF account THEN "failed" ELSE Accounted(w))
    /\ UNCHANGED <<ledger, defs, runs, events, link, month, read>>

\* Mutant: the upsert marks the sync as well.
LinkSynced(w) ==
    /\ At(w, "link")
    /\ link' = [status |-> "connected", synced |-> TRUE]
    /\ Go(w, "average")
    /\ UNCHANGED <<account, ledger, defs, runs, events, month, read>>

\* The upsert of provider_connections, then the adapter's connect and sync,
\* which read and write nothing of the company: the history is History.
Link(w) ==
    /\ At(w, "link")
    /\ link' = [link EXCEPT !.status = "connected"]
    /\ Go(w, IF History = <<>> THEN "stamp" ELSE "average")
    /\ UNCHANGED <<account, ledger, defs, runs, events, month, read>>

\* Mutant: the average is read once for a whole import.
AverageOnce(w) ==
    /\ At(w, "average")
    /\ write' = [write EXCEPT ![w].stage = "insert",
                             ![w].average = IF @ = Null THEN RecentAverage(ledger, month) ELSE @]
    /\ UNCHANGED <<account, ledger, defs, runs, events, link, month, read>>

\* record_transaction turns down a direction it does not know, and reads the
\* average an outflow is compared with.
Average(w) ==
    /\ At(w, "average")
    /\ IF Head(write[w].left).direction \in {"inflow", "outflow"}
       THEN write' = [write EXCEPT ![w].stage = "insert", ![w].average = RecentAverage(ledger, month)]
       ELSE Go(w, "failed")
    /\ UNCHANGED <<account, ledger, defs, runs, events, link, month, read>>

\* The row record_transaction inserts.
Recorded(w) ==
    LET e == Head(write[w].left)
    IN  [direction |-> e.direction, amount |-> e.amount,
         category |-> IF e.category = Null THEN Categorize(e.description) ELSE e.category,
         counterparty |-> e.counterparty,
         anomaly |-> Flagged(e.direction, e.amount, write[w].average),
         month |-> month - e.age, at |-> month, by |-> w]

\* Mutant: a row the CHECK refuses is passed over, and counted.
InsertOrSkip(w) ==
    /\ At(w, "insert")
    /\ IF Recorded(w).amount > 0
       THEN /\ ledger' = Append(ledger, Recorded(w))
            /\ write' = [write EXCEPT ![w].count = @ + 1,
                                     ![w].stage = IF Kind(w) = "create" THEN "publish" ELSE "list"]
       ELSE UNCHANGED ledger /\ write' = [write EXCEPT ![w].left = Tail(@), ![w].count = @ + 1,
                                 ![w].stage = IF Len(write[w].left) > 1 THEN "average" ELSE "announce"]
    /\ UNCHANGED <<account, defs, runs, events, link, month, read>>

\* The INSERT, under CHECK (amount > 0).
Insert(w) ==
    /\ At(w, "insert")
    /\ IF Recorded(w).amount > 0
       THEN /\ ledger' = Append(ledger, Recorded(w))
            /\ write' = [write EXCEPT ![w].count = @ + 1,
                                     ![w].stage = IF Kind(w) = "create" THEN "publish" ELSE "list"]
       ELSE UNCHANGED ledger /\ Go(w, "failed")
    /\ UNCHANGED <<account, defs, runs, events, link, month, read>>

\* Only a row recorded by hand is announced by itself; the observers run a
\* cycle on it inside this call (module Intelligence).
PublishRow(w) ==
    /\ At(w, "publish")
    /\ Publish(w, "transaction.recorded", Len(ledger))
    /\ Go(w, "list")
    /\ UNCHANGED <<account, ledger, defs, runs, link, month, read>>

\* The stage after the automations of a row, and whether rows are left.
NextRow(w) ==
    IF Len(write[w].left) > 1 THEN "average"
    ELSE CASE Kind(w) = "create"  -> "done"
           [] Kind(w) = "connect" -> "stamp"
           [] OTHER               -> "announce"

\* The row a writer is at: the last it recorded.
Current(w) == Max(RowsOf(w))

\* evaluate_and_run lists the definitions; those that do not apply are skipped.
ListDefinitions(w) ==
    /\ At(w, "list")
    /\ LET applicable == Applicable(ledger[Current(w)])
       IN  write' = [write EXCEPT ![w].pending = applicable,
                                  ![w].stage = IF applicable = <<>> THEN NextRow(w) ELSE "run",
                                  ![w].left  = IF applicable = <<>> THEN Tail(@) ELSE @]
    /\ UNCHANGED <<account, ledger, defs, runs, events, link, month, read>>

\* Mutant: the first definition that matches is the only one that runs.
RunFirst(w) ==
    /\ At(w, "run")
    /\ runs' = runs (+) SetToBag({<<Head(write[w].pending).id, Current(w)>>})
    /\ write' = [write EXCEPT ![w].pending = <<>>, ![w].stage = NextRow(w), ![w].left = Tail(@)]
    /\ UNCHANGED <<account, ledger, defs, events, link, month, read>>

\* A run is stored; its definition may be gone since it was listed, and the
\* foreign key then ends the request.
Run(w) ==
    /\ At(w, "run")
    /\ LET d    == Head(write[w].pending)
           last == Len(write[w].pending) = 1
       IN  IF d.id \in Ids
           THEN /\ runs' = runs (+) SetToBag({<<d.id, Current(w)>>})
                /\ write' = [write EXCEPT ![w].pending = Tail(@),
                                         ![w].stage = IF last THEN NextRow(w) ELSE "run",
                                         ![w].left  = IF last THEN Tail(@) ELSE @]
           ELSE Go(w, "failed") /\ UNCHANGED runs
    /\ UNCHANGED <<account, ledger, defs, events, link, month, read>>

\* last_synced_at, once the whole history is in.
Stamp(w) ==
    /\ At(w, "stamp")
    /\ link' = [link EXCEPT !.synced = TRUE]
    /\ Go(w, "announce")
    /\ UNCHANGED <<account, ledger, defs, runs, events, month, read>>

\* workflows.create stores a definition, for any member and any trigger.
Define(w) ==
    /\ At(w, "define")
    /\ defs' = <<[id |-> w, blueprint |-> FALSE, trigger |-> write[w].job.trigger,
                  condition |-> write[w].job.condition]>> \o defs
    /\ Go(w, "announce")
    /\ UNCHANGED <<account, ledger, runs, events, link, month, read>>

\* The event every handler ends with: what it defined or how much it recorded.
\* All three are observed, and the cycle awaited behind the INSERT is Observe of
\* module Intelligence: here it does what a reader does, and its failure is
\* swallowed.
Announce(w) ==
    /\ At(w, "announce")
    /\ CASE Kind(w) = "define"  -> Publish(w, "workflow.created", 0)
         [] Kind(w) = "import"  -> Publish(w, "ledger.csv_imported", write[w].count)
         [] Kind(w) = "connect" -> Publish(w, "provider.connected", write[w].count)
    /\ Go(w, "done")
    /\ UNCHANGED <<account, ledger, defs, runs, link, month, read>>

\* Mutant: the foreign key does not cascade.
PurgeKeepsRuns(w) ==
    /\ At(w, "purge")
    /\ defs' = Picked(defs, {i \in DOMAIN defs : ~defs[i].blueprint})
    /\ Go(w, IF write[w].job.threshold = Null THEN "done" ELSE "replace")
    /\ UNCHANGED <<account, ledger, runs, events, link, month, read>>

\* _sync_blueprint_automations: the Blueprint's definition goes, and the runs
\* of a definition go with it (ON DELETE CASCADE).
Purge(w) ==
    /\ At(w, "purge")
    /\ LET gone == {defs[i].id : i \in {j \in DOMAIN defs : defs[j].blueprint}}
       IN  /\ defs' = Picked(defs, {i \in DOMAIN defs : ~defs[i].blueprint})
           /\ runs' = [k \in {x \in DOMAIN runs : x[1] \notin gone} |-> runs[k]]
    /\ Go(w, IF write[w].job.threshold = Null THEN "done" ELSE "replace")
    /\ UNCHANGED <<account, ledger, events, link, month, read>>

\* ... and another takes its place when the Blueprint asks for it.
Replace(w) ==
    /\ At(w, "replace")
    /\ defs' = <<[id |-> w, blueprint |-> TRUE, trigger |-> "transaction.recorded",
                  condition |-> [field |-> "amount", op |-> "gte",
                                 value |-> write[w].job.threshold]]>> \o defs
    /\ Go(w, "done")
    /\ UNCHANGED <<account, ledger, runs, events, link, month, read>>

\* A statement raises: the handler ends, what it has committed stays.
Fail(w) ==
    /\ w \in Failing
    /\ write[w].stage \notin {"idle", "done", "failed"}
    /\ Go(w, "failed")
    /\ UNCHANGED <<account, ledger, defs, runs, events, link, month, read>>

-----------------------------------------------------------------------------
(* Readers.  What a statement answers is determined by the rows and the     *)
(* month of its moment, for rows are never changed: the moment is kept.     *)

\* The dashboard makes sure of the account first, like the writers do; only
\* insights and reasoning ask for the Blueprint.
StartRead(q, plan, blueprint) ==
    /\ read[q].stage = "idle" /\ MayStart
    /\ plan \notin {"insights", "reasoning"} => blueprint = Null
    /\ read' = [read EXCEPT ![q] = [stage |-> IF plan = "dashboard" THEN "account" ELSE "reading",
                                    plan |-> plan, blueprint |-> blueprint, moments |-> <<>>]]
    /\ UNCHANGED <<account, ledger, defs, runs, events, link, month, write>>

ReadAccount(q) ==
    /\ read[q].stage = "account"
    /\ read' = [read EXCEPT ![q].stage = IF account THEN "reading" ELSE "open"]
    /\ UNCHANGED <<account, ledger, defs, runs, events, link, month, write>>

ReadOpensAccount(q) ==
    /\ read[q].stage = "open"
    /\ account' = TRUE
    /\ read' = [read EXCEPT ![q].stage = IF account THEN "failed" ELSE "reading"]
    /\ UNCHANGED <<ledger, defs, runs, events, link, month, write>>

\* The next statement of the plan.  Only replay.create ends with an event.
ReadNext(q) ==
    LET plan == Statements(read[q].plan)
        last == Len(read[q].moments) + 1 = Len(plan)
    IN  /\ read[q].stage = "reading"
        /\ read' = [read EXCEPT ![q].moments = Append(@, [rows |-> Len(ledger), month |-> month]),
                                ![q].stage = IF last THEN "done" ELSE "reading"]
        /\ IF last /\ read[q].plan = "replay.create"
           THEN Publish(q, "replay.simulated", 0)
           ELSE UNCHANGED events
        /\ UNCHANGED <<account, ledger, defs, runs, link, month, write>>

\* Thirty days pass.
MonthPasses ==
    /\ month < MaxMonths
    /\ month' = month + 1
    /\ UNCHANGED <<account, ledger, defs, runs, events, link, write, read>>

Next ==
    \/ \E w \in Writers :
          \/ \E job \in Jobs : Begin(w, job)
          \/ FindAccount(w) \/ OpenAccount(w) \/ Link(w)
          \/ Average(w) \/ Insert(w) \/ PublishRow(w) \/ ListDefinitions(w) \/ Run(w)
          \/ Stamp(w) \/ Define(w) \/ Announce(w) \/ Purge(w) \/ Replace(w) \/ Fail(w)
    \/ \E q \in Readers :
          \/ \E plan \in Plans, blueprint \in Blueprints : StartRead(q, plan, blueprint)
          \/ ReadAccount(q) \/ ReadOpensAccount(q) \/ ReadNext(q)
    \/ MonthPasses

Spec == Init /\ [][Next]_vars

-----------------------------------------------------------------------------
(* What a reader concludes.                                                *)

Moment(q, k) == read[q].moments[k]
Allowed(q) == IF read[q].plan = "reasoning" /\ read[q].blueprint # Null
              THEN read[q].blueprint.allowed ELSE Null

\* The answer to the k-th statement of a reader.
Answer(q, k) ==
    LET rows == SubSeq(ledger, 1, Moment(q, k).rows)
        now  == Moment(q, k).month
        name == Statements(read[q].plan)[k]
    IN  CASE name = "totals"    -> Totals(rows)
          [] name = "window"    -> Window(rows, now)
          [] name = "timeline"  -> Timeline(rows, 8, 0)
          [] name = "flow"      -> Flow(rows, now)
          [] name = "top"       -> TopCategory(rows, now, Allowed(q))
          [] name = "total_out" -> Outflow(rows, now, Allowed(q))
          [] name = "flagged"   -> Anomalies(rows, now, IF read[q].plan = "reasoning" THEN 1 ELSE Null,
                                             Allowed(q))

\* A summary and the one its health was computed from.
SummaryOf(q) == Summary(Answer(q, 1), Answer(q, 2))
HealthOf(q)  == Summary(Answer(q, 3), Answer(q, 4))

\* AIInsights.generate shows everything, ReasoningEngine.run what is enabled.
Shown(plan, found, blueprint) ==
    IF blueprint = Null THEN found
    ELSE Prioritise(IF plan = "reasoning" THEN Gate(found, blueprint.enabled) ELSE found,
                    blueprint.priorities)

FindingsOf(q) ==
    Shown(read[q].plan,
          Insights(SummaryOf(q), HealthOf(q), Answer(q, 5), Answer(q, 6), Answer(q, 7), Answer(q, 8)),
          read[q].blueprint)

-----------------------------------------------------------------------------
(* Properties.                                                             *)

\* The constraints of ledger_transactions.
Constrained(row) ==
    /\ DOMAIN row = {"direction", "amount", "category", "counterparty", "anomaly", "month", "at", "by"}
    /\ row.direction \in {"inflow", "outflow"} /\ row.amount \in Nat \ {0} /\ row.category # Null
    /\ row.anomaly \in BOOLEAN /\ row.month \in Int /\ row.at \in 0 .. MaxMonths /\ row.by \in Writers

WriterStages == {"idle", "account", "open", "link", "average", "insert", "publish", "list", "run",
                 "stamp", "define", "purge", "replace", "announce", "done", "failed"}

\* Every row has passed the table's constraints, definitions have one name
\* each, and a run belongs to a definition and a row that exist.
TypeOK ==
    /\ account \in BOOLEAN
    /\ \A i \in DOMAIN ledger : Constrained(ledger[i])
    /\ \A i, j \in DOMAIN defs : defs[i].id = defs[j].id => i = j
    /\ \A k \in DOMAIN runs : k[1] \in Ids /\ k[2] \in DOMAIN ledger /\ runs[k] \in Nat \ {0}
    /\ \A i \in DOMAIN events : events[i][2] \in Writers \cup Readers
    /\ link \in [status : {"none", "connected"}, synced : BOOLEAN]
    /\ month \in 0 .. MaxMonths
    /\ \A w \in Writers : write[w].stage \in WriterStages
    /\ \A q \in Readers : read[q].stage \in {"idle", "account", "open", "reading", "done", "failed"}

\* evaluate_and_run (automation.py:125-151): whatever other requests define or
\* delete meanwhile, a definition that stood before a request began and still
\* stands has run exactly once on each of its rows that it matches, and no
\* definition has run on a row it does not match.
Settled(w) ==
    IF write[w].stage \in {"publish", "list", "run", "failed"} /\ RowsOf(w) # {}
    THEN RowsOf(w) \ {Current(w)} ELSE RowsOf(w)

EveryMatchRuns ==
    /\ \A w \in Writers : \A i \in Settled(w), n \in DOMAIN defs :
          defs[n].id \in write[w].before /\ Applies(defs[n], ledger[i])
             => BagIn(<<defs[n].id, i>>, runs)
    /\ \A k \in DOMAIN runs :
          runs[k] = 1 /\ \E n \in DOMAIN defs : defs[n].id = k[1] /\ Applies(defs[n], ledger[k[2]])

\* record_transaction reads the average and inserts in two statements
\* (graph.py:109, 118): a flag may be behind the ledger, but never further than
\* the same request's previous row - it is what the rule says of some ledger
\* since then.
FlagsHonest ==
    \A i \in DOMAIN ledger :
        LET r    == ledger[i]
            own  == {j \in 1 .. i - 1 : ledger[j].by = r.by}
            base == IF own = {} THEN 0 ELSE Max(own)
            then == IF own = {} THEN 0 ELSE ledger[base].at
        IN  \E k \in base .. i - 1, m \in then .. r.at :
                r.anomaly = Flagged(r.direction, r.amount, RecentAverage(SubSeq(ledger, 1, k), m))

\* How many rows a writer has recorded when it records this one.
Place(w, i) == Cardinality(RowsOf(w) \cap 1 .. i)

\* _graph_import_csv and _providers_connect commit row by row (engine.py:841,
\* 1007): whatever fails, what is there is a beginning of the file in its order,
\* and the event at the end counts all of it.
ImportsArePrefixes ==
    \A w \in Writers : write[w].stage # "idle" /\ Kind(w) \in {"import", "connect"} =>
        LET all == Source(write[w].job)
        IN  /\ Cardinality(RowsOf(w)) <= Len(all)
            /\ \A i \in RowsOf(w) : /\ ledger[i].direction = all[Place(w, i)].direction
                                   /\ ledger[i].amount = all[Place(w, i)].amount
            /\ \A i \in DOMAIN events :
                   events[i][2] = w => events[i][3] = Len(all) /\ Cardinality(RowsOf(w)) = Len(all)

\* last_synced_at is only set behind a whole history (engine.py:1027): a
\* connection that fails in the middle, or is made again, does not claim a sync
\* it has not had.
SyncedMeansRecorded ==
    link.synced => \E w \in Writers : /\ write[w].stage # "idle" /\ Kind(w) = "connect"
                                      /\ Cardinality(RowsOf(w)) = Len(History)

\* What a reader shows, by its name.
Find(found, id) == {found[i] : i \in {j \in DOMAIN found : found[j].id = id}}

\* A share is of a whole.
ShareOfWhole(found) == \A f \in Find(found, "top-category") : f.data.total <= f.data.of

\* Health is the headline.
HealthLeads(found) == Find(found, "health-score") # {} => found[1].id = "health-score"

\* What is shown is what the summary says.
OfSummary(found, s, plan) ==
    /\ \A f \in Find(found, "health-score") : f.data = Score(s)
    /\ \A f \in Find(found, "flow-trend") : f.data.current = s.net
    /\ \A f \in Find(found, "top-category") : f.data.of <= s.outflow
    /\ \A f \in Find(found, "anomalies") : plan = "reasoning" => Len(f.data) <= s.anomalies

\* A replay without scenarios is the forecast, and one of 1 a day is below it.
LikeForecast(forecast, plain, daily) ==
    /\ forecast.data = plain.ending_balance
    /\ forecast.severity = "critical" => plain.goes_negative_on # Null
    /\ daily.ending_balance = plain.ending_balance - 30 * 30

ReplayOf(q, scenarios) == Simulate(SummaryOf(q), scenarios, 30)

\* Three modules repeat the same queries (graph.py, ai/insights.py and
\* analysis_engine.py, simulator.py).  If nothing happens while a reader reads,
\* what it shows agrees with its summary; a share is one of a whole as long as
\* no month ends, whatever is recorded between the two statements; health, when
\* it is shown at all, is the headline; and a replay without scenarios arrives
\* where the forecast does, one of 1 a day thirty lower.
FindingsAgree ==
    \A q \in Readers : read[q].stage = "done" =>
        /\ read[q].plan \in {"insights", "reasoning"} =>
              /\ Moment(q, 6).month = Moment(q, 7).month => ShareOfWhole(FindingsOf(q))
              /\ HealthLeads(FindingsOf(q))
              /\ (\A k \in 2 .. 8 : Moment(q, k) = Moment(q, 1))
                    => OfSummary(FindingsOf(q), SummaryOf(q), read[q].plan)
        /\ read[q].plan = "replay.create" =>
              LikeForecast(ForecastFinding(SummaryOf(q)), ReplayOf(q, <<>>),
                           ReplayOf(q, <<Scenario("recurring", -1, 0, 0)>>))

===============================================================================

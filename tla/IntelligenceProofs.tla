-------------------------- MODULE IntelligenceProofs --------------------------
(***************************************************************************)
(* Proofs about the Intelligence Cycle: the dashboard's staleness bound,   *)
(* the age of reports and how often an alert is repeated, for any number   *)
(* of tasks and readers, any time to live, and whatever alerts the ledger  *)
(* gives cause to.  Liveness is TLC's.                                     *)
(***************************************************************************)
EXTENDS Intelligence, SequenceTheorems, FiniteSetTheorems, TLAPS

\* The ledger only grows, and only to its bound.
LEMMA Times == /\ MaxTransactions \in Nat /\ Ttl \in Nat /\ Ttl > 0
               /\ Ledger \subseteq Nat /\ 0 \in Ledger /\ 1 \in 1 .. Ttl
BY TimesAssumption, SMT DEF Ledger

-----------------------------------------------------------------------------
(* The dashboard.                                                          *)

DashTypes ==
    /\ ledger \in Ledger
    /\ past \in [1 .. Ttl -> Ledger]
    /\ cache \in Entry
    /\ read \in [Readers -> Read]

\* An entry begun less than age + 1 ticks ago knows the ledger of that tick.
Current(e) == e.age < Ttl => e.data >= past[e.age + 1]

Remembered ==
    /\ \A i \in 1 .. Ttl : past[i] <= ledger
    /\ \A i, j \in 1 .. Ttl : i <= j => past[j] <= past[i]

DashInv ==
    /\ DashTypes
    /\ Remembered
    /\ Current(cache)
    /\ \A r \in Readers : read[r].stage = "fill" => Current(read[r].entry)

\* Nothing is cached at first.
LEMMA InitDash == Init => DashInv
<1> SUFFICES ASSUME Init PROVE DashInv
  OBVIOUS
<1>1. /\ ledger = 0 /\ past = [i \in 1 .. Ttl |-> 0]
      /\ cache = NoEntry /\ read = [r \in Readers |-> IdleRead]
  BY DEF Init
<1>2. NoEntry \in Entry /\ IdleRead \in Read /\ NoEntry.age = Ttl /\ IdleRead.stage = "idle"
  BY Times, SMT DEF NoEntry, IdleRead, Entry, Read
<1>3. DashTypes
  BY <1>1, <1>2, Times DEF DashTypes
<1>4. Remembered
  BY <1>1 DEF Remembered
<1>5. Current(cache)
  BY <1>1, <1>2, Times DEF Current
<1>6. \A r \in Readers : read[r].stage = "idle"
  BY <1>1, <1>2
<1> QED
  BY <1>3, <1>4, <1>5, <1>6 DEF DashInv

\* Steps that leave the dashboard and the clock alone, but may add transactions.
LEMMA OthersDash ==
    ASSUME DashInv, ledger' \in Ledger, ledger <= ledger', past' = past, read' = read,
           cache' = cache \/ cache' = NoEntry
    PROVE  DashInv'
<1>1. NoEntry \in Entry /\ NoEntry.age = Ttl
  BY Times, SMT DEF NoEntry, Entry
<1>2. DashTypes'
  BY <1>1 DEF DashTypes, DashInv
<1>3. Remembered'
  <2>1. \A i \in 1 .. Ttl : past[i] \in Ledger /\ past[i] <= ledger
    BY DEF DashInv, DashTypes, Remembered
  <2>2. ledger \in Nat /\ ledger' \in Nat /\ \A i \in 1 .. Ttl : past[i] \in Nat
    BY <2>1, Times DEF DashInv, DashTypes
  <2>3. \A i \in 1 .. Ttl : past[i] <= ledger'
    BY <2>1, <2>2
  <2> QED
    BY <2>3 DEF Remembered, DashInv
<1>4. Current(cache)'
  BY <1>1, Times DEF Current, DashInv
<1>5. \A r \in Readers : read'[r].stage = "fill" => Current(read[r].entry)'
  BY DEF Current, DashInv
<1> QED
  BY <1>2, <1>3, <1>4, <1>5 DEF DashInv

\* A reader's entry is stamped before its ledger is read, so it is at least as new as its age.
LEMMA ReadDash ==
    ASSUME DashInv, NEW r \in Readers, ReadStep(r)
    PROVE  DashInv'
<1>0. /\ ledger' = ledger /\ past' = past
      /\ read \in [Readers -> Read] /\ read[r] \in Read /\ read[r].entry \in Entry
  BY DEF DashInv, DashTypes, ReadStep, StartRead, Compute, Fill, Read
<1>1. Remembered'
  BY <1>0 DEF DashInv, Remembered
<1>2. CASE StartRead(r)
  <2>1. [stage |-> "compute", entry |-> [data |-> 0, age |-> 0]] \in Read
    BY Times, SMT DEF Read, Entry
  <2>2. DashTypes'
    BY <1>0, <1>2, <2>1 DEF StartRead, DashInv, DashTypes
  <2>3. Current(cache)'
    BY <1>0, <1>2 DEF StartRead, Current, DashInv
  <2>4. ASSUME NEW s \in Readers, read'[s].stage = "fill" PROVE Current(read[s].entry)'
    BY <1>0, <1>2, <2>4 DEF StartRead, Current, DashInv
  <2> QED
    BY <1>1, <2>2, <2>3, <2>4 DEF DashInv
<1>3. CASE Compute(r)
  <2>1. read' = [read EXCEPT ![r] = [read[r] EXCEPT !.stage = "fill",
                                                    !.entry = [read[r].entry EXCEPT !.data = ledger]]]
    BY <1>3 DEF Compute
  <2> DEFINE new == [read[r] EXCEPT !.stage = "fill",
                                    !.entry = [read[r].entry EXCEPT !.data = ledger]]
  <2>2. /\ new \in Read /\ new.entry.data = ledger /\ new.entry.age = read[r].entry.age
        /\ new.stage = "fill"
    BY <1>0 DEF Read, Entry, DashInv, DashTypes
  <2> HIDE DEF new
  <2>3. DashTypes'
    BY <1>0, <1>3, <2>1, <2>2 DEF Compute, DashInv, DashTypes, new
  <2>4. Current(cache)'
    BY <1>0, <1>3 DEF Compute, Current, DashInv
  <2>6. ASSUME NEW s \in Readers, read'[s].stage = "fill" PROVE Current(read[s].entry)'
    <3>1. CASE s = r
      <4>1. read'[s].entry.data = ledger /\ read'[s].entry.age = read[r].entry.age
        BY <1>0, <2>1, <2>2, <3>1 DEF new
      <4>2. read[r].entry.age \in 0 .. Ttl
        BY <1>0 DEF Entry
      <4>3. read[r].entry.age < Ttl => past[read[r].entry.age + 1] <= ledger
        BY <4>2, Times DEF DashInv, Remembered
      <4>4. read[r].entry.age < Ttl => past[read[r].entry.age + 1] \in Nat
        <5>1. past \in [1 .. Ttl -> Ledger]
          BY DEF DashInv, DashTypes
        <5>2. read[r].entry.age < Ttl => read[r].entry.age + 1 \in 1 .. Ttl
          BY <4>2, Times
        <5> QED
          BY <5>1, <5>2, Times
      <4>5. ledger \in Nat
        BY Times DEF DashInv, DashTypes
      <4> QED
        BY <1>0, <4>1, <4>3, <4>4, <4>5 DEF Current
    <3>2. CASE s # r
      BY <1>0, <2>1, <2>6, <3>2 DEF Current, DashInv
    <3> QED
      BY <3>1, <3>2
  <2> QED
    BY <1>1, <2>3, <2>4, <2>6 DEF DashInv
<1>4. CASE Fill(r)
  <2>1. IdleRead \in Read /\ IdleRead.stage = "idle"
    BY Times, SMT DEF IdleRead, NoEntry, Entry, Read
  <2>2. DashTypes'
    BY <1>0, <1>4, <2>1 DEF Fill, DashInv, DashTypes
  <2>3. Current(cache)'
    BY <1>0, <1>4 DEF Fill, Current, DashInv
  <2>4. ASSUME NEW s \in Readers, read'[s].stage = "fill" PROVE Current(read[s].entry)'
    BY <1>0, <1>4, <2>1, <2>4 DEF Fill, Current, DashInv
  <2> QED
    BY <1>1, <2>2, <2>3, <2>4 DEF DashInv
<1> QED
  BY <1>2, <1>3, <1>4 DEF ReadStep

Aged(e) == [e EXCEPT !.age = Older(e.age)]

\* A tick makes an entry one older and moves the history by one.
LEMMA Ageing ==
    ASSUME DashInv, Tick, NEW e \in Entry
    PROVE  /\ Aged(e) \in Entry
           /\ Current(e) => (Aged(e).age < Ttl => Aged(e).data >= past'[Aged(e).age + 1])
<1>1. e.age \in 0 .. Ttl /\ e.data \in Ledger /\ Ttl \in Nat /\ Ttl > 0
  BY Times DEF Entry
<1>2. Older(e.age) \in 0 .. Ttl /\ (Older(e.age) < Ttl => Older(e.age) = e.age + 1)
  BY <1>1 DEF Older
<1>3. Aged(e) \in Entry /\ Aged(e).age = Older(e.age) /\ Aged(e).data = e.data
  BY <1>1, <1>2 DEF Aged, Entry
<1>4. ASSUME Current(e), Older(e.age) < Ttl PROVE e.data >= past'[Older(e.age) + 1]
  <2>1. Older(e.age) = e.age + 1 /\ e.age + 1 \in 1 .. Ttl /\ e.age + 2 \in 1 .. Ttl
        /\ e.age + 2 # 1 /\ (e.age + 2) - 1 = e.age + 1 /\ (e.age + 1) + 1 = e.age + 2
    BY <1>1, <1>2, <1>4
  <2>2. past'[e.age + 2] = past[e.age + 1]
    <3>1. \A i \in 1 .. Ttl : past'[i] = IF i = 1 THEN ledger ELSE past[i - 1]
      BY DEF Tick
    <3> QED
      BY <2>1, <3>1
  <2> QED
    BY <1>1, <1>4, <2>1, <2>2 DEF Current
<1> QED
  BY <1>3, <1>4

\* A tick ages entries and remembered ledgers alike.
LEMMA TickDash == ASSUME DashInv, Tick PROVE DashInv'
<1>0. /\ ledger' = ledger /\ cache' = Aged(cache)
      /\ read' = [r \in Readers |-> [read[r] EXCEPT !.entry = Aged(read[r].entry)]]
      /\ past' = [i \in 1 .. Ttl |-> IF i = 1 THEN ledger ELSE past[i - 1]]
  BY DEF Tick, Aged
<1>1. /\ ledger \in Nat /\ past \in [1 .. Ttl -> Ledger] /\ Ttl \in Nat /\ Ttl > 0
      /\ ledger \in Ledger /\ cache \in Entry /\ Ledger \subseteq Nat
      /\ \A r \in Readers : read[r] \in Read /\ read[r].entry \in Entry
  BY Times DEF DashInv, DashTypes, Read
<1>2. \A i \in 1 .. Ttl : i # 1 => i - 1 \in 1 .. Ttl
  BY <1>1
<1>3. \A i \in 1 .. Ttl : past'[i] = IF i = 1 THEN ledger ELSE past[i - 1]
  BY <1>0
<1>4. past' \in [1 .. Ttl -> Ledger]
  <2>1. \A i \in 1 .. Ttl : (IF i = 1 THEN ledger ELSE past[i - 1]) \in Ledger
    BY <1>1, <1>2
  <2> QED
    BY <1>0, <2>1
<1>5. ASSUME NEW r \in Readers
      PROVE  /\ read'[r] \in Read
             /\ read'[r].stage = read[r].stage /\ read'[r].entry = Aged(read[r].entry)
  <2>1. Aged(read[r].entry) \in Entry
    BY <1>1, Ageing
  <2>2. read'[r] = [read[r] EXCEPT !.entry = Aged(read[r].entry)]
    BY <1>0
  <2> QED
    BY <1>1, <2>1, <2>2 DEF Read
<1>6. DashTypes'
  <2>1. read' \in [Readers -> Read]
    BY <1>0, <1>5
  <2>2. cache' \in Entry
    BY <1>0, <1>1, Ageing
  <2> QED
    BY <1>0, <1>1, <1>4, <2>1, <2>2 DEF DashTypes
<1>7. Remembered'
  <2>1. \A i \in 1 .. Ttl : past[i] \in Nat /\ past[i] <= ledger
    BY <1>1 DEF DashInv, Remembered
  <2>2. \A i \in 1 .. Ttl : past'[i] <= ledger
    BY <1>1, <1>2, <1>3, <2>1
  <2>3. ASSUME NEW i \in 1 .. Ttl, NEW j \in 1 .. Ttl, i <= j PROVE past'[j] <= past'[i]
    <3>1. CASE i = 1
      BY <1>3, <2>2, <3>1
    <3>2. CASE i # 1
      <4>1. i - 1 \in 1 .. Ttl /\ j - 1 \in 1 .. Ttl /\ i - 1 <= j - 1 /\ j # 1
        BY <1>1, <2>3, <3>2
      <4> QED
        BY <1>3, <3>2, <4>1 DEF DashInv, Remembered
    <3> QED
      BY <3>1, <3>2
  <2> QED
    BY <1>0, <2>2, <2>3 DEF Remembered
<1>8. Current(cache)'
  BY <1>0, <1>1, Ageing DEF Current, DashInv
<1>9. ASSUME NEW r \in Readers, read'[r].stage = "fill" PROVE Current(read[r].entry)'
  <2>1. Current(read[r].entry)
    BY <1>5, <1>9 DEF DashInv
  <2> QED
    BY <1>1, <1>5, <2>1, Ageing DEF Current
<1> QED
  BY <1>6, <1>7, <1>8, <1>9 DEF DashInv

\* The dashboard's invariant is inductive.
LEMMA StepDash == DashInv /\ [Next]_vars => DashInv'
<1> SUFFICES ASSUME DashInv, [Next]_vars PROVE DashInv'
  OBVIOUS
<1>0. ledger \in Ledger /\ ledger \in Nat /\ ledger <= ledger
  BY Times DEF DashInv, DashTypes
<1>1. CASE Activate
  BY <1>0, <1>1, OthersDash DEF Activate
<1>2. CASE Tick
  BY <1>2, TickDash
<1>3. ASSUME NEW t \in Tasks, RecordTransaction(t) \/ ImportRow(t) PROVE DashInv'
  <2>1. ledger' = ledger + 1 /\ ledger < MaxTransactions
        /\ past' = past /\ read' = read /\ cache' = cache
    BY <1>3 DEF RecordTransaction, ImportRow
  <2>2. ledger' \in Ledger /\ ledger <= ledger'
    BY <1>0, <2>1, Times DEF Ledger
  <2> QED
    BY <2>1, <2>2, OthersDash
<1>4. ASSUME NEW t \in Tasks, Observe(t) \/ StartJob(t) \/ CycleStep(t) \/ FailCycle(t)
      PROVE  DashInv'
  <2>1. /\ ledger' = ledger /\ past' = past /\ read' = read
        /\ cache' = cache \/ cache' = NoEntry
    BY <1>4 DEF Observe, StartJob, FailCycle, CycleStep, CheckActive, Summarise, Analyse, Derive,
                Rebuild, RecordMetrics, CheckAlert, InsertAlert, Complete, Reread, StoreReport
  <2> QED
    BY <1>0, <2>1, OthersDash
<1>5. ASSUME NEW r \in Readers, ReadStep(r) PROVE DashInv'
  BY <1>5, ReadDash
<1>6. CASE UNCHANGED vars
  BY <1>0, <1>6, OthersDash DEF vars
<1> QED
  BY <1>1, <1>2, <1>3, <1>4, <1>5, <1>6, Zenon DEF Next

\* What the dashboard serves knows every transaction that was recorded when its
\* time to live began: for any time to live, number of readers and of cycles.
THEOREM DashboardHolds == Spec => []DashboardBounded
<1>1. Init => DashInv
  BY InitDash
<1>2. DashInv /\ [Next]_vars => DashInv'
  BY StepDash
<1>3. DashInv => DashboardBounded
  <2> SUFFICES ASSUME DashInv, cache.age < Ttl PROVE cache.data >= past[Ttl]
    BY DEF DashboardBounded
  <2>1. /\ cache.age \in 0 .. Ttl /\ cache.data \in Nat /\ Ttl \in Nat /\ Ttl > 0
        /\ past \in [1 .. Ttl -> Ledger] /\ Ledger \subseteq Nat
    BY Times DEF DashInv, DashTypes, Entry
  <2>2. cache.age + 1 \in 1 .. Ttl /\ Ttl \in 1 .. Ttl /\ cache.age + 1 <= Ttl
    BY <2>1
  <2>3. past[Ttl] <= past[cache.age + 1] /\ past[Ttl] \in Nat /\ past[cache.age + 1] \in Nat
    BY <2>1, <2>2 DEF DashInv, Remembered
  <2>4. cache.data >= past[cache.age + 1]
    BY DEF DashInv, Current
  <2> QED
    BY <2>1, <2>3, <2>4
<1> QED
  BY <1>1, <1>2, <1>3, PTL DEF Spec

-----------------------------------------------------------------------------
(* Reports.                                                                *)

JobTypes ==
    /\ ledger \in Ledger
    /\ report \in Report
    /\ job \in [Tasks -> Job]

\* Nobody has analysed more than was recorded, and what is read later is newer.
InOrder(t) ==
    /\ job[t].analysis <= ledger
    /\ At(t, "store") => job[t].latest >= job[t].analysis

ReportInv ==
    /\ JobTypes
    /\ report.read >= report.cycle
    /\ \A t \in Tasks : InOrder(t)

\* An idle task is well formed.
LEMMA IdleTyped == IdleJob \in Job /\ IdleJob.analysis = 0 /\ IdleJob.stage = "idle"
BY Times DEF IdleJob, Job, Stages

\* No report exists at first.
LEMMA InitReport == Init => ReportInv
<1> SUFFICES ASSUME Init PROVE ReportInv
  OBVIOUS
<1>1. /\ ledger = 0 /\ report = [cycle |-> 0, read |-> 0] /\ job = [t \in Tasks |-> IdleJob]
  BY DEF Init
<1> QED
  BY <1>1, IdleTyped, Times DEF ReportInv, JobTypes, Report, InOrder, At

\* A step that replaces the record of one task by one in order.
LEMMA OneJob ==
    ASSUME ReportInv, NEW t \in Tasks, NEW new \in Job,
           job' = [job EXCEPT ![t] = new], ledger' \in Ledger, ledger <= ledger',
           new.analysis <= ledger', new.stage = "store" => new.latest >= new.analysis,
           report' \in Report, report'.read >= report'.cycle
    PROVE  ReportInv'
<1>1. JobTypes'
  BY DEF ReportInv, JobTypes
<1>2. ASSUME NEW s \in Tasks PROVE InOrder(s)'
  <2>1. CASE s = t
    BY <2>1 DEF ReportInv, JobTypes, InOrder, At
  <2>2. CASE s # t
    <3>1. job'[s] = job[s] /\ job[s].analysis \in Nat /\ ledger \in Nat /\ ledger' \in Nat
      BY <2>2, Times DEF ReportInv, JobTypes, Job
    <3>2. job[s].analysis <= ledger /\ (At(s, "store") => job[s].latest >= job[s].analysis)
      BY DEF ReportInv, InOrder
    <3> QED
      BY <3>1, <3>2 DEF InOrder, At
  <2> QED
    BY <2>1, <2>2
<1> QED
  BY <1>1, <1>2 DEF ReportInv

\* Findings are alerts.
LEMMA FindingsTyped ==
    ASSUME NEW s \in Ledger, NEW a \in Ledger PROVE Findings(s, a) \in SUBSET Alerts
BY AlertsAssumption DEF Findings, Ledger

\* A cycle's readings are in order, and so are those of its report.
LEMMA StepReport == ReportInv /\ [Next]_vars => ReportInv'
<1> SUFFICES ASSUME ReportInv, [Next]_vars PROVE ReportInv'
  OBVIOUS
<1>0. /\ ledger \in Ledger /\ ledger \in Nat /\ ledger <= ledger
      /\ report \in Report /\ report.read >= report.cycle
      /\ job \in [Tasks -> Job]
  BY Times DEF ReportInv, JobTypes
<1>1. ASSUME UNCHANGED <<ledger, report, job>> PROVE ReportInv'
  BY <1>1 DEF ReportInv, JobTypes, InOrder, At
<1>2. ASSUME NEW t \in Tasks
      PROVE  /\ job[t] \in Job /\ job[t].analysis \in Ledger /\ job[t].summary \in Ledger
             /\ job[t].latest \in Ledger /\ job[t].todo \in SUBSET Alerts
             /\ job[t].analysis <= ledger
             /\ At(t, "store") => job[t].latest >= job[t].analysis
  BY <1>0 DEF ReportInv, InOrder, Job
<1>3. ASSUME NEW t \in Tasks, RecordTransaction(t) PROVE ReportInv'
  <2> DEFINE new == [IdleJob EXCEPT !.stage = "check"]
  <2>1. new \in Job /\ new.analysis = 0 /\ new.stage = "check"
    BY IdleTyped DEF IdleJob, Job, Stages
  <2>2. ledger' = ledger + 1 /\ ledger < MaxTransactions
        /\ job' = [job EXCEPT ![t] = new] /\ report' = report
    BY <1>3 DEF RecordTransaction
  <2>3. ledger' \in Ledger /\ ledger <= ledger' /\ 0 <= ledger'
    BY <1>0, <2>2, Times DEF Ledger
  <2> HIDE DEF new
  <2> QED
    BY <1>0, <2>1, <2>2, <2>3, OneJob
<1>4. ASSUME NEW t \in Tasks, ImportRow(t) PROVE ReportInv'
  <2>1. /\ ledger' = ledger + 1 /\ ledger < MaxTransactions /\ report' = report
        /\ job' = [job EXCEPT ![t] = job[t]] /\ job[t].stage = "idle"
    BY <1>0, <1>4 DEF ImportRow, At
  <2>2. ledger' \in Ledger /\ ledger \in Nat /\ ledger' = ledger + 1 /\ job[t].analysis \in Nat
    BY <1>0, <1>2, <2>1, Times DEF Ledger
  <2>3. ledger <= ledger' /\ job[t].analysis <= ledger'
    BY <1>2, <2>2
  <2> QED
    BY <1>0, <1>2, <2>1, <2>2, <2>3, OneJob
<1>5. ASSUME NEW t \in Tasks, Observe(t) PROVE ReportInv'
  <2> DEFINE new == [IdleJob EXCEPT !.stage = "check"]
  <2>1. new \in Job /\ new.analysis = 0 /\ new.stage = "check"
    BY IdleTyped DEF IdleJob, Job, Stages
  <2>2. ledger' = ledger /\ report' = report /\ 0 <= ledger /\ job' = [job EXCEPT ![t] = new]
    BY <1>0, <1>5 DEF Observe
  <2> HIDE DEF new
  <2> QED
    BY <1>0, <2>1, <2>2, OneJob
<1>6. ASSUME NEW t \in Tasks, StartJob(t) PROVE ReportInv'
  <2>1. PICK reports \in BOOLEAN :
           job' = [job EXCEPT ![t] = [IdleJob EXCEPT !.stage = "check", !.reports = reports]]
    BY <1>6 DEF StartJob
  <2> DEFINE new == [IdleJob EXCEPT !.stage = "check", !.reports = reports]
  <2>2. new \in Job /\ new.analysis = 0 /\ new.stage = "check"
    BY IdleTyped DEF IdleJob, Job, Stages
  <2>3. ledger' = ledger /\ report' = report /\ 0 <= ledger
    BY <1>0, <1>6 DEF StartJob
  <2>4. job' = [job EXCEPT ![t] = new]
    BY <2>1
  <2> HIDE DEF new
  <2> QED
    BY <1>0, <2>2, <2>3, <2>4, OneJob
<1>7. ASSUME NEW t \in Tasks, job' = [job EXCEPT ![t] = IdleJob], ledger' = ledger, report' = report
      PROVE  ReportInv'
  <2>1. 0 <= ledger
    BY <1>0
  <2> QED
    BY <1>0, <1>7, <2>1, IdleTyped, OneJob
<1>8. ASSUME NEW t \in Tasks, NEW stage \in Stages, stage # "store",
             job' = [job EXCEPT ![t].stage = stage], ledger' = ledger, report' = report
      PROVE  ReportInv'
  <2> DEFINE new == [job[t] EXCEPT !.stage = stage]
  <2>1. new \in Job /\ new.analysis = job[t].analysis /\ new.stage = stage
    BY <1>2 DEF Job
  <2>2. job' = [job EXCEPT ![t] = new]
    BY <1>0, <1>8
  <2> HIDE DEF new
  <2> QED
    BY <1>0, <1>2, <1>8, <2>1, <2>2, OneJob
<1>9. ASSUME NEW t \in Tasks, CycleStep(t) PROVE ReportInv'
  <2>1. CASE CheckActive(t)
    <3>1. CASE on
      BY <1>8, <2>1, <3>1 DEF CheckActive, Goto, Stages
    <3>2. CASE ~on
      BY <1>7, <2>1, <3>2 DEF CheckActive, Finish
    <3> QED
      BY <3>1, <3>2
  <2>2. CASE Summarise(t)
    <3> DEFINE new == [job[t] EXCEPT !.stage = "analysis", !.summary = ledger]
    <3>1. new \in Job /\ new.analysis = job[t].analysis /\ new.stage = "analysis"
      BY <1>0, <1>2 DEF Job, Stages
    <3>2. job' = [job EXCEPT ![t] = new] /\ ledger' = ledger /\ report' = report
      BY <1>0, <2>2 DEF Summarise
    <3> HIDE DEF new
    <3> QED
      BY <1>0, <1>2, <3>1, <3>2, OneJob
  <2>3. CASE Analyse(t)
    <3> DEFINE found == Findings(job[t].summary, ledger)
               new == [job[t] EXCEPT !.stage = "derive", !.analysis = ledger, !.todo = found]
    <3>0. found \in SUBSET Alerts
      BY <1>0, <1>2, FindingsTyped
    <3>1. job' = [job EXCEPT ![t] = new] /\ ledger' = ledger /\ report' = report
      BY <1>0, <2>3 DEF Analyse
    <3> HIDE DEF found
    <3>2. new \in Job /\ new.analysis = ledger /\ new.stage = "derive"
      BY <1>0, <1>2, <3>0 DEF Job, Stages
    <3> HIDE DEF new
    <3> QED
      BY <1>0, <3>1, <3>2, OneJob
  <2>4. CASE Derive(t)
    <3> DEFINE new == [job[t] EXCEPT !.stage = "rebuild", !.latest = ledger]
    <3>1. new \in Job /\ new.analysis = job[t].analysis /\ new.stage = "rebuild"
      BY <1>0, <1>2 DEF Job, Stages
    <3>2. job' = [job EXCEPT ![t] = new] /\ ledger' = ledger /\ report' = report
      BY <1>0, <2>4 DEF Derive
    <3> HIDE DEF new
    <3> QED
      BY <1>0, <1>2, <3>1, <3>2, OneJob
  <2>5. CASE Rebuild(t)
    <3> DEFINE new == [job[t] EXCEPT !.stage = "metrics", !.latest = 0]
    <3>1. new \in Job /\ new.analysis = job[t].analysis /\ new.stage = "metrics"
      BY <1>0, <1>2, Times DEF Job, Stages
    <3>2. job' = [job EXCEPT ![t] = new] /\ ledger' = ledger /\ report' = report
      BY <1>0, <2>5 DEF Rebuild
    <3> HIDE DEF new
    <3> QED
      BY <1>0, <1>2, <3>1, <3>2, OneJob
  <2>6. CASE RecordMetrics(t)
    <3> DEFINE next == IF job[t].todo = {} THEN "complete" ELSE "alerts"
               new == [job[t] EXCEPT !.stage = next, !.summary = 0]
    <3>0. next \in Stages /\ next # "store"
      BY DEF Stages
    <3>1. job' = [job EXCEPT ![t] = new] /\ ledger' = ledger /\ report' = report
      BY <1>0, <2>6 DEF RecordMetrics
    <3> HIDE DEF next
    <3>2. new \in Job /\ new.analysis = job[t].analysis /\ new.stage = next
      BY <1>0, <1>2, <3>0, Times DEF Job
    <3> HIDE DEF new
    <3> QED
      BY <1>0, <1>2, <3>0, <3>1, <3>2, OneJob
  <2>7. ASSUME NEW a \in Alerts, CheckAlert(t, a) \/ InsertAlert(t, a) PROVE ReportInv'
    <3>1. PICK next \in Stages, todo \in SUBSET Alerts, alert \in SUBSET Alerts :
             /\ next # "store"
             /\ job' = [job EXCEPT ![t].stage = next, ![t].todo = todo, ![t].alert = alert]
      <4>1. AfterAlert(t, a) \in Stages /\ AfterAlert(t, a) # "store"
        BY DEF AfterAlert, Stages
      <4>2. Rest(t, a) \in SUBSET Alerts /\ {a} \in SUBSET Alerts /\ {} \in SUBSET Alerts
        BY <1>2 DEF Rest
      <4>3. job[t].alert \in SUBSET Alerts /\ job[t].todo \in SUBSET Alerts
        BY <1>2 DEF Job
      <4>4. CASE InsertAlert(t, a)
        BY <4>1, <4>2, <4>4 DEF InsertAlert
      <4>5. CASE CheckAlert(t, a) /\ recent[a] = <<>>
        <5>1. job' = [job EXCEPT ![t].stage = "insert", ![t].todo = job[t].todo, ![t].alert = {a}]
          BY <1>0, <1>2, <4>5 DEF CheckAlert, Job
        <5>2. "insert" \in Stages /\ "insert" # "store"
          BY DEF Stages
        <5> QED
          BY <4>2, <4>3, <5>1, <5>2
      <4>6. CASE CheckAlert(t, a) /\ recent[a] # <<>>
        <5>1. job' = [job EXCEPT ![t].stage = AfterAlert(t, a), ![t].todo = Rest(t, a),
                                 ![t].alert = job[t].alert]
          BY <1>0, <1>2, <4>6 DEF CheckAlert, Job
        <5> QED
          BY <4>1, <4>2, <4>3, <5>1
      <4> QED
        BY <2>7, <4>4, <4>5, <4>6
    <3> DEFINE new == [job[t] EXCEPT !.stage = next, !.todo = todo, !.alert = alert]
    <3>2. new \in Job /\ new.analysis = job[t].analysis /\ new.stage = next
      BY <1>2, <3>1 DEF Job
    <3>3. job' = [job EXCEPT ![t] = new] /\ ledger' = ledger /\ report' = report
      BY <1>0, <2>7, <3>1 DEF CheckAlert, InsertAlert
    <3> HIDE DEF new
    <3> QED
      BY <1>0, <1>2, <3>1, <3>2, <3>3, OneJob
  <2>8. CASE Complete(t)
    <3>1. CASE job[t].reports
      BY <1>8, <2>8, <3>1 DEF Complete, Goto, Stages
    <3>2. CASE ~job[t].reports
      BY <1>7, <2>8, <3>2 DEF Complete, Finish
    <3> QED
      BY <3>1, <3>2
  <2>9. CASE Reread(t)
    <3> DEFINE new == [job[t] EXCEPT !.stage = "store", !.latest = ledger]
    <3>1. new \in Job /\ new.analysis = job[t].analysis /\ new.latest = ledger
      BY <1>0, <1>2 DEF Job, Stages
    <3>2. job' = [job EXCEPT ![t] = new] /\ ledger' = ledger /\ report' = report
      BY <1>0, <2>9 DEF Reread
    <3>3. new.latest >= new.analysis
      BY <1>0, <1>2, <3>1, Times
    <3> HIDE DEF new
    <3> QED
      BY <1>0, <1>2, <3>1, <3>2, <3>3, OneJob
  <2>10. CASE StoreReport(t)
    <3>1. report' = [cycle |-> job[t].analysis, read |-> job[t].latest]
          /\ job' = [job EXCEPT ![t] = IdleJob] /\ ledger' = ledger
      BY <2>10 DEF StoreReport, Finish
    <3>2. report' \in Report /\ report'.read >= report'.cycle
      BY <1>2, <2>10, <3>1 DEF StoreReport, Report
    <3>3. 0 <= ledger
      BY <1>0
    <3> QED
      BY <1>0, <3>1, <3>2, <3>3, IdleTyped, OneJob
  <2> QED
    BY <1>9, <2>1, <2>2, <2>3, <2>4, <2>5, <2>6, <2>7, <2>8, <2>9, <2>10 DEF CycleStep
<1>10. ASSUME NEW t \in Tasks, FailCycle(t) PROVE ReportInv'
  BY <1>7, <1>10 DEF FailCycle, Finish
<1>11. CASE Activate \/ Tick \/ UNCHANGED vars \/ \E r \in Readers : ReadStep(r)
  <2>1. UNCHANGED <<ledger, report, job>>
    BY <1>11 DEF Activate, Tick, vars, ReadStep, StartRead, Compute, Fill
  <2> QED
    BY <1>1, <2>1
<1> QED
  BY <1>3, <1>4, <1>5, <1>6, <1>9, <1>10, <1>11, Zenon DEF Next

\* A report never knows less than the cycle it belongs to, for any number of
\* tasks, transactions and failures.
THEOREM ReportHolds == Spec => []ReportNotOlder
<1>1. Init => ReportInv
  BY InitReport
<1>2. ReportInv /\ [Next]_vars => ReportInv'
  BY StepReport
<1>3. ReportInv => ReportNotOlder
  BY DEF ReportInv, InOrder, ReportNotOlder
<1> QED
  BY <1>1, <1>2, <1>3, PTL DEF Spec

-----------------------------------------------------------------------------
(* Alerts.                                                                 *)

\* Tasks between their look at the rows of a kind and their insert.
Inserting(a) == {t \in Tasks : At(t, "insert") /\ job[t].alert = {a}}

StatusTypes ==
    /\ on \in BOOLEAN
    /\ graph \in Ledger /\ trend \in Ledger /\ cycled \in Ledger

\* A row and a task about to add one are never more than the tasks together.
AlertInv ==
    /\ recent \in [Alerts -> Seq(Nat)]
    /\ \A a \in Alerts : Len(recent[a]) + Cardinality(Inserting(a)) <= Cardinality(Tasks)

IInv == DashInv /\ ReportInv /\ StatusTypes /\ AlertInv

\* There are finitely many tasks, and so are those inserting an alert.
LEMMA TasksFinite == /\ IsFiniteSet(Tasks) /\ Cardinality(Tasks) \in Nat
BY TasksAssumption, FS_CardinalityType DEF Tasks

\* Some of the tasks are finitely many.
LEMMA InsertingFinite ==
    ASSUME NEW S \in SUBSET Tasks
    PROVE  IsFiniteSet(S) /\ Cardinality(S) \in Nat /\ Cardinality(S) <= Cardinality(Tasks)
BY TasksFinite, FS_Subset, FS_CardinalityType

\* What stays in the window is a suffix of what was there.
LEMMA WindowShrinks ==
    ASSUME NEW ages \in Seq(Nat), NEW a
    PROVE  InWindow(ages, a) \in Seq(Nat) /\ Len(InWindow(ages, a)) <= Len(ages)
<1> DEFINE out == {i \in DOMAIN ages : ages[i] >= Window[a]}
           n == Len(ages)
<1>1. n \in Nat /\ DOMAIN ages = 1 .. n /\ \A i \in 1 .. n : ages[i] \in Nat
  BY LenProperties, ElementOfSeq
<1>2. IsFiniteSet(1 .. n)
  BY <1>1, FS_Interval
<1>3. Cardinality(out) \in Nat
  BY <1>1, <1>2, FS_Subset, FS_CardinalityType
<1>4. PICK k \in Nat : k = Cardinality(out)
  BY <1>3
<1>5. InWindow(ages, a) = SubSeq(ages, k + 1, n)
  BY <1>4 DEF InWindow
<1>6. \A i \in k + 1 .. n : ages[i] \in Nat
  BY <1>1
<1> HIDE DEF out, n
<1>7. SubSeq(ages, k + 1, n) \in Seq(Nat)
      /\ Len(SubSeq(ages, k + 1, n)) = IF k + 1 <= n THEN n - (k + 1) + 1 ELSE 0
  BY <1>1, <1>6, SubSeqProperties
<1> QED
  BY <1>1, <1>5, <1>7 DEF n

\* Nothing is stored at first.
LEMMA InitAlerts == Init => StatusTypes /\ AlertInv
<1> SUFFICES ASSUME Init PROVE StatusTypes /\ AlertInv
  OBVIOUS
<1>1. StatusTypes
  BY Times DEF Init, StatusTypes
<1>2. recent = [a \in Alerts |-> <<>>]
  BY DEF Init
<1>3. recent \in [Alerts -> Seq(Nat)] /\ \A a \in Alerts : Len(recent[a]) = 0
  BY <1>2, EmptySeq
<1>4. ASSUME NEW a \in Alerts PROVE Cardinality(Inserting(a)) \in Nat
                                    /\ Cardinality(Inserting(a)) <= Cardinality(Tasks)
  BY InsertingFinite DEF Inserting
<1> QED
  BY <1>1, <1>3, <1>4, TasksFinite DEF AlertInv

\* A step that stores nothing and sends nobody to store keeps the bound.
LEMMA NobodyInserts ==
    ASSUME IInv, recent' \in [Alerts -> Seq(Nat)],
           \A a \in Alerts : Len(recent'[a]) <= Len(recent[a]),
           \A a \in Alerts : Inserting(a)' \subseteq Inserting(a)
    PROVE  AlertInv'
<1> SUFFICES ASSUME NEW a \in Alerts
             PROVE  Len(recent'[a]) + Cardinality(Inserting(a)') <= Cardinality(Tasks)
  BY DEF AlertInv, Tasks
<1>1. Len(recent'[a]) \in Nat /\ Len(recent[a]) \in Nat /\ Len(recent'[a]) <= Len(recent[a])
  BY LenProperties DEF IInv, AlertInv
<1>2. IsFiniteSet(Inserting(a)) /\ Cardinality(Inserting(a)) \in Nat
  BY InsertingFinite DEF Inserting
<1>3. Inserting(a)' \in SUBSET Inserting(a)
  OBVIOUS
<1>4. IsFiniteSet(Inserting(a)') /\ Cardinality(Inserting(a)') <= Cardinality(Inserting(a))
  BY <1>2, <1>3, FS_Subset
<1>5. Cardinality(Inserting(a)') \in Nat
  BY <1>4, FS_CardinalityType
<1>6. Len(recent[a]) + Cardinality(Inserting(a)) <= Cardinality(Tasks)
  BY DEF IInv, AlertInv
<1> QED
  BY <1>1, <1>2, <1>4, <1>5, <1>6, TasksFinite

\* A task that goes anywhere but to its insert leaves the others where they are.
LEMMA OthersInsert ==
    ASSUME NEW t \in Tasks, \A s \in Tasks \ {t} : job'[s] = job[s],
           job'[t].stage # "insert", NEW a
    PROVE  Inserting(a)' = Inserting(a) \ {t}
BY DEF Inserting, At, Tasks

\* A task that has no insert to do is nowhere near one.
LEMMA QuietStep ==
    ASSUME IInv, NEW t \in Tasks, \A s \in Tasks \ {t} : job'[s] = job[s],
           job'[t].stage # "insert", recent' = recent
    PROVE  AlertInv'
<1>1. recent' \in [Alerts -> Seq(Nat)] /\ \A a \in Alerts : Len(recent'[a]) <= Len(recent[a])
  BY LenProperties DEF IInv, AlertInv
<1>2. \A a \in Alerts : Inserting(a)' \subseteq Inserting(a)
  BY OthersInsert
<1> QED
  BY <1>1, <1>2, NobodyInserts

\* Where a cycle's task is after each of its steps but the two on alerts.
LEMMA CycleQuiet ==
    ASSUME IInv, NEW t \in Tasks,
           \/ RecordTransaction(t) \/ Observe(t) \/ StartJob(t) \/ FailCycle(t)
           \/ CheckActive(t) \/ Summarise(t) \/ Analyse(t) \/ Derive(t) \/ Rebuild(t)
           \/ RecordMetrics(t) \/ Complete(t) \/ Reread(t) \/ StoreReport(t)
    PROVE  AlertInv'
<1>0. job \in [Tasks -> Job] /\ IdleJob.stage = "idle" /\ DOMAIN IdleJob = DOMAIN job[t]
  BY DEF IInv, ReportInv, JobTypes, IdleJob, Job
<1>1. CASE RecordTransaction(t)
  BY <1>0, <1>1, QuietStep DEF RecordTransaction, IdleJob
<1>2. CASE Observe(t)
  BY <1>0, <1>2, QuietStep DEF Observe, IdleJob
<1>3. CASE StartJob(t)
  <2>1. PICK reports \in BOOLEAN :
           job' = [job EXCEPT ![t] = [IdleJob EXCEPT !.stage = "check", !.reports = reports]]
    BY <1>3 DEF StartJob
  <2> QED
    BY <1>0, <1>3, <2>1, QuietStep DEF StartJob, IdleJob
<1>4. CASE FailCycle(t)
  BY <1>0, <1>4, QuietStep DEF FailCycle, Finish
<1>5. CASE CheckActive(t)
  <2>1. job'[t].stage # "insert" /\ \A s \in Tasks \ {t} : job'[s] = job[s]
    <3>1. CASE on
      BY <1>0, <1>5, <3>1 DEF CheckActive, Goto, Job
    <3>2. CASE ~on
      BY <1>0, <1>5, <3>2 DEF CheckActive, Finish
    <3> QED
      BY <3>1, <3>2
  <2> QED
    BY <1>5, <2>1, QuietStep DEF CheckActive
<1>6. CASE Summarise(t)
  BY <1>0, <1>6, QuietStep DEF Summarise, Job
<1>7. CASE Analyse(t)
  <2> DEFINE found == Findings(job[t].summary, ledger)
  <2>1. job' = [job EXCEPT ![t].stage = "derive", ![t].analysis = ledger, ![t].todo = found]
    BY <1>7 DEF Analyse
  <2> HIDE DEF found
  <2>2. job'[t].stage # "insert" /\ \A s \in Tasks \ {t} : job'[s] = job[s]
    BY <1>0, <2>1 DEF Job
  <2> QED
    BY <1>7, <2>2, QuietStep DEF Analyse
<1>8. CASE Derive(t)
  BY <1>0, <1>8, QuietStep DEF Derive, Job
<1>9. CASE Rebuild(t)
  BY <1>0, <1>9, QuietStep DEF Rebuild, Job
<1>10. CASE RecordMetrics(t)
  <2>1. job'[t].stage # "insert" /\ \A s \in Tasks \ {t} : job'[s] = job[s]
    BY <1>0, <1>10 DEF RecordMetrics, Job
  <2> QED
    BY <1>10, <2>1, QuietStep DEF RecordMetrics
<1>11. CASE Complete(t)
  <2>1. job'[t].stage # "insert" /\ \A s \in Tasks \ {t} : job'[s] = job[s]
    <3>1. CASE job[t].reports
      BY <1>0, <1>11, <3>1 DEF Complete, Goto, Job
    <3>2. CASE ~job[t].reports
      BY <1>0, <1>11, <3>2 DEF Complete, Finish
    <3> QED
      BY <3>1, <3>2
  <2> QED
    BY <1>11, <2>1, QuietStep DEF Complete
<1>12. CASE Reread(t)
  BY <1>0, <1>12, QuietStep DEF Reread, Job
<1>13. CASE StoreReport(t)
  BY <1>0, <1>13, QuietStep DEF StoreReport, Finish
<1> QED
  BY <1>1, <1>2, <1>3, <1>4, <1>5, <1>6, <1>7, <1>8, <1>9, <1>10, <1>11, <1>12, <1>13

\* A task goes to insert an alert only when no row of its kind is in the window.
LEMMA CheckKeepsBound ==
    ASSUME IInv, NEW t \in Tasks, NEW a \in Alerts, CheckAlert(t, a)
    PROVE  AlertInv'
<1>0. job \in [Tasks -> Job] /\ recent' = recent /\ recent \in [Alerts -> Seq(Nat)]
  BY DEF IInv, ReportInv, JobTypes, AlertInv, CheckAlert
<1>1. CASE recent[a] = <<>>
  <2>1. job' = [job EXCEPT ![t].stage = "insert", ![t].alert = {a}]
    BY <1>1 DEF CheckAlert
  <2>2. job'[t].alert = {a} /\ \A s \in Tasks \ {t} : job'[s] = job[s]
    BY <1>0, <2>1 DEF Job
  <2>3. ASSUME NEW b \in Alerts
        PROVE  Len(recent'[b]) + Cardinality(Inserting(b)') <= Cardinality(Tasks)
    <3>1. CASE b = a
      <4>1. Len(recent'[b]) = 0
        BY <1>0, <1>1, <3>1, EmptySeq
      <4>2. Inserting(b)' \in SUBSET Tasks
        BY DEF Inserting, Tasks
      <4>3. Cardinality(Inserting(b)') <= Cardinality(Tasks)
            /\ Cardinality(Inserting(b)') \in Nat
        BY <4>2, InsertingFinite
      <4> QED
        BY <4>1, <4>3, TasksFinite
    <3>2. CASE b # a
      <4>1. job'[t].alert # {b}
        BY <2>2, <3>2
      <4>2. Inserting(b)' \in SUBSET Inserting(b)
        BY <2>2, <4>1 DEF Inserting, At, Tasks
      <4>3. IsFiniteSet(Inserting(b)) /\ Cardinality(Inserting(b)) \in Nat
        BY InsertingFinite DEF Inserting
      <4>4. Cardinality(Inserting(b)') <= Cardinality(Inserting(b))
            /\ Cardinality(Inserting(b)') \in Nat
        BY <4>2, <4>3, FS_Subset, FS_CardinalityType
      <4>5. Len(recent[b]) + Cardinality(Inserting(b)) <= Cardinality(Tasks)
            /\ Len(recent[b]) \in Nat
        BY <1>0, LenProperties DEF IInv, AlertInv
      <4> QED
        BY <1>0, <4>3, <4>4, <4>5, TasksFinite
    <3> QED
      BY <3>1, <3>2
  <2> QED
    BY <1>0, <2>3 DEF AlertInv, Tasks
<1>2. CASE recent[a] # <<>>
  <2>1. job' = [job EXCEPT ![t].stage = AfterAlert(t, a), ![t].todo = Rest(t, a)]
    BY <1>2 DEF CheckAlert
  <2>2. AfterAlert(t, a) # "insert"
    BY DEF AfterAlert
  <2>3. job'[t].stage # "insert" /\ \A s \in Tasks \ {t} : job'[s] = job[s]
    BY <1>0, <2>1, <2>2 DEF Job
  <2> QED
    BY <1>0, <2>3, QuietStep
<1> QED
  BY <1>1, <1>2

\* The row takes the place of the task that stored it.
LEMMA InsertKeepsBound ==
    ASSUME IInv, NEW t \in Tasks, NEW a \in Alerts, InsertAlert(t, a)
    PROVE  AlertInv'
<1>0. job \in [Tasks -> Job] /\ recent \in [Alerts -> Seq(Nat)]
  BY DEF IInv, ReportInv, JobTypes, AlertInv
<1>1. /\ recent' = [recent EXCEPT ![a] = Append(recent[a], 0)]
      /\ job' = [job EXCEPT ![t].stage = AfterAlert(t, a), ![t].todo = Rest(t, a),
                            ![t].alert = {}]
      /\ t \in Inserting(a)
  BY DEF InsertAlert, Inserting
<1>2. AfterAlert(t, a) # "insert"
  BY DEF AfterAlert
<1>3. job'[t].stage # "insert" /\ \A s \in Tasks \ {t} : job'[s] = job[s]
  BY <1>0, <1>1, <1>2 DEF Job
<1>4. /\ Append(recent[a], 0) \in Seq(Nat)
      /\ Len(Append(recent[a], 0)) = Len(recent[a]) + 1
  BY <1>0, AppendProperties
<1>5. recent' \in [Alerts -> Seq(Nat)]
  BY <1>0, <1>1, <1>4
<1>6. ASSUME NEW b \in Alerts
      PROVE  Len(recent'[b]) + Cardinality(Inserting(b)') <= Cardinality(Tasks)
  <2>1. Inserting(b)' = Inserting(b) \ {t}
    BY <1>3, OthersInsert
  <2>2. IsFiniteSet(Inserting(b)) /\ Cardinality(Inserting(b)) \in Nat
    BY InsertingFinite DEF Inserting
  <2>3. Cardinality(Inserting(b) \ {t})
          = IF t \in Inserting(b) THEN Cardinality(Inserting(b)) - 1 ELSE Cardinality(Inserting(b))
    BY <2>2, FS_RemoveElement
  <2>4. /\ Len(recent[b]) + Cardinality(Inserting(b)) <= Cardinality(Tasks)
        /\ Len(recent[b]) \in Nat
    BY <1>0, LenProperties DEF IInv, AlertInv
  <2>5. Len(recent'[b]) = IF b = a THEN Len(recent[b]) + 1 ELSE Len(recent[b])
    BY <1>0, <1>1, <1>4
  <2> QED
    BY <1>1, <2>1, <2>2, <2>3, <2>4, <2>5, TasksFinite
<1> QED
  BY <1>5, <1>6 DEF AlertInv, Tasks

\* Rows that leave their window make room.
LEMMA TickAlerts == ASSUME IInv, Tick PROVE AlertInv'
<1> DEFINE older(a) == [i \in DOMAIN recent[a] |-> recent[a][i] + 1]
<1>1. /\ recent' = [a \in Alerts |-> InWindow(older(a), a)]
      /\ job' = job
  BY DEF Tick
<1>2. ASSUME NEW a \in Alerts
      PROVE  InWindow(older(a), a) \in Seq(Nat) /\ Len(InWindow(older(a), a)) <= Len(recent[a])
  <2>1. PICK ages \in Seq(Nat) : ages = recent[a]
    BY DEF IInv, AlertInv
  <2>2. older(a) \in Seq(Nat) /\ Len(older(a)) = Len(recent[a])
    <3>1. PICK n \in Nat : n = Len(ages) /\ DOMAIN ages = 1 .. n
      BY LenProperties
    <3>2. \A i \in 1 .. n : ages[i] + 1 \in Nat
      BY <3>1, ElementOfSeq
    <3>3. older(a) = [i \in 1 .. n |-> ages[i] + 1]
      BY <2>1, <3>1
    <3> QED
      BY <2>1, <3>1, <3>2, <3>3
  <2> HIDE DEF older
  <2> QED
    BY <2>2, WindowShrinks
<1>3. recent' \in [Alerts -> Seq(Nat)] /\ \A a \in Alerts : Len(recent'[a]) <= Len(recent[a])
  <2> HIDE DEF older
  <2> QED
    BY <1>1, <1>2
<1>4. \A a \in Alerts : Inserting(a)' \subseteq Inserting(a)
  BY <1>1 DEF Inserting, At, Tasks
<1> QED
  BY <1>3, <1>4, NobodyInserts

\* The whole invariant is inductive.
LEMMA StepAlerts == IInv /\ [Next]_vars => IInv'
<1> SUFFICES ASSUME IInv, [Next]_vars PROVE StatusTypes' /\ AlertInv'
  BY StepDash, StepReport DEF IInv
<1>0. /\ StatusTypes /\ ledger \in Ledger
      /\ \A t \in Tasks : job[t].latest \in Ledger /\ job[t].summary \in Ledger
                          /\ job[t].analysis \in Ledger
  BY DEF IInv, DashInv, DashTypes, ReportInv, JobTypes, Job
<1>1. ASSUME UNCHANGED <<on, graph, trend, cycled>> PROVE StatusTypes'
  BY <1>0, <1>1 DEF StatusTypes
<1>2. ASSUME UNCHANGED <<recent, job>> PROVE AlertInv'
  <2>1. recent' \in [Alerts -> Seq(Nat)] /\ \A a \in Alerts : Len(recent'[a]) <= Len(recent[a])
    BY <1>2, LenProperties DEF IInv, AlertInv
  <2>2. \A a \in Alerts : Inserting(a)' \subseteq Inserting(a)
    BY <1>2 DEF Inserting, At, Tasks
  <2> QED
    BY <2>1, <2>2, NobodyInserts
<1>3. CASE Activate
  <2>1. StatusTypes'
    BY <1>0, <1>3 DEF Activate, StatusTypes
  <2> QED
    BY <1>2, <1>3, <2>1 DEF Activate
<1>4. CASE Tick
  BY <1>1, <1>4, TickAlerts DEF Tick
<1>5. ASSUME NEW t \in Tasks,
             RecordTransaction(t) \/ Observe(t) \/ StartJob(t) \/ CycleStep(t) \/ FailCycle(t)
      PROVE  StatusTypes' /\ AlertInv'
  <2>1. StatusTypes'
    <3>1. CASE Rebuild(t)
      BY <1>0, <3>1 DEF Rebuild, StatusTypes
    <3>2. CASE RecordMetrics(t)
      BY <1>0, <3>2 DEF RecordMetrics, StatusTypes
    <3>3. CASE Complete(t)
      BY <1>0, <3>3 DEF Complete, StatusTypes, Max2
    <3>4. CASE ~(Rebuild(t) \/ RecordMetrics(t) \/ Complete(t))
      BY <1>1, <1>5, <3>4
         DEF RecordTransaction, Observe, StartJob, FailCycle, CycleStep, CheckActive, Summarise, Analyse,
             Derive, CheckAlert, InsertAlert, Reread, StoreReport
    <3> QED
      BY <3>1, <3>2, <3>3, <3>4
  <2>2. AlertInv'
    <3>1. ASSUME NEW a \in Alerts, CheckAlert(t, a) \/ InsertAlert(t, a) PROVE AlertInv'
      BY <3>1, CheckKeepsBound, InsertKeepsBound
    <3> QED
      BY <1>5, <3>1, CycleQuiet DEF CycleStep
  <2> QED
    BY <2>1, <2>2
<1>6. ASSUME NEW t \in Tasks, ImportRow(t) PROVE StatusTypes' /\ AlertInv'
  BY <1>1, <1>2, <1>6 DEF ImportRow
<1>7. ASSUME NEW r \in Readers, ReadStep(r) PROVE StatusTypes' /\ AlertInv'
  BY <1>1, <1>2, <1>7 DEF ReadStep, StartRead, Compute, Fill
<1>8. CASE UNCHANGED vars
  BY <1>1, <1>2, <1>8 DEF vars
<1> QED
  BY <1>3, <1>4, <1>5, <1>6, <1>7, <1>8, Zenon DEF Next

\* The invariant holds in every state.
LEMMA Invariant == Spec => []IInv
<1>1. Init => IInv
  BY InitDash, InitReport, InitAlerts DEF IInv
<1>2. IInv /\ [Next]_vars => IInv'
  BY StepAlerts
<1> QED
  BY <1>1, <1>2, PTL DEF Spec

\* Cycles, reports, stored alerts and the dashboard stay well formed.
THEOREM TypesHold == Spec => []TypeOK
<1>1. IInv => TypeOK
  BY DEF IInv, DashInv, DashTypes, ReportInv, JobTypes, StatusTypes, AlertInv, TypeOK
<1> QED
  BY <1>1, Invariant, PTL

\* However cycles overlap, an alert is stored no more often in its window than
\* there are tasks: looking and inserting are two statements, but who looks
\* finds what is stored.
THEOREM AlertsHold == Spec => []AlertsBounded
<1>1. IInv => AlertsBounded
  <2> SUFFICES ASSUME IInv, NEW a \in Alerts PROVE Len(recent[a]) <= Cardinality(Tasks)
    BY DEF AlertsBounded
  <2>1. Cardinality(Inserting(a)) \in Nat
    BY InsertingFinite DEF Inserting
  <2>2. Len(recent[a]) \in Nat /\ Len(recent[a]) + Cardinality(Inserting(a)) <= Cardinality(Tasks)
    BY LenProperties DEF IInv, AlertInv
  <2> QED
    BY <2>1, <2>2, TasksFinite
<1> QED
  BY <1>1, Invariant, PTL

===============================================================================

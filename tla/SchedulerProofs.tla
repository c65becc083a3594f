---------------------------- MODULE SchedulerProofs ----------------------------
(***************************************************************************)
(* Proofs about the scheduler's loop: its types, that a job's reports are  *)
(* an interval apart unless a crash cut the job short, how often a job is  *)
(* repeated and how late it may be, for any companies, jobs and intervals. *)
(* That every job recurs is liveness: TLC checks it.                       *)
(***************************************************************************)
EXTENDS Scheduler, FiniteSetTheorems, SequenceTheorems, TLAPS

\* The intervals as arithmetic facts, and where the loops stand.
LEMMA Constants ==
    /\ \A j \in JobSet : Interval[j] \in Nat /\ Interval[j] > 0
    /\ Jobs \in Seq(JobSet) /\ Jobs # <<>>
    /\ Patience \in Nat /\ Patience + 1 \in Nat
PROOF
<1>1. /\ \A j \in JobSet : Interval[j] \in Nat /\ Interval[j] > 0
      /\ Jobs \in Seq(JobSet) /\ Jobs # <<>>
  BY JobsAssumption, SMT
<1>2. Cardinality(Failing) \in Nat
  BY CompaniesAssumption, FS_Subset, FS_CardinalityType
<1>3. Len(Jobs) \in Nat
  BY <1>1, LenProperties
<1> QED
  BY <1>1, <1>2, <1>3, CrashAssumption, SMT DEF Patience

\* What a cleared or unchanged entry stays below, and what makes a sequence.
LEMMA Below ==
    ASSUME NEW bound \in Nat, NEW x, x = 0 \/ x <= bound PROVE x <= bound
OBVIOUS

\* One tick more than the patience is within the type of late.
LEMMA Successor ==
    ASSUME NEW x \in Nat, x <= Patience PROVE x + 1 \in Nat /\ x + 1 <= Patience + 1
BY Constants, SMT

\* A function on 1 .. n is a sequence.
LEMMA Sequence ==
    ASSUME NEW S, NEW n \in Nat, NEW f \in [1 .. n -> S] PROVE f \in Seq(S)
OBVIOUS

\* While a company is visited, C and J are one of the companies and one of the jobs.
LEMMA Visited ==
    ASSUME TypeOK, todo # <<>>
    PROVE  C \in Companies /\ J \in JobSet
BY SMT DEF TypeOK, C, J

\* Both ways to move on keep the loops well formed.
LEMMA LoopsTyped ==
    ASSUME TypeOK, todo # <<>>, NextJob \/ EndTick
    PROVE  todo' \in Seq(Companies) /\ left' \in Seq(JobSet) /\ left' # <<>>
<1>1. CASE NextJob
  <2>1. /\ todo \in Seq(Companies) /\ todo # <<>> /\ Tail(todo) \in Seq(Companies)
        /\ left \in Seq(JobSet) /\ left # <<>> /\ Tail(left) \in Seq(JobSet)
    BY HeadTailProperties DEF TypeOK
  <2> QED
    BY <1>1, <2>1, Constants DEF NextJob
<1>2. CASE EndTick
  BY <1>2, Constants, SMT DEF TypeOK, EndTick
<1> QED
  BY <1>1, <1>2

\* Clearing an entry of a table, and growing a table by a tick, keep its type.
LEMMA Clearing ==
    ASSUME NEW table \in [Companies -> [JobSet -> Nat]], C \in Companies, J \in JobSet
    PROVE  /\ Clear(table) \in [Companies -> [JobSet -> Nat]]
           /\ Clear(table)[C][J] = 0
           /\ \A c \in Companies, j \in JobSet :
                 /\ Clear(table)[c][j] = 0 \/ Clear(table)[c][j] = table[c][j]
                 /\ (c # C \/ j # J) => Clear(table)[c][j] = table[c][j]
BY DEF Clear

\* A tick ages every job by one, up to its interval.
LEMMA Aging ==
    ASSUME NEW table \in [Companies -> [JobSet -> Nat]],
           \A c \in Companies, j \in JobSet : table[c][j] <= Interval[j]
    PROVE  /\ Older(table) \in [Companies -> [JobSet -> Nat]]
           /\ \A c \in Companies, j \in JobSet :
                 /\ Older(table)[c][j] <= Interval[j]
                 /\ Older(table)[c][j] = IF table[c][j] < Interval[j]
                                         THEN table[c][j] + 1 ELSE Interval[j]
<1> DEFINE Row(c) == [j \in JobSet |-> IF table[c][j] < Interval[j]
                                       THEN table[c][j] + 1 ELSE Interval[j]]
<1>1. \A c \in Companies, j \in JobSet : table[c][j] \in Nat
  OBVIOUS
<1>2. \A c \in Companies : /\ Row(c) \in [JobSet -> Nat]
                           /\ \A j \in JobSet : Row(c)[j] <= Interval[j]
  BY <1>1, Constants, SMT
<1>3. Older(table) = [c \in Companies |-> Row(c)]
  BY Zenon DEF Older
<1> HIDE DEF Row
<1>4. /\ Older(table) \in [Companies -> [JobSet -> Nat]]
      /\ \A c \in Companies : Older(table)[c] = Row(c)
  BY <1>2, <1>3
<1>5. \A c \in Companies, j \in JobSet :
         Row(c)[j] = IF table[c][j] < Interval[j] THEN table[c][j] + 1 ELSE Interval[j]
  BY DEF Row
<1> QED
  BY <1>2, <1>4, <1>5

-----------------------------------------------------------------------------
(* Types.                                                                  *)

\* Types hold before the first tick.
LEMMA InitTyped == Init => TypeOK
<1> SUFFICES ASSUME Init PROVE TypeOK
  OBVIOUS
<1>1. /\ active \subseteq Companies /\ stage = "tick" /\ todo \in Seq(Companies)
      /\ left \in Seq(JobSet) /\ left # <<>> /\ raised \in BOOLEAN
  <2>1. active = {} /\ stage = "tick" /\ todo = <<>> /\ left = Jobs /\ raised = FALSE
    BY DEF Init
  <2> QED
    BY <2>1, Constants, EmptySeq
<1>2. Interval \in [JobSet -> Nat] /\ \A j \in JobSet : Interval[j] \in Nat
  BY JobsAssumption
<1>3. age \in [Companies -> [JobSet -> Nat]] /\ fresh \in [Companies -> [JobSet -> Nat]]
  BY <1>2 DEF Init
<1>4. late \in [Companies -> [JobSet -> Nat]]
  BY DEF Init
<1>5. \A c \in Companies, j \in JobSet : /\ age[c][j] <= Interval[j]
                                         /\ fresh[c][j] <= Interval[j]
                                         /\ late[c][j] <= Patience + 1
  <2> SUFFICES ASSUME NEW c \in Companies, NEW j \in JobSet
               PROVE  age[c][j] <= Interval[j] /\ fresh[c][j] <= Interval[j] /\ late[c][j] <= Patience + 1
    OBVIOUS
  <2>1. age[c][j] = Interval[j] /\ fresh[c][j] = Interval[j] /\ late[c][j] = 0
    BY DEF Init
  <2> QED
    BY <1>2, <2>1, Constants, SMT
<1>6. crashes \in Nat /\ struck \subseteq Companies \X JobSet
  BY DEF Init
<1> QED
  BY <1>1, <1>3, <1>4, <1>5, <1>6, Zenon DEF TypeOK

\* Crashes are counted, and only by Crash.
LEMMA Counted ==
    ASSUME [Next]_vars
    PROVE  crashes' = crashes \/ crashes' = crashes + 1
BY DEF Next, Step, vars, Activate, StartTick, CheckDue, RunCycle, GenerateReport,
       Mark, Sleep, Crash, Restart, Lose

\* Every step keeps what is struck, but for the job that is run: a crash adds it
\* and its mark removes it.
LEMMA Striking ==
    ASSUME TypeOK, [Next]_vars
    PROVE  /\ struck' \subseteq Companies \X JobSet
           /\ Mark \/ Crash \/ Restart \/ struck' = struck
<1>1. CASE Mark \/ Crash \/ Restart
  <2>1. struck' \subseteq struck \cup Current
    BY <1>1 DEF Mark, Crash, Restart, Lose
  <2>2. ASSUME Running PROVE C \in Companies /\ J \in JobSet
    BY <2>2, Visited DEF Running, TypeOK
  <2> QED
    BY <1>1, <2>1, <2>2 DEF Current, TypeOK
<1>2. CASE ~(Mark \/ Crash \/ Restart)
  <2>1. struck' = struck
    BY <1>2 DEF Next, Step, vars, Activate, StartTick, CheckDue, RunCycle, GenerateReport, Sleep
  <2> QED
    BY <2>1 DEF TypeOK
<1> QED
  BY <1>1, <1>2

\* Types are inductive on their own.
LEMMA StepTyped == TypeOK /\ [Next]_vars => TypeOK'
<1> SUFFICES ASSUME TypeOK, [Next]_vars PROVE TypeOK'
  OBVIOUS
<1>a. crashes' \in Nat /\ struck' \subseteq Companies \X JobSet
  <2>1. crashes \in Nat
    BY DEF TypeOK
  <2>2. crashes' \in Nat
    BY <2>1, Counted
  <2> QED
    BY <2>2, Striking
<1> USE <1>a DEF TypeOK
<1>1. ASSUME NEW c \in Companies, Activate(c) PROVE TypeOK'
  BY <1>1 DEF Activate, loops, rows
<1>0. /\ age \in [Companies -> [JobSet -> Nat]] /\ fresh \in [Companies -> [JobSet -> Nat]]
      /\ late \in [Companies -> [JobSet -> Nat]]
      /\ \A c \in Companies, j \in JobSet : /\ age[c][j] <= Interval[j]
                                            /\ fresh[c][j] <= Interval[j]
                                            /\ late[c][j] <= Patience + 1
  OBVIOUS
<1>2. CASE StartTick
  <2>1. Cardinality(active) \in Nat
    BY CompaniesAssumption, FS_Subset, FS_CardinalityType
  <2>2. todo' \in Seq(active)
    <3>1. todo' \in [1 .. Cardinality(active) -> active]
      BY <1>2, Zenon DEF StartTick, SetToSeqs
    <3> QED
      BY <2>1, <3>1, Sequence
  <2>3. todo' \in Seq(Companies)
    BY <2>2
  <2> QED
    BY <1>2, <2>3 DEF StartTick, rows
<1>3. CASE CheckDue
  <2>0. C \in Companies /\ J \in JobSet
    BY <1>3, Visited DEF CheckDue
  <2>1. CASE Due(C, J)
    <3>1. /\ stage' = "cycle" /\ todo' # <<>>
          /\ late' = Clear(late)
          /\ UNCHANGED <<active, todo, left, raised, age, fresh>>
      BY <1>3, <2>1 DEF CheckDue, loops, rows
    <3>2. /\ late' \in [Companies -> [JobSet -> Nat]]
          /\ \A c \in Companies, j \in JobSet : late'[c][j] = 0 \/ late'[c][j] = late[c][j]
      BY <1>0, <2>0, <3>1, Clearing
    <3>3. \A c \in Companies, j \in JobSet : late'[c][j] <= Patience + 1
      <4> SUFFICES ASSUME NEW c \in Companies, NEW j \in JobSet PROVE late'[c][j] <= Patience + 1
        OBVIOUS
      <4>1. late'[c][j] = 0 \/ late'[c][j] <= Patience + 1
        BY <1>0, <3>2
      <4> QED
        BY <4>1, Constants, Below
    <3> QED
      BY <3>1, <3>2, <3>3
  <2>2. CASE ~Due(C, J)
    <3>1. NextJob /\ stage' = "visit" /\ UNCHANGED <<active, raised, age, fresh, late>>
      BY <1>3, <2>2 DEF CheckDue, rows
    <3>2. todo' \in Seq(Companies) /\ left' \in Seq(JobSet) /\ left' # <<>>
      BY <1>3, <3>1, LoopsTyped DEF CheckDue
    <3> QED
      BY <3>1, <3>2
  <2> QED
    BY <2>1, <2>2
<1>4. CASE RunCycle
  BY <1>4 DEF RunCycle, loops, rows
<1>5. CASE GenerateReport
  <2>0. C \in Companies /\ J \in JobSet
    BY <1>5, Visited DEF GenerateReport
  <2>1. /\ stage' = "mark" /\ raised' \in BOOLEAN
        /\ UNCHANGED <<active, todo, left, age, late>>
    BY <1>5 DEF GenerateReport, loops
  <2>2. fresh' = fresh \/ fresh' = Clear(fresh)
    BY <1>5 DEF GenerateReport
  <2>3. /\ fresh' \in [Companies -> [JobSet -> Nat]]
        /\ \A c \in Companies, j \in JobSet : fresh'[c][j] = 0 \/ fresh'[c][j] = fresh[c][j]
    <3>1. CASE fresh' = fresh
      BY <1>0, <3>1
    <3>2. CASE fresh' = Clear(fresh)
      BY <1>0, <2>0, <3>2, Clearing
    <3> QED
      BY <2>2, <3>1, <3>2
  <2>4. ASSUME NEW c \in Companies, NEW j \in JobSet PROVE fresh'[c][j] <= Interval[j]
    <3>1. fresh'[c][j] = 0 \/ fresh'[c][j] <= Interval[j]
      BY <1>0, <2>3
    <3> QED
      BY <3>1, Constants, Below
  <2> QED
    BY <1>5, <2>1, <2>3, <2>4 DEF GenerateReport
<1>6. CASE Mark
  <2>0. C \in Companies /\ J \in JobSet /\ todo # <<>>
    BY <1>6, Visited DEF Mark
  <2>1. /\ stage' = "visit" /\ raised' = FALSE /\ (NextJob \/ EndTick)
        /\ age' = Clear(age)
        /\ UNCHANGED <<active, fresh, late>>
    BY <1>6 DEF Mark
  <2>2. todo' \in Seq(Companies) /\ left' \in Seq(JobSet) /\ left' # <<>>
    BY <2>0, <2>1, LoopsTyped
  <2>3. /\ age' \in [Companies -> [JobSet -> Nat]]
        /\ \A c \in Companies, j \in JobSet : age'[c][j] = 0 \/ age'[c][j] = age[c][j]
    BY <1>0, <2>0, <2>1, Clearing
  <2>4. ASSUME NEW c \in Companies, NEW j \in JobSet PROVE age'[c][j] <= Interval[j]
    <3>1. age'[c][j] = 0 \/ age'[c][j] <= Interval[j]
      BY <1>0, <2>3
    <3> QED
      BY <3>1, Constants, Below
  <2> QED
    BY <2>1, <2>2, <2>3, <2>4
<1>7. CASE Sleep
  <2>1. /\ stage' = "tick" /\ UNCHANGED <<active, todo, left, raised>>
        /\ age' = Older(age) /\ fresh' = Older(fresh)
    BY <1>7 DEF Sleep, loops
  <2>2. /\ {age', fresh'} \subseteq [Companies -> [JobSet -> Nat]]
        /\ \A c \in Companies, j \in JobSet : age'[c][j] <= Interval[j] /\ fresh'[c][j] <= Interval[j]
    BY <2>1, Aging
  <2> DEFINE Waits(c) == [j \in JobSet |-> IF c \in active /\ Due(c, j) /\ late[c][j] <= Patience
                                           THEN late[c][j] + 1 ELSE late[c][j]]
  <2>3. late' = [c \in Companies |-> Waits(c)]
    BY <1>7 DEF Sleep
  <2>4. \A c \in Companies, j \in JobSet : late[c][j] \in Nat
    OBVIOUS
  <2>5. ASSUME NEW c \in Companies
        PROVE  /\ Waits(c) \in [JobSet -> Nat]
               /\ \A j \in JobSet : Waits(c)[j] <= Patience + 1
    <3> DEFINE Wait(j) == IF c \in active /\ Due(c, j) /\ late[c][j] <= Patience
                          THEN late[c][j] + 1 ELSE late[c][j]
    <3>1. ASSUME NEW j \in JobSet PROVE Wait(j) \in Nat /\ Wait(j) <= Patience + 1
      <4>1. late[c][j] \in Nat /\ late[c][j] <= Patience + 1
        BY <1>0
      <4>2. CASE c \in active /\ Due(c, j) /\ late[c][j] <= Patience
        <5>1. Wait(j) = late[c][j] + 1
          BY <4>2, Zenon
        <5> QED
          BY <4>1, <4>2, <5>1, Successor
      <4>3. CASE ~(c \in active /\ Due(c, j) /\ late[c][j] <= Patience)
        <5>1. Wait(j) = late[c][j]
          BY <4>3, Zenon
        <5> QED
          BY <4>1, <5>1
      <4> QED
        BY <4>2, <4>3
    <3> HIDE DEF Wait
    <3>2. [j \in JobSet |-> Wait(j)] \in [JobSet -> Nat]
      BY <3>1
    <3>3. Waits(c) = [j \in JobSet |-> Wait(j)]
      BY DEF Wait
    <3> QED
      BY <3>1, <3>2, <3>3
  <2> HIDE DEF Waits
  <2>6. /\ late' \in [Companies -> [JobSet -> Nat]]
        /\ \A c \in Companies, j \in JobSet : late'[c][j] <= Patience + 1
    BY <2>3, <2>5
  <2> QED
    BY <2>1, <2>2, <2>6
<1>8. CASE Crash \/ Restart
  <2>1. /\ stage' \in {"visit", "tick"} /\ raised' = FALSE /\ EndTick
        /\ UNCHANGED <<active, age, fresh, late>>
    BY <1>8 DEF Crash, Restart, Lose, rows
  <2>2. todo' \in Seq(Companies) /\ left' \in Seq(JobSet) /\ left' # <<>>
    BY <2>1, Constants, SMT DEF EndTick
  <2> QED
    BY <2>1, <2>2
<1>9. CASE UNCHANGED vars
  BY <1>9 DEF vars, loops, rows
<1> QED
  BY <1>1, <1>2, <1>3, <1>4, <1>5, <1>6, <1>7, <1>8, <1>9, Zenon DEF Next, Step

\* The scheduler's types hold for any companies, jobs and intervals.
THEOREM TypesHold == Spec => []TypeOK
<1>1. Init => TypeOK
  BY InitTyped
<1>2. TypeOK /\ [Next]_vars => TypeOK'
  BY StepTyped
<1> QED
  BY <1>1, <1>2, PTL DEF Spec

-----------------------------------------------------------------------------
(* Reports are an interval apart.                                          *)

\* A job that is being run is due, and a report is never younger than the mark of
\* its job, except between the two, and after a crash between the two.
Marked ==
    /\ stage \in {"cycle", "report"} => age[C][J] = Interval[J]
    /\ \A c \in Companies, j \in JobSet :
          (stage # "mark" \/ c # C \/ j # J) /\ <<c, j>> \notin struck => age[c][j] <= fresh[c][j]

\* No report is stored at first, so none is unmarked.
LEMMA InitMarked == Init => Marked
<1> SUFFICES ASSUME Init PROVE Marked
  OBVIOUS
<1>1. ASSUME NEW c \in Companies, NEW j \in JobSet PROVE age[c][j] <= fresh[c][j]
  <2>1. age[c][j] = Interval[j] /\ fresh[c][j] = Interval[j] /\ Interval[j] \in Nat
    BY Constants DEF Init
  <2> QED
    BY <2>1
<1>2. stage = "tick"
  BY DEF Init
<1> QED
  BY <1>1, <1>2 DEF Marked

\* Only the job being marked, and a job that a crash cut short, has a report
\* younger than its mark.
LEMMA StepMarked == TypeOK /\ Marked /\ [Next]_vars => Marked'
<1> SUFFICES ASSUME TypeOK, Marked, [Next]_vars PROVE Marked'
  OBVIOUS
<1>0. /\ age \in [Companies -> [JobSet -> Nat]] /\ fresh \in [Companies -> [JobSet -> Nat]]
      /\ \A c \in Companies, j \in JobSet : age[c][j] <= Interval[j] /\ fresh[c][j] <= Interval[j]
  BY DEF TypeOK
<1>1. ASSUME NEW c \in Companies, Activate(c) PROVE Marked'
  BY <1>1 DEF Activate, Marked, loops, rows, C, J
<1>2. CASE StartTick
  BY <1>2 DEF StartTick, Marked, rows
<1>3. CASE CheckDue
  <2>1. CASE Due(C, J)
    BY <1>3, <2>1 DEF CheckDue, Due, Marked, loops, rows, C, J
  <2>2. CASE ~Due(C, J)
    BY <1>3, <2>2 DEF CheckDue, Marked, rows
  <2> QED
    BY <2>1, <2>2
<1>4. CASE RunCycle
  BY <1>4 DEF RunCycle, Marked, loops, rows, C, J
<1>5. CASE GenerateReport
  <2>0. C \in Companies /\ J \in JobSet
    BY <1>5, Visited DEF GenerateReport, TypeOK
  <2>1. stage = "report" /\ stage' = "mark" /\ C' = C /\ J' = J /\ age' = age /\ struck' = struck
    BY <1>5 DEF GenerateReport, loops, C, J
  <2>2. ASSUME NEW c \in Companies, NEW j \in JobSet, c # C \/ j # J
        PROVE  fresh'[c][j] = fresh[c][j]
    <3>1. CASE fresh' = fresh
      BY <3>1
    <3>2. CASE fresh' = Clear(fresh)
      BY <1>0, <2>0, <2>2, <3>2, Clearing
    <3> QED
      BY <1>5, <3>1, <3>2 DEF GenerateReport
  <2> QED
    BY <2>1, <2>2 DEF Marked
<1>6. CASE Mark
  <2>0. C \in Companies /\ J \in JobSet
    BY <1>6, Visited DEF Mark, TypeOK
  <2>1. stage = "mark" /\ stage' = "visit" /\ age' = Clear(age) /\ fresh' = fresh
        /\ struck' = struck \ {<<C, J>>}
    BY <1>6 DEF Mark, Current, Running
  <2>2. ASSUME NEW c \in Companies, NEW j \in JobSet, <<c, j>> \notin struck'
        PROVE  age'[c][j] <= fresh'[c][j]
    <3>1. CASE c = C /\ j = J
      <4>1. age'[c][j] = 0 /\ fresh'[c][j] \in Nat
        BY <1>0, <2>0, <2>1, <3>1, Clearing
      <4> QED
        BY <4>1
    <3>2. CASE c # C \/ j # J
      <4>1. age'[c][j] = age[c][j]
        BY <1>0, <2>0, <2>1, <3>2, Clearing
      <4>2. <<c, j>> \notin struck
        BY <2>1, <2>2, <3>2
      <4> QED
        BY <2>1, <3>2, <4>1, <4>2 DEF Marked
    <3> QED
      BY <3>1, <3>2
  <2> QED
    BY <2>1, <2>2 DEF Marked
<1>7. CASE Sleep
  <2>1. stage = "visit" /\ stage' = "tick" /\ age' = Older(age) /\ fresh' = Older(fresh)
        /\ struck' = struck
    BY <1>7 DEF Sleep
  <2>2. ASSUME NEW c \in Companies, NEW j \in JobSet, <<c, j>> \notin struck
        PROVE  age'[c][j] <= fresh'[c][j]
    <3>1. /\ age'[c][j] = IF age[c][j] < Interval[j] THEN age[c][j] + 1 ELSE Interval[j]
          /\ fresh'[c][j] = IF fresh[c][j] < Interval[j] THEN fresh[c][j] + 1 ELSE Interval[j]
      BY <1>0, <2>1, Aging
    <3>2. /\ age[c][j] \in Nat /\ fresh[c][j] \in Nat /\ Interval[j] \in Nat
          /\ age[c][j] <= fresh[c][j] /\ fresh[c][j] <= Interval[j]
      BY <1>0, <2>1, <2>2, Constants DEF Marked
    <3> HIDE <1>0
    <3> QED
      BY <3>1, <3>2
  <2> QED
    BY <2>1, <2>2 DEF Marked
<1>8. CASE Crash \/ Restart
  <2>1. /\ stage' \in {"visit", "tick"} /\ age' = age /\ fresh' = fresh
        /\ struck' = struck \cup (IF stage \in {"cycle", "report", "mark"} THEN {<<C, J>>} ELSE {})
    BY <1>8 DEF Crash, Restart, Lose, Current, Running, rows
  <2>2. ASSUME NEW c \in Companies, NEW j \in JobSet, <<c, j>> \notin struck'
        PROVE  age[c][j] <= fresh[c][j]
    <3>1. <<c, j>> \notin struck /\ (stage = "mark" => c # C \/ j # J)
      BY <2>1, <2>2
    <3> QED
      BY <3>1 DEF Marked
  <2> QED
    BY <2>1, <2>2 DEF Marked
<1>9. CASE UNCHANGED vars
  BY <1>9 DEF vars, loops, rows, Marked, C, J
<1> QED
  BY <1>1, <1>2, <1>3, <1>4, <1>5, <1>6, <1>7, <1>8, <1>9, Zenon DEF Next, Step

\* Two reports of a job are at least its interval apart, unless a crash cut the
\* job short since its mark: for any companies, jobs, intervals, order of visits,
\* failures and crashes.
THEOREM SpacedHolds == Spec => ReportsSpaced
<1> DEFINE IInv == TypeOK /\ Marked
<1>1. Init => IInv
  BY InitTyped, InitMarked
<1>2. IInv /\ [Next]_vars => IInv'
  BY StepTyped, StepMarked
<1>3. IInv /\ [Next]_vars => [Stored /\ fresh[C][J] # Interval[J] => <<C, J>> \in struck]_vars
  <2> SUFFICES ASSUME TypeOK, Marked, Stored, <<C, J>> \notin struck PROVE fresh[C][J] = Interval[J]
    OBVIOUS
  <2>1. C \in Companies /\ J \in JobSet
    BY Visited DEF Stored, TypeOK
  <2>2. /\ age[C][J] = Interval[J] /\ age[C][J] <= fresh[C][J]
    BY <2>1 DEF Stored, Marked
  <2>3. fresh[C][J] \in Nat /\ fresh[C][J] <= Interval[J] /\ Interval[J] \in Nat
    BY <2>1, Constants DEF TypeOK
  <2> QED
    BY <2>2, <2>3
<1> QED
  BY <1>1, <1>2, <1>3, PTL DEF Spec, ReportsSpaced

-----------------------------------------------------------------------------
(* A crash repeats at most one report.                                     *)

\* The job that is about to be marked, whose own report may be new.
Marking == IF stage = "mark" THEN {<<C, J>>} ELSE {}

\* What crashes have left unmarked.
Orphans == Unmarked \ Marking

RepeatInv == TypeOK /\ Cardinality(Orphans) <= crashes

\* The jobs are finitely many, no more than the sequence is long.
LEMMA JobsFinite ==
    /\ IsFiniteSet(JobSet) /\ Cardinality(JobSet) \in Nat
    /\ Len(Jobs) \in Nat /\ Cardinality(JobSet) <= Len(Jobs)
<1>1. /\ Jobs \in Seq(JobSet) /\ Len(Jobs) \in Nat /\ Jobs \in [1 .. Len(Jobs) -> JobSet]
      /\ DOMAIN Jobs = 1 .. Len(Jobs)
  BY Constants, LenProperties
<1>2. \A j \in JobSet : \E i \in 1 .. Len(Jobs) : Jobs[i] = j
  BY <1>1, Zenon DEF JobSet, ToSet
<1>3. Jobs \in Surjection(1 .. Len(Jobs), JobSet)
  BY <1>1, <1>2 DEF Surjection
<1>4. IsFiniteSet(1 .. Len(Jobs)) /\ Cardinality(1 .. Len(Jobs)) = Len(Jobs)
  BY <1>1, FS_Interval
<1> QED
  BY <1>1, <1>3, <1>4, FS_Surjection, FS_CardinalityType

\* Sets of jobs of companies are finite, and smaller ones have fewer.
LEMMA PairsFinite ==
    ASSUME NEW S \in SUBSET (Companies \X JobSet)
    PROVE  /\ IsFiniteSet(S) /\ Cardinality(S) \in Nat
           /\ \A T \in SUBSET S : Cardinality(T) \in Nat /\ Cardinality(T) <= Cardinality(S)
<1>1. IsFiniteSet(Companies \X JobSet)
  BY CompaniesAssumption, JobsFinite, FS_Product
<1> QED
  BY <1>1, FS_Subset, FS_CardinalityType

\* Unmarked reports are of jobs of companies.
LEMMA OrphansPairs == Orphans \in SUBSET (Companies \X JobSet)
                      /\ Unmarked \in SUBSET (Companies \X JobSet)
BY DEF Orphans, Unmarked

\* One element more is at most one more.
LEMMA OneMore ==
    ASSUME NEW S, IsFiniteSet(S), NEW x
    PROVE  /\ IsFiniteSet(S \cup {x}) /\ Cardinality(S) \in Nat
           /\ Cardinality(S \cup {x}) \in Nat
           /\ Cardinality(S \cup {x}) <= Cardinality(S) + 1
<1>1. /\ IsFiniteSet(S \cup {x})
      /\ Cardinality(S \cup {x}) = IF x \in S THEN Cardinality(S) ELSE Cardinality(S) + 1
  BY FS_AddElement
<1>2. Cardinality(S) \in Nat /\ Cardinality(S \cup {x}) \in Nat
  BY <1>1, FS_CardinalityType
<1> QED
  BY <1>1, <1>2

\* As long as nothing crashes, no step orphans a report.
LEMMA FewerOrphans ==
    ASSUME RepeatInv, TypeOK', Orphans' \subseteq Orphans, crashes' = crashes
    PROVE  RepeatInv'
<1>1. /\ Cardinality(Orphans) \in Nat /\ Cardinality(Orphans') \in Nat
      /\ Cardinality(Orphans') <= Cardinality(Orphans)
  BY OrphansPairs, PairsFinite
<1>2. Cardinality(Orphans) <= crashes /\ crashes \in Nat
  BY DEF RepeatInv, TypeOK
<1> QED
  BY <1>1, <1>2 DEF RepeatInv

\* A crash orphans at most the report of the job it interrupts.
LEMMA StepRepeats == RepeatInv /\ [Next]_vars => RepeatInv'
<1> SUFFICES ASSUME RepeatInv, [Next]_vars PROVE RepeatInv'
  OBVIOUS
<1>0. /\ TypeOK /\ TypeOK'
      /\ age \in [Companies -> [JobSet -> Nat]] /\ fresh \in [Companies -> [JobSet -> Nat]]
      /\ \A c \in Companies, j \in JobSet :
            /\ age[c][j] <= Interval[j] /\ fresh[c][j] <= Interval[j]
            /\ age[c][j] \in Nat /\ fresh[c][j] \in Nat
  BY StepTyped DEF RepeatInv, TypeOK
<1>1. ASSUME stage # "mark", age' = age, fresh' = fresh, crashes' = crashes PROVE RepeatInv'
  <2>1. Orphans' \subseteq Orphans
    BY <1>1 DEF Orphans, Marking, Unmarked
  <2> QED
    BY <1>0, <1>1, <2>1, FewerOrphans
<1>2. ASSUME NEW c \in Companies, Activate(c) PROVE RepeatInv'
  <2>1. Orphans' \subseteq Orphans /\ crashes' = crashes
    BY <1>2 DEF Activate, Orphans, Marking, Unmarked, loops, rows, C, J
  <2> QED
    BY <1>0, <2>1, FewerOrphans
<1>3. CASE StartTick \/ CheckDue \/ RunCycle
  BY <1>1, <1>3 DEF StartTick, CheckDue, RunCycle, rows
<1>4. CASE GenerateReport
  <2>0. C \in Companies /\ J \in JobSet
    BY <1>0, <1>4, Visited DEF GenerateReport, TypeOK
  <2>1. /\ stage' = "mark" /\ C' = C /\ J' = J /\ age' = age /\ crashes' = crashes
        /\ stage = "report"
    BY <1>4 DEF GenerateReport, loops, C, J
  <2>2. ASSUME NEW c \in Companies, NEW j \in JobSet, c # C \/ j # J
        PROVE  fresh'[c][j] = fresh[c][j]
    <3>1. CASE fresh' = fresh
      BY <3>1
    <3>2. CASE fresh' = Clear(fresh)
      BY <1>0, <2>0, <2>2, <3>2, Clearing
    <3> QED
      BY <1>4, <3>1, <3>2 DEF GenerateReport
  <2>3. Orphans' \subseteq Orphans
    <3> SUFFICES ASSUME NEW p \in Orphans' PROVE p \in Unmarked
      BY <2>1 DEF Orphans, Marking
    <3>1. PICK c \in Companies, j \in JobSet : p = <<c, j>>
      BY OrphansPairs DEF Orphans, Unmarked
    <3>2. age'[c][j] > fresh'[c][j] /\ (c # C \/ j # J)
      BY <2>1, <3>1 DEF Orphans, Marking, Unmarked
    <3> QED
      BY <2>1, <2>2, <3>1, <3>2 DEF Unmarked
  <2> QED
    BY <1>0, <2>1, <2>3, FewerOrphans
<1>5. CASE Mark
  <2>0. C \in Companies /\ J \in JobSet
    BY <1>0, <1>5, Visited DEF Mark, TypeOK
  <2>1. stage = "mark" /\ stage' = "visit" /\ age' = Clear(age) /\ fresh' = fresh
        /\ crashes' = crashes
    BY <1>5 DEF Mark
  <2>2. Orphans' \subseteq Orphans
    <3> SUFFICES ASSUME NEW p \in Orphans' PROVE p \in Unmarked /\ p # <<C, J>>
      BY <2>1 DEF Orphans, Marking
    <3>1. PICK c \in Companies, j \in JobSet : p = <<c, j>>
      BY DEF Orphans, Unmarked
    <3>2. age'[c][j] > fresh[c][j]
      BY <2>1, <3>1 DEF Orphans, Unmarked
    <3>3. /\ age'[C][J] = 0
          /\ \A d \in Companies, k \in JobSet : (d # C \/ k # J) => age'[d][k] = age[d][k]
      BY <1>0, <2>0, <2>1, Clearing
    <3>4. fresh[c][j] \in Nat
      BY <1>0
    <3>5. c # C \/ j # J
      BY <3>2, <3>3, <3>4
    <3>6. age[c][j] > fresh[c][j]
      BY <3>2, <3>3, <3>5
    <3> QED
      BY <3>1, <3>5, <3>6 DEF Unmarked
  <2> QED
    BY <1>0, <2>1, <2>2, FewerOrphans
<1>6. CASE Sleep
  <2>1. /\ stage = "visit" /\ stage' = "tick" /\ age' = Older(age) /\ fresh' = Older(fresh)
        /\ crashes' = crashes
    BY <1>6 DEF Sleep
  <2>2. ASSUME NEW c \in Companies, NEW j \in JobSet, age'[c][j] > fresh'[c][j]
        PROVE  age[c][j] > fresh[c][j]
    <3>1. /\ age'[c][j] = IF age[c][j] < Interval[j] THEN age[c][j] + 1 ELSE Interval[j]
          /\ fresh'[c][j] = IF fresh[c][j] < Interval[j] THEN fresh[c][j] + 1 ELSE Interval[j]
      BY <1>0, <2>1, Aging
    <3>2. /\ age[c][j] \in Nat /\ fresh[c][j] \in Nat /\ Interval[j] \in Nat
          /\ age[c][j] <= Interval[j] /\ fresh[c][j] <= Interval[j]
      BY <1>0, Constants
    <3> HIDE <1>0
    <3> QED
      BY <2>2, <3>1, <3>2
  <2>3. Orphans' \subseteq Orphans
    BY <2>1, <2>2 DEF Orphans, Marking, Unmarked
  <2> QED
    BY <1>0, <2>1, <2>3, FewerOrphans
<1>7. CASE Crash \/ Restart
  <2>1. /\ stage' \in {"visit", "tick"} /\ age' = age /\ fresh' = fresh
        /\ crashes' = crashes + 1
    BY <1>7 DEF Crash, Restart, Lose, rows
  <2>2. Orphans' \in SUBSET (Orphans \cup {<<C, J>>})
    BY <2>1 DEF Orphans, Marking, Unmarked
  <2>3. IsFiniteSet(Orphans) /\ Cardinality(Orphans) \in Nat
    BY OrphansPairs, PairsFinite
  <2>4. /\ IsFiniteSet(Orphans \cup {<<C, J>>})
        /\ Cardinality(Orphans \cup {<<C, J>>}) <= Cardinality(Orphans) + 1
        /\ Cardinality(Orphans \cup {<<C, J>>}) \in Nat
    BY <2>3, OneMore
  <2>5. /\ Cardinality(Orphans') \in Nat
        /\ Cardinality(Orphans') <= Cardinality(Orphans \cup {<<C, J>>})
    BY <2>2, <2>4, FS_Subset, FS_CardinalityType
  <2>6. Cardinality(Orphans) <= crashes /\ crashes \in Nat
    BY DEF RepeatInv, TypeOK
  <2> QED
    BY <1>0, <2>1, <2>3, <2>4, <2>5, <2>6 DEF RepeatInv
<1>8. CASE UNCHANGED vars
  <2>1. Orphans' \subseteq Orphans /\ crashes' = crashes
    BY <1>8 DEF vars, Orphans, Marking, Unmarked, loops, rows, C, J
  <2> QED
    BY <1>0, <2>1, FewerOrphans
<1> QED
  BY <1>2, <1>3, <1>4, <1>5, <1>6, <1>7, <1>8, Zenon DEF Next, Step

\* A crash makes at most one report to be repeated, for any companies, jobs,
\* intervals and failures: the loop marks a job before it looks at the next.
THEOREM RepeatsHold == Spec => []RepeatsBounded
<1>1. Init => RepeatInv
  <2> SUFFICES ASSUME Init PROVE RepeatInv
    OBVIOUS
  <2>1. Unmarked = {}
    <3>1. \A c \in Companies, j \in JobSet : age[c][j] = fresh[c][j] /\ age[c][j] \in Nat
      BY Constants DEF Init
    <3> QED
      BY <3>1 DEF Unmarked
  <2>2. Orphans = {} /\ crashes = 0
    BY <2>1 DEF Orphans, Init
  <2> QED
    BY <2>2, InitTyped, FS_EmptySet DEF RepeatInv
<1>2. RepeatInv /\ [Next]_vars => RepeatInv'
  BY StepRepeats
<1>3. RepeatInv => RepeatsBounded
  <2> SUFFICES ASSUME RepeatInv PROVE RepeatsBounded
    OBVIOUS
  <2>1. IsFiniteSet(Orphans) /\ Cardinality(Orphans) \in Nat
    BY OrphansPairs, PairsFinite
  <2>2. Cardinality(Orphans) <= crashes /\ crashes \in Nat
    BY DEF RepeatInv, TypeOK
  <2>3. CASE stage = "mark"
    <3>1. Unmarked \in SUBSET (Orphans \cup {<<C, J>>})
      BY <2>3 DEF Orphans, Marking
    <3>2. /\ IsFiniteSet(Orphans \cup {<<C, J>>})
          /\ Cardinality(Orphans \cup {<<C, J>>}) <= Cardinality(Orphans) + 1
          /\ Cardinality(Orphans \cup {<<C, J>>}) \in Nat
      BY <2>1, OneMore
    <3>3. /\ Cardinality(Unmarked) \in Nat
          /\ Cardinality(Unmarked) <= Cardinality(Orphans \cup {<<C, J>>})
      BY <3>1, <3>2, FS_Subset, FS_CardinalityType
    <3> QED
      BY <2>1, <2>2, <2>3, <3>2, <3>3 DEF RepeatsBounded
  <2>4. CASE stage # "mark"
    <3>1. Unmarked = Orphans
      BY <2>4 DEF Orphans, Marking
    <3> QED
      BY <2>1, <2>2, <2>4, <3>1 DEF RepeatsBounded
  <2> QED
    BY <2>3, <2>4
<1> QED
  BY <1>1, <1>2, <1>3, PTL DEF Spec

-----------------------------------------------------------------------------
(* A due job does not wait for long.                                       *)

\* Job j of company c is still to come in this tick, or the one looked at.
Left(c, j) ==
    /\ todo # <<>>
    /\ \/ \E i \in 2 .. Len(todo) : todo[i] = c
       \/ c = todo[1] /\ \E i \in 1 .. Len(left) : left[i] = j

\* This tick will end without getting to it.
Skipped(c, j) == c \in active /\ Due(c, j) /\ stage # "tick" /\ ~Left(c, j)
Tally(c, j) == IF Skipped(c, j) THEN 1 ELSE 0

\* The failing jobs that were run, and marked, while it was waiting.
Blamed(c, j) == {q \in Failing \X JobSet : age[q[1]][q[2]] < late[c][j]}

\* Only due jobs of active companies wait; the one that runs has been waited for;
\* and each tick begins with the first job.
Waiting ==
    /\ Running => Due(C, J) /\ late[C][J] = 0
    /\ raised => stage = "mark" /\ C \in Failing
    /\ stage = "tick" => todo = <<>>
    /\ todo = <<>> => left = Jobs
    /\ crashes <= MaxCrashes
    /\ \A c \in Companies, j \in JobSet : late[c][j] > 0 => c \in active /\ Due(c, j)

\* Every tick a job waits is the one its company came in, or one that a crash or
\* another failing job has ended, each once: it is marked, and not due again.
Accounted(c, j) ==
    late[c][j] + Tally(c, j) <= 1 + crashes + Cardinality(Blamed(c, j))

PunctualInv == TypeOK /\ Waiting /\ \A c \in Companies, j \in JobSet : Accounted(c, j)

\* No interval is shorter than the patience.
Unhurried == \A j \in JobSet : Interval[j] >= Patience

\* The pieces of the invariant as arithmetic facts.
LEMMA Numbers ==
    ASSUME PunctualInv, NEW c \in Companies, NEW j \in JobSet
    PROVE  /\ late[c][j] \in Nat /\ age[c][j] \in Nat /\ age[c][j] <= Interval[j]
           /\ Interval[j] \in Nat /\ Interval[j] > 0
           /\ Tally(c, j) \in {0, 1} /\ crashes \in Nat /\ crashes <= MaxCrashes
           /\ IsFiniteSet(Blamed(c, j)) /\ Cardinality(Blamed(c, j)) \in Nat
           /\ MaxCrashes \in Nat /\ Patience \in Nat
<1>1. Blamed(c, j) \in SUBSET (Companies \X JobSet)
  BY CompaniesAssumption DEF Blamed
<1> QED
  BY <1>1, PairsFinite, Constants, CrashAssumption DEF PunctualInv, TypeOK, Waiting, Tally

\* There are no more failing jobs to blame than the patience allows.
LEMMA BlameBounded ==
    ASSUME PunctualInv, NEW c \in Companies, NEW j \in JobSet
    PROVE  1 + crashes + Cardinality(Blamed(c, j)) <= Patience
<1> DEFINE f == Cardinality(Failing)
           k == Cardinality(JobSet)
           n == Len(Jobs)
           b == Cardinality(Blamed(c, j))
<1>1. IsFiniteSet(Failing) /\ f \in Nat
  BY CompaniesAssumption, FS_Subset, FS_CardinalityType
<1>2. IsFiniteSet(JobSet) /\ k \in Nat /\ n \in Nat /\ k <= n
  BY JobsFinite
<1>3. IsFiniteSet(Failing \X JobSet) /\ Cardinality(Failing \X JobSet) = f * k
  BY <1>1, <1>2, FS_Product
<1>4. b <= f * k
  <2>1. Blamed(c, j) \in SUBSET (Failing \X JobSet)
    BY DEF Blamed
  <2> QED
    BY <1>3, <2>1, FS_Subset
<1>5. crashes \in Nat /\ crashes <= MaxCrashes /\ MaxCrashes \in Nat /\ b \in Nat
  BY Numbers
<1>6. Patience = f * n + MaxCrashes + 1
  BY DEF Patience
<1> HIDE DEF f, k, n, b
<1>7. f * k <= f * n /\ f * k \in Nat /\ f * n \in Nat
  BY <1>1, <1>2
<1>8. 1 + crashes + b <= Patience
  BY <1>4, <1>5, <1>6, <1>7
<1> QED
  BY <1>8 DEF b

\* So no job is later than the patience.
LEMMA InvPunctual == PunctualInv => Punctual
<1> SUFFICES ASSUME PunctualInv, NEW c \in Companies, NEW j \in JobSet
             PROVE  late[c][j] <= Patience
  BY DEF Punctual
<1>1. late[c][j] + Tally(c, j) <= 1 + crashes + Cardinality(Blamed(c, j))
  BY DEF PunctualInv, Accounted
<1> QED
  BY <1>1, Numbers, BlameBounded

\* A tick that starts has every job of every active company still to come.
LEMMA TickSeesAll ==
    ASSUME TypeOK, StartTick, NEW c \in active
    PROVE  \E i \in 1 .. Len(todo') : todo'[i] = c
<1> DEFINE n == Cardinality(active)
<1>1. IsFiniteSet(active) /\ n \in Nat
  BY CompaniesAssumption, FS_Subset, FS_CardinalityType DEF TypeOK
<1>2. todo' \in [1 .. n -> active] /\ \A i, k \in 1 .. n : i # k => todo'[i] # todo'[k]
  BY Zenon DEF StartTick, SetToSeqs
<1>3. todo' \in Injection(1 .. n, active)
  BY <1>2 DEF Injection, IsInjective
<1>4. IsFiniteSet(1 .. n) /\ Cardinality(1 .. n) = n
  BY <1>1, FS_Interval
<1>5. todo' \in Surjection(1 .. n, active)
  BY <1>1, <1>3, <1>4, FS_Injection
<1>6. \E i \in 1 .. n : todo'[i] = c
  BY <1>5 DEF Surjection
<1>7. Len(todo') = n
  <2>1. todo' \in Seq(active)
    BY <1>1, <1>2, Sequence
  <2>2. DOMAIN todo' = 1 .. n /\ DOMAIN todo' = 1 .. Len(todo') /\ Len(todo') \in Nat
    BY <1>2, <2>1, LenProperties
  <2> HIDE DEF n
  <2> QED
    BY <1>1, <2>2
<1> QED
  BY <1>6, <1>7

\* Moving on leaves every job to come but the one just looked at.
LEMMA NextJobKeeps ==
    ASSUME TypeOK, todo # <<>>, NextJob, NEW c \in Companies, NEW j \in JobSet,
           Left(c, j), c # C \/ j # J
    PROVE  Left(c, j)'
<1>1. /\ todo \in Seq(Companies) /\ left \in Seq(JobSet) /\ left # <<>>
      /\ Len(todo) \in Nat /\ Len(left) \in Nat /\ Len(todo) >= 1 /\ Len(left) >= 1
      /\ C = todo[1] /\ J = left[1]
  <2>1. todo \in Seq(Companies) /\ left \in Seq(JobSet) /\ left # <<>>
    BY DEF TypeOK
  <2>2. Len(todo) \in Nat \ {0} /\ Len(left) \in Nat \ {0}
    BY <2>1, EmptySeq
  <2>3. C = todo[1] /\ J = left[1]
    BY <2>1 DEF C, J
  <2> QED
    BY <2>1, <2>2, <2>3
<1>2. /\ Tail(todo) \in Seq(Companies) /\ Len(Tail(todo)) = Len(todo) - 1
      /\ \A i \in 1 .. Len(Tail(todo)) : Tail(todo)[i] = todo[i + 1]
  BY <1>1, HeadTailProperties
<1>3. /\ Tail(left) \in Seq(JobSet) /\ Len(Tail(left)) = Len(left) - 1
      /\ \A i \in 1 .. Len(Tail(left)) : Tail(left)[i] = left[i + 1]
  BY <1>1, HeadTailProperties
<1>4. \A i \in 1 .. Len(left) : c = todo[1] /\ left[i] = j => i - 1 \in 1 .. Len(Tail(left))
  BY <1>1, <1>3
<1>5. CASE Tail(left) # <<>>
  <2>1. todo' = todo /\ left' = Tail(left)
    BY <1>5 DEF NextJob
  <2>2. CASE \E i \in 2 .. Len(todo) : todo[i] = c
    BY <2>1, <2>2 DEF Left
  <2>3. CASE c = todo[1] /\ \E i \in 1 .. Len(left) : left[i] = j
    <3>1. PICK i \in 1 .. Len(left) : left[i] = j
      BY <2>3
    <3>2. i - 1 \in 1 .. Len(Tail(left)) /\ Tail(left)[i - 1] = left[(i - 1) + 1]
          /\ (i - 1) + 1 = i
      BY <1>3, <1>4, <2>3, <3>1
    <3> QED
      BY <2>1, <2>3, <3>1, <3>2 DEF Left
  <2> QED
    BY <2>2, <2>3 DEF Left
<1>6. CASE Tail(left) = <<>>
  <2>1. todo' = Tail(todo) /\ left' = Jobs
    BY <1>6 DEF NextJob
  <2>2. \E i \in 2 .. Len(todo) : todo[i] = c
    <3>1. Len(Tail(left)) = 0
      BY <1>6, EmptySeq
    <3>2. ~\E i \in 1 .. Len(left) : c = todo[1] /\ left[i] = j
      BY <1>3, <1>4, <3>1
    <3> QED
      BY <3>2 DEF Left
  <2>3. PICK i \in 2 .. Len(todo) : todo[i] = c
    BY <2>2
  <2>4. i - 1 \in 1 .. Len(Tail(todo)) /\ Tail(todo)[i - 1] = c
    <3>1. i - 1 \in 1 .. Len(Tail(todo)) /\ (i - 1) + 1 = i
      BY <1>1, <1>2
    <3> QED
      BY <1>2, <2>3, <3>1
  <2>5. Tail(todo) # <<>>
    <3>1. Len(Tail(todo)) # 0
      BY <1>1, <1>2, <2>4
    <3>2. Len(<<>>) = 0
      BY EmptySeq
    <3> QED
      BY <3>1, <3>2, Zenon
  <2>6. \E m \in 1 .. Len(Jobs) : Jobs[m] = j
    <3>1. DOMAIN Jobs = 1 .. Len(Jobs)
      BY Constants, LenProperties
    <3> QED
      BY <3>1, Zenon DEF JobSet, ToSet
  <2>7. CASE i = 2
    BY <2>1, <2>4, <2>5, <2>6, <2>7 DEF Left
  <2>8. CASE i # 2
    <3>1. i - 1 \in 2 .. Len(Tail(todo))
      BY <2>4, <2>8
    <3> QED
      BY <2>1, <2>4, <2>5, <3>1 DEF Left
  <2> QED
    BY <2>7, <2>8
<1> QED
  BY <1>5, <1>6

\* Due, C and J depend on what a step may leave alone.
LEMMA SameJob ==
    ASSUME todo' = todo, left' = left
    PROVE  C' = C /\ J' = J /\ \A c, j : Left(c, j)' = Left(c, j)
BY DEF C, J, Left

\* What waits, what runs and what has raised, from step to step.
LEMMA StepWaiting == PunctualInv /\ [Next]_vars => Waiting'
<1> SUFFICES ASSUME PunctualInv, [Next]_vars PROVE Waiting'
  OBVIOUS
<1>0. /\ Waiting /\ TypeOK /\ TypeOK'
      /\ age \in [Companies -> [JobSet -> Nat]] /\ late \in [Companies -> [JobSet -> Nat]]
  BY StepTyped DEF PunctualInv, TypeOK
<1>1. ASSUME NEW c \in Companies, Activate(c) PROVE Waiting'
  BY <1>0, <1>1 DEF Activate, Waiting, Running, Due, loops, rows, C, J
<1>2. CASE StartTick
  <2>1. /\ stage' = "visit" /\ stage = "tick" /\ left' = left /\ raised' = raised
        /\ age' = age /\ late' = late /\ crashes' = crashes /\ active' = active
    BY <1>2 DEF StartTick, rows
  <2> QED
    BY <1>0, <2>1 DEF Waiting, Running, Due
<1>3. CASE CheckDue
  <2>0. C \in Companies /\ J \in JobSet /\ todo # <<>> /\ stage = "visit"
    BY <1>0, <1>3, Visited DEF CheckDue
  <2>1. CASE Due(C, J)
    <3>1. /\ stage' = "cycle" /\ todo' = todo /\ left' = left /\ late' = Clear(late)
          /\ raised' = raised /\ age' = age /\ crashes' = crashes /\ active' = active
      BY <1>3, <2>1 DEF CheckDue, loops, rows
    <3>2. C' = C /\ J' = J
      BY <3>1, SameJob
    <3>3. /\ late'[C][J] = 0
          /\ \A c \in Companies, j \in JobSet : late'[c][j] = 0 \/ late'[c][j] = late[c][j]
      BY <1>0, <2>0, <3>1, Clearing
    <3>4. \A c \in Companies, j \in JobSet : late'[c][j] > 0 => late[c][j] > 0
      BY <3>3
    <3> QED
      BY <1>0, <2>0, <2>1, <3>1, <3>2, <3>3, <3>4 DEF Waiting, Running, Due
  <2>2. CASE ~Due(C, J)
    <3>1. /\ stage' = "visit" /\ NextJob /\ late' = late
          /\ raised' = raised /\ age' = age /\ crashes' = crashes /\ active' = active
      BY <1>3, <2>0, <2>2 DEF CheckDue, rows
    <3>2. todo' = <<>> => left' = Jobs
      BY <2>0, <3>1 DEF NextJob
    <3> QED
      BY <1>0, <2>0, <3>1, <3>2 DEF Waiting, Running, Due
  <2> QED
    BY <2>1, <2>2
<1>4. CASE RunCycle
  <2>1. /\ stage = "cycle" /\ stage' \in {"report", "mark"} /\ todo' = todo /\ left' = left
        /\ age' = age /\ late' = late /\ crashes' = crashes /\ active' = active
        /\ raised' = raised \/ (stage' = "mark" /\ C \in Failing)
    BY <1>4 DEF RunCycle, loops, rows
  <2>2. C' = C /\ J' = J
    BY <2>1, SameJob
  <2> QED
    BY <1>0, <2>1, <2>2 DEF Waiting, Running, Due
<1>5. CASE GenerateReport
  <2>1. /\ stage = "report" /\ stage' = "mark" /\ todo' = todo /\ left' = left
        /\ age' = age /\ late' = late /\ crashes' = crashes /\ active' = active
        /\ raised' = raised \/ C \in Failing
    BY <1>5 DEF GenerateReport, loops
  <2>2. C' = C /\ J' = J
    BY <2>1, SameJob
  <2> QED
    BY <1>0, <2>1, <2>2 DEF Waiting, Running, Due
<1>6. CASE Mark
  <2>0. C \in Companies /\ J \in JobSet /\ todo # <<>> /\ stage = "mark"
    BY <1>0, <1>6, Visited DEF Mark, TypeOK
  <2>1. /\ stage' = "visit" /\ raised' = FALSE /\ age' = Clear(age) /\ (NextJob \/ EndTick)
        /\ late' = late /\ crashes' = crashes /\ active' = active
    BY <1>6 DEF Mark
  <2>2. todo' = <<>> => left' = Jobs
    BY <2>0, <2>1 DEF NextJob, EndTick
  <2>3. ASSUME NEW c \in Companies, NEW j \in JobSet, late'[c][j] > 0
        PROVE  c \in active' /\ Due(c, j)'
    <3>1. late[C][J] = 0 /\ c \in active /\ Due(c, j)
      BY <1>0, <2>0, <2>1, <2>3 DEF Waiting, Running
    <3>2. c # C \/ j # J
      BY <2>1, <2>3, <3>1
    <3>3. age'[c][j] = age[c][j]
      BY <1>0, <2>0, <2>1, <3>2, Clearing
    <3> QED
      BY <2>1, <3>1, <3>3 DEF Due
  <2> QED
    BY <1>0, <2>1, <2>2, <2>3 DEF Waiting, Running
<1>7. CASE Sleep
  <2>1. /\ stage' = "tick" /\ stage = "visit" /\ todo = <<>> /\ todo' = todo /\ left' = left
        /\ raised' = raised /\ crashes' = crashes /\ active' = active /\ age' = Older(age)
    BY <1>7 DEF Sleep, loops
  <2>2. ASSUME NEW c \in Companies, NEW j \in JobSet, late'[c][j] > 0
        PROVE  c \in active /\ Due(c, j)'
    <3>1. late'[c][j] = IF c \in active /\ Due(c, j) /\ late[c][j] <= Patience
                        THEN late[c][j] + 1 ELSE late[c][j]
      BY <1>7, Zenon DEF Sleep
    <3>2. c \in active /\ Due(c, j)
      BY <1>0, <2>2, <3>1 DEF Waiting
    <3>3. age'[c][j] = IF age[c][j] < Interval[j] THEN age[c][j] + 1 ELSE Interval[j]
      <4>1. \A d \in Companies, k \in JobSet : age[d][k] <= Interval[k]
        BY <1>0 DEF TypeOK
      <4> QED
        BY <1>0, <2>1, <4>1, Aging
    <3>4. age[c][j] = Interval[j] /\ Interval[j] \in Nat
      BY <3>2, Constants DEF Due
    <3> QED
      BY <3>2, <3>3, <3>4 DEF Due
  <2> QED
    BY <1>0, <2>1, <2>2 DEF Waiting, Running
<1>8. CASE Crash \/ Restart
  <2>1. /\ stage' \in {"visit", "tick"} /\ raised' = FALSE /\ EndTick /\ active' = active
        /\ age' = age /\ late' = late /\ crashes' = crashes + 1 /\ crashes < MaxCrashes
    BY <1>8 DEF Crash, Restart, Lose, rows
  <2>2. crashes' <= MaxCrashes
    BY <1>0, <2>1, CrashAssumption DEF TypeOK
  <2> QED
    BY <1>0, <2>1, <2>2 DEF Waiting, Running, Due, EndTick
<1>9. CASE UNCHANGED vars
  BY <1>0, <1>9 DEF vars, Waiting, Running, Due, loops, rows, C, J
<1> QED
  BY <1>1, <1>2, <1>3, <1>4, <1>5, <1>6, <1>7, <1>8, <1>9, Zenon DEF Next, Step

\* A job that has not waited is accounted for.
LEMMA NotWaiting ==
    ASSUME PunctualInv, TypeOK', NEW c \in Companies, NEW j \in JobSet, late'[c][j] = 0
    PROVE  Accounted(c, j)'
<1>1. (Blamed(c, j))' \in SUBSET (Companies \X JobSet)
  BY CompaniesAssumption DEF Blamed
<1>2. Cardinality(Blamed(c, j)') \in Nat
  BY <1>1, PairsFinite
<1>3. Tally(c, j)' \in {0, 1} /\ crashes' \in Nat
  BY DEF Tally, TypeOK
<1> QED
  BY <1>2, <1>3 DEF Accounted

\* A job stays accounted for while the blame does not shrink and the sum does not grow.
LEMMA StillAccounted ==
    ASSUME PunctualInv, TypeOK', NEW c \in Companies, NEW j \in JobSet,
           Blamed(c, j) \subseteq Blamed(c, j)',
           \/ late'[c][j] + Tally(c, j)' = late[c][j] + Tally(c, j) /\ crashes' = crashes
           \/ late'[c][j] = late[c][j] /\ Tally(c, j)' = 0 /\ crashes' = crashes
           \/ late'[c][j] = late[c][j] /\ crashes' = crashes + 1
    PROVE  Accounted(c, j)'
<1>1. (Blamed(c, j))' \in SUBSET (Companies \X JobSet)
  BY CompaniesAssumption DEF Blamed
<1>2. /\ Cardinality(Blamed(c, j)') \in Nat
      /\ Cardinality(Blamed(c, j)) <= Cardinality(Blamed(c, j)')
  BY <1>1, PairsFinite
<1>3. /\ late[c][j] \in Nat /\ Tally(c, j) \in {0, 1} /\ crashes \in Nat
      /\ Cardinality(Blamed(c, j)) \in Nat
  BY Numbers
<1>4. Tally(c, j)' \in {0, 1}
  BY DEF Tally
<1>5. late[c][j] + Tally(c, j) <= 1 + crashes + Cardinality(Blamed(c, j))
  BY DEF PunctualInv, Accounted
<1>6. late'[c][j] \in Nat
  BY DEF TypeOK
<1> QED
  BY <1>2, <1>3, <1>4, <1>5, <1>6 DEF Accounted

\* A job that raises while another waits is marked, and blamed for the first time:
\* it was due, and no job has waited for as long as its interval.
LEMMA NewlyBlamed ==
    ASSUME Unhurried, PunctualInv, TypeOK', NEW c \in Companies, NEW j \in JobSet,
           C \in Failing, J \in JobSet, Due(C, J), late[c][j] > 0,
           age' = Clear(age), late' = late, crashes' = crashes
    PROVE  Accounted(c, j)'
<1> DEFINE q == <<C, J>>
<1>0. /\ C \in Companies /\ late[c][j] \in Nat
      /\ age \in [Companies -> [JobSet -> Nat]]
  BY CompaniesAssumption DEF PunctualInv, TypeOK
<1>1. /\ age'[C][J] = 0
      /\ \A d \in Companies, k \in JobSet : age'[d][k] = 0 \/ age'[d][k] = age[d][k]
  BY <1>0, Clearing
<1>2. late[c][j] <= Patience /\ Patience <= Interval[J] /\ age[C][J] = Interval[J]
      /\ Patience \in Nat /\ Interval[J] \in Nat
  BY InvPunctual, Constants DEF Punctual, Unhurried, Due
<1>3. q \notin Blamed(c, j)
  BY <1>0, <1>2 DEF Blamed
<1>4. Blamed(c, j) \cup {q} \subseteq Blamed(c, j)'
  <2>1. q \in Blamed(c, j)'
    BY <1>1 DEF Blamed
  <2>2. ASSUME NEW p \in Blamed(c, j) PROVE p \in Blamed(c, j)'
    <3>1. PICK d \in Failing, k \in JobSet : p = <<d, k>>
      BY DEF Blamed
    <3>2. age[d][k] < late[c][j] /\ d \in Companies
      BY <3>1, CompaniesAssumption DEF Blamed
    <3>3. age'[d][k] < late'[c][j]
      BY <1>1, <3>2
    <3> QED
      BY <3>1, <3>3 DEF Blamed
  <2> QED
    BY <2>1, <2>2
<1>5. /\ IsFiniteSet(Blamed(c, j)) /\ Cardinality(Blamed(c, j)) \in Nat
      /\ crashes \in Nat /\ Tally(c, j) \in {0, 1}
  BY Numbers
<1>6. /\ IsFiniteSet(Blamed(c, j) \cup {q})
      /\ Cardinality(Blamed(c, j) \cup {q}) = Cardinality(Blamed(c, j)) + 1
  BY <1>3, <1>5, FS_AddElement
<1>7. /\ Cardinality(Blamed(c, j)') \in Nat
      /\ Cardinality(Blamed(c, j) \cup {q}) <= Cardinality(Blamed(c, j)')
  <2>1. (Blamed(c, j))' \in SUBSET (Companies \X JobSet)
    BY CompaniesAssumption DEF Blamed
  <2> HIDE DEF q
  <2> QED
    BY <1>4, <2>1, PairsFinite
<1>8. late[c][j] + Tally(c, j) <= 1 + crashes + Cardinality(Blamed(c, j))
  BY DEF PunctualInv, Accounted
<1>9. Tally(c, j)' \in {0, 1}
  BY DEF Tally
<1> QED
  BY <1>0, <1>5, <1>6, <1>7, <1>8, <1>9 DEF Accounted

\* Every step accounts for the ticks it makes a job wait.
LEMMA StepAccounted ==
    ASSUME Unhurried, PunctualInv, [Next]_vars, NEW c \in Companies, NEW j \in JobSet
    PROVE  Accounted(c, j)'
<1>0. /\ Waiting /\ TypeOK /\ TypeOK' /\ late[c][j] \in Nat /\ age[c][j] \in Nat
      /\ age \in [Companies -> [JobSet -> Nat]] /\ late \in [Companies -> [JobSet -> Nat]]
      /\ Interval[j] \in Nat /\ Interval[j] > 0
      /\ \A d \in Companies, k \in JobSet : age[d][k] <= Interval[k]
  BY StepTyped, Constants DEF PunctualInv, TypeOK
<1>1. ASSUME age' = age, late'[c][j] = late[c][j] PROVE Blamed(c, j)' = Blamed(c, j)
  BY <1>1 DEF Blamed
<1>2. ASSUME NEW d \in Companies, Activate(d) PROVE Accounted(c, j)'
  <2>1. /\ age' = age /\ late' = late /\ crashes' = crashes /\ stage' = stage
        /\ todo' = todo /\ left' = left /\ d \notin active /\ active' = active \cup {d}
    BY <1>2 DEF Activate, loops, rows
  <2>2. CASE late[c][j] = 0
    BY <1>0, <2>1, <2>2, NotWaiting
  <2>3. CASE late[c][j] # 0
    <3>1. c \in active
      BY <1>0, <2>3 DEF Waiting
    <3>2. Left(c, j)' = Left(c, j)
      BY <2>1, SameJob
    <3>3. Tally(c, j)' = Tally(c, j)
      BY <2>1, <3>1, <3>2 DEF Tally, Skipped, Due
    <3> QED
      BY <1>0, <1>1, <2>1, <3>3, StillAccounted
  <2> QED
    BY <2>2, <2>3
<1>3. CASE StartTick
  <2>1. /\ age' = age /\ late' = late /\ crashes' = crashes /\ active' = active
        /\ stage = "tick" /\ left' = left /\ todo' \in Seq(Companies)
    BY <1>0, <1>3 DEF StartTick, rows, TypeOK
  <2>2. left = Jobs
    BY <1>0, <2>1 DEF Waiting
  <2>3. ASSUME c \in active PROVE Left(c, j)'
    <3>1. PICK i \in 1 .. Len(todo') : todo'[i] = c
      BY <1>0, <1>3, <2>3, TickSeesAll
    <3>2. Len(todo') \in Nat
      BY <2>1, LenProperties
    <3>3. todo' # <<>>
      <4>1. Len(todo') # 0
        BY <3>1, <3>2
      <4>2. Len(<<>>) = 0
        BY EmptySeq
      <4> QED
        BY <4>1, <4>2, Zenon
    <3>4. \E m \in 1 .. Len(Jobs) : Jobs[m] = j
      <4>1. DOMAIN Jobs = 1 .. Len(Jobs)
        BY Constants, LenProperties
      <4> QED
        BY <4>1, Zenon DEF JobSet, ToSet
    <3>5. CASE i = 1
      BY <2>1, <2>2, <3>1, <3>3, <3>4, <3>5 DEF Left
    <3>6. CASE i # 1
      <4>1. i \in 2 .. Len(todo')
        BY <3>2, <3>6
      <4> QED
        BY <3>1, <3>3, <4>1 DEF Left
    <3> QED
      BY <3>5, <3>6
  <2>4. Tally(c, j)' = 0
    BY <2>1, <2>3 DEF Tally, Skipped
  <2> QED
    BY <1>0, <1>1, <2>1, <2>4, StillAccounted
<1>4. CASE CheckDue
  <2>0. C \in Companies /\ J \in JobSet /\ todo # <<>> /\ stage = "visit"
    BY <1>0, <1>4, Visited DEF CheckDue
  <2>1. CASE Due(C, J)
    <3>1. /\ stage' = "cycle" /\ todo' = todo /\ left' = left /\ late' = Clear(late)
          /\ age' = age /\ crashes' = crashes /\ active' = active
      BY <1>4, <2>1 DEF CheckDue, loops, rows
    <3>2. late'[c][j] = 0 \/ late'[c][j] = late[c][j]
      BY <1>0, <2>0, <3>1, Clearing
    <3>3. Tally(c, j)' = Tally(c, j)
      <4>1. Left(c, j)' = Left(c, j)
        BY <3>1, SameJob
      <4> QED
        BY <2>0, <3>1, <4>1 DEF Tally, Skipped, Due
    <3>4. CASE late'[c][j] = 0
      BY <1>0, <3>4, NotWaiting
    <3>5. CASE late'[c][j] = late[c][j]
      BY <1>0, <1>1, <3>1, <3>3, <3>5, StillAccounted
    <3> QED
      BY <3>2, <3>4, <3>5
  <2>2. CASE ~Due(C, J)
    <3>1. /\ stage' = "visit" /\ NextJob /\ late' = late
          /\ age' = age /\ crashes' = crashes /\ active' = active
      BY <1>4, <2>0, <2>2 DEF CheckDue, rows
    <3>2. ASSUME Skipped(c, j)' PROVE Skipped(c, j)
      <4>1. c \in active /\ Due(c, j) /\ ~Left(c, j)'
        BY <3>1, <3>2 DEF Skipped, Due
      <4>2. c # C \/ j # J
        BY <2>2, <4>1
      <4>3. ~Left(c, j)
        BY <1>0, <2>0, <3>1, <4>1, <4>2, NextJobKeeps
      <4> QED
        BY <2>0, <4>1, <4>3 DEF Skipped
    <3>3. Tally(c, j)' = 0 \/ Tally(c, j)' = Tally(c, j)
      BY <3>2 DEF Tally
    <3> QED
      BY <1>0, <1>1, <3>1, <3>3, StillAccounted
  <2> QED
    BY <2>1, <2>2
<1>5. CASE RunCycle \/ GenerateReport
  <2>1. /\ stage \in {"cycle", "report"} /\ stage' \in {"report", "mark"}
        /\ todo' = todo /\ left' = left
        /\ age' = age /\ late' = late /\ crashes' = crashes /\ active' = active
    BY <1>5 DEF RunCycle, GenerateReport, loops, rows
  <2>2. Left(c, j)' = Left(c, j)
    BY <2>1, SameJob
  <2>3. Tally(c, j)' = Tally(c, j)
    BY <2>1, <2>2 DEF Tally, Skipped, Due
  <2> QED
    BY <1>0, <1>1, <2>1, <2>3, StillAccounted
<1>6. CASE Mark
  <2>0. C \in Companies /\ J \in JobSet /\ todo # <<>> /\ stage = "mark"
    BY <1>0, <1>6, Visited DEF Mark, TypeOK
  <2>1. /\ stage' = "visit" /\ age' = Clear(age) /\ late' = late
        /\ crashes' = crashes /\ active' = active
    BY <1>6 DEF Mark
  <2>2. Due(C, J) /\ late[C][J] = 0 /\ (raised => C \in Failing)
    BY <1>0, <2>0 DEF Waiting, Running
  <2>3. CASE late[c][j] = 0
    BY <1>0, <2>1, <2>3, NotWaiting
  <2>4. CASE late[c][j] > 0 /\ raised
    BY <1>0, <2>0, <2>1, <2>2, <2>4, NewlyBlamed
  <2>5. CASE late[c][j] > 0 /\ ~raised
    <3>1. NextJob
      BY <1>6, <2>5 DEF Mark
    <3>2. c # C \/ j # J
      BY <2>2, <2>5
    <3>3. age'[c][j] = age[c][j]
          /\ \A d \in Companies, k \in JobSet : age'[d][k] = 0 \/ age'[d][k] = age[d][k]
      BY <1>0, <2>0, <2>1, <3>2, Clearing
    <3>4. ASSUME Skipped(c, j)' PROVE Skipped(c, j)
      <4>1. c \in active /\ Due(c, j) /\ ~Left(c, j)'
        BY <2>1, <3>3, <3>4 DEF Skipped, Due
      <4>2. ~Left(c, j)
        BY <1>0, <2>0, <3>1, <3>2, <4>1, NextJobKeeps
      <4> QED
        BY <2>0, <4>1, <4>2 DEF Skipped
    <3>5. Tally(c, j)' = 0 \/ Tally(c, j)' = Tally(c, j)
      BY <3>4 DEF Tally
    <3>6. Blamed(c, j) \subseteq Blamed(c, j)'
      <4> SUFFICES ASSUME NEW p \in Blamed(c, j) PROVE p \in Blamed(c, j)'
        OBVIOUS
      <4>1. PICK d \in Failing, k \in JobSet : p = <<d, k>>
        BY DEF Blamed
      <4>2. age[d][k] < late[c][j] /\ d \in Companies
        BY <4>1, CompaniesAssumption DEF Blamed
      <4>3. age'[d][k] < late'[c][j]
        BY <2>1, <2>5, <3>3, <4>2
      <4> QED
        BY <4>1, <4>3 DEF Blamed
    <3> QED
      BY <1>0, <2>1, <3>5, <3>6, StillAccounted
  <2> QED
    BY <1>0, <2>3, <2>4, <2>5
<1>7. CASE Sleep
  <2>1. /\ stage' = "tick" /\ stage = "visit" /\ todo = <<>> /\ crashes' = crashes
        /\ age' = Older(age)
    BY <1>7 DEF Sleep, loops
  <2>2. late'[c][j] = IF c \in active /\ Due(c, j) /\ late[c][j] <= Patience
                      THEN late[c][j] + 1 ELSE late[c][j]
    BY <1>7, Zenon DEF Sleep
  <2>3. late[c][j] <= Patience
    BY InvPunctual DEF Punctual
  <2>4. Tally(c, j)' = 0
    BY <2>1 DEF Tally, Skipped
  <2>5. CASE c \in active /\ Due(c, j)
    <3>1. late'[c][j] = late[c][j] + 1
      BY <2>2, <2>3, <2>5
    <3>2. Tally(c, j) = 1
      BY <2>1, <2>5 DEF Tally, Skipped, Left
    <3>3. Blamed(c, j) \subseteq Blamed(c, j)'
      <4> SUFFICES ASSUME NEW p \in Blamed(c, j) PROVE p \in Blamed(c, j)'
        OBVIOUS
      <4>1. PICK d \in Failing, k \in JobSet : p = <<d, k>>
        BY DEF Blamed
      <4>2. age[d][k] < late[c][j] /\ d \in Companies /\ age[d][k] \in Nat
            /\ Interval[k] \in Nat /\ age[d][k] <= Interval[k]
        BY <1>0, <4>1, CompaniesAssumption, Constants DEF Blamed
      <4>3. age'[d][k] = IF age[d][k] < Interval[k] THEN age[d][k] + 1 ELSE Interval[k]
        BY <1>0, <2>1, <4>2, Aging
      <4>4. age'[d][k] < late'[c][j]
        <5> HIDE <1>0
        <5>1. late[c][j] \in Nat
          BY <1>0
        <5> QED
          BY <3>1, <4>2, <4>3, <5>1
      <4> QED
        BY <4>1, <4>4 DEF Blamed
    <3>4. late'[c][j] + Tally(c, j)' = late[c][j] + Tally(c, j)
      BY <1>0, <2>4, <3>1, <3>2
    <3> QED
      BY <1>0, <2>1, <3>3, <3>4, StillAccounted
  <2>6. CASE ~(c \in active /\ Due(c, j))
    <3>1. late[c][j] = 0
      BY <1>0, <2>6 DEF Waiting
    <3>2. late'[c][j] = 0
      BY <2>2, <2>6, <3>1
    <3> QED
      BY <1>0, <3>2, NotWaiting
  <2> QED
    BY <2>5, <2>6
<1>8. CASE Crash \/ Restart
  <2>1. age' = age /\ late' = late /\ crashes' = crashes + 1
    BY <1>8 DEF Crash, Restart, Lose, rows
  <2> QED
    BY <1>0, <1>1, <2>1, StillAccounted
<1>9. CASE UNCHANGED vars
  <2>1. /\ age' = age /\ late' = late /\ crashes' = crashes /\ active' = active
        /\ stage' = stage /\ todo' = todo /\ left' = left
    BY <1>9 DEF vars, loops, rows
  <2>2. Tally(c, j)' = Tally(c, j)
    BY <2>1, SameJob DEF Tally, Skipped, Due
  <2> QED
    BY <1>0, <1>1, <2>1, <2>2, StillAccounted
<1> QED
  BY <1>2, <1>3, <1>4, <1>5, <1>6, <1>7, <1>8, <1>9, Zenon DEF Next, Step

\* A due job waits for at most one tick per failing job, one per crash and one
\* more, for any companies, jobs, intervals and order of visits, as long as no
\* interval is shorter than that.
THEOREM PunctualHolds == Unhurried => (Spec => []Punctual)
<1> SUFFICES ASSUME Unhurried PROVE Spec => []Punctual
  OBVIOUS
<1>1. Init => PunctualInv
  <2> SUFFICES ASSUME Init PROVE PunctualInv
    OBVIOUS
  <2>1. TypeOK
    BY InitTyped
  <2>2. Waiting
    BY CrashAssumption DEF Init, Waiting, Running
  <2>3. ASSUME NEW c \in Companies, NEW j \in JobSet PROVE Accounted(c, j)
    <3>1. late[c][j] = 0 /\ crashes = 0
      BY <2>3 DEF Init
    <3>2. Blamed(c, j) \in SUBSET (Companies \X JobSet)
      BY CompaniesAssumption DEF Blamed
    <3>3. Cardinality(Blamed(c, j)) \in Nat
      BY <3>2, PairsFinite
    <3>4. Tally(c, j) \in {0, 1}
      BY DEF Tally
    <3> QED
      BY <3>1, <3>3, <3>4 DEF Accounted
  <2> QED
    BY <2>1, <2>2, <2>3 DEF PunctualInv
<1>2. PunctualInv /\ [Next]_vars => PunctualInv'
  <2> SUFFICES ASSUME PunctualInv, [Next]_vars PROVE PunctualInv'
    OBVIOUS
  <2>1. TypeOK' /\ Waiting'
    BY StepTyped, StepWaiting DEF PunctualInv
  <2>2. \A c \in Companies, j \in JobSet : Accounted(c, j)'
    BY StepAccounted
  <2> QED
    BY <2>1, <2>2 DEF PunctualInv
<1>3. PunctualInv => Punctual
  BY InvPunctual
<1> QED
  BY <1>1, <1>2, <1>3, PTL DEF Spec

===============================================================================

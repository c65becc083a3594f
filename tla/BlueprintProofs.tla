--------------------------- MODULE BlueprintProofs ---------------------------
(***************************************************************************)
(* What MCBlueprint's runs check on a small instance, for every set of     *)
(* requests, tasks and contents.                                           *)
(***************************************************************************)
EXTENDS Blueprint, FiniteSetTheorems, SequenceTheorems, TLAPS

-----------------------------------------------------------------------------
(* The validator.                                                          *)

\* What a payload's fields may be.
LEMMA PayloadFields ==
    ASSUME NEW p \in Payload
    PROVE  /\ p.business_type \in {Null} \cup Words
           /\ p.priorities \in {Null, Malformed} \cup Seq(Words) /\ p.threshold \in {Null, Malformed} \cup Int
           /\ p.notify \in {Missing} \cup BOOLEAN /\ p.digest \in {Missing} \cup BOOLEAN
           /\ p.capabilities \in {Null, Malformed} \cup Seq(Words)
           /\ p.categories \in {Null, Malformed} \cup Seq(Words)
BY DEF Payload

\* A list of texts is neither null nor malformed, and stripping its texts twice
\* does no more than stripping them once.
LEMMA StrippedList ==
    ASSUME NEW list \in Seq(Words), list # <<>>
    PROVE  LET stripped == [i \in DOMAIN list |-> Strip[list[i]]]
           IN  /\ stripped \in Seq(Words) /\ stripped # <<>> /\ DOMAIN stripped = DOMAIN list
               /\ [i \in DOMAIN stripped |-> Strip[stripped[i]]] = stripped
<1> DEFINE stripped == [i \in DOMAIN list |-> Strip[list[i]]]
<1>1. DOMAIN list = 1 .. Len(list) /\ Len(list) \in Nat /\ \A i \in DOMAIN list : list[i] \in Words
  OBVIOUS
<1>2. 1 \in DOMAIN list
  BY <1>1, EmptySeq
<1>3. \A i \in DOMAIN list : stripped[i] \in Words /\ Strip[stripped[i]] = stripped[i]
  BY <1>1, WordsAssumption
<1>4. stripped \in Seq(Words)
  BY <1>1, <1>3, IsASeq
<1>5. [i \in DOMAIN stripped |-> Strip[stripped[i]]] = stripped
  BY <1>3
<1> QED
  BY <1>2, <1>4, <1>5

\* Validating twice is validating once: what the validator returns it accepts, and
\* returns unchanged, so that a restore publishes what was published before.
THEOREM ValidatedAgain ==
    ASSUME NEW p \in Payload, Accepts(p)
    PROVE  Accepts(Validated(p)) /\ Validated(Validated(p)) = Validated(p)
<1> DEFINE v == Validated(p)
<1>0. Null # <<>> /\ Malformed # <<>> /\ \A from : Drawn(<<>>, from)
  <2>1. <<>> \in Seq(Words)
    OBVIOUS
  <2>2. \A i : i \notin DOMAIN <<>>
    OBVIOUS
  <2> QED
    BY <2>1, <2>2, ValuesAssumption, Zenon DEF Drawn
<1>1. /\ v.business_type = Strip[p.business_type] /\ Strip[v.business_type] = v.business_type
      /\ v.business_type # Null /\ v.business_type \in BusinessTypes
  BY PayloadFields, WordsAssumption, ValuesAssumption DEF Accepts, Validated
<1>2. /\ v.priorities # Null /\ Known(v.priorities, Priorities)
  <2>1. CASE p.priorities = Null
    <3>1. v.priorities = <<>>
      BY <2>1 DEF Validated
    <3> QED
      BY <1>0, <3>1, Zenon DEF Known
  <2>2. CASE p.priorities # Null
    BY <2>2 DEF Accepts, Validated
  <2> QED
    BY <2>1, <2>2
<1>3. v.threshold # Malformed /\ (v.threshold # Null => v.threshold >= 0)
  BY DEF Accepts, Validated
<1>4. v.notify # Missing /\ v.digest # Missing
  BY PayloadFields, ValuesAssumption DEF Validated, Given
<1>5. /\ v.capabilities # Null /\ v.capabilities # <<>>
      /\ Known(v.capabilities, {Capabilities[i] : i \in DOMAIN Capabilities})
  BY PayloadFields, ValuesAssumption, WordsAssumption DEF Accepts, Validated, Known, Drawn
<1>6. /\ Known(v.categories, {w \in Words : Strip[w] # ""}) /\ v.categories # <<>>
      /\ v.categories # Null => [i \in DOMAIN v.categories |-> Strip[v.categories[i]]] = v.categories
  <2>1. CASE p.categories \in {Null, <<>>}
    <3>1. v.categories = Null
      BY <2>1 DEF Validated
    <3> QED
      BY <1>0, <3>1, ValuesAssumption, Zenon DEF Known
  <2>2. CASE p.categories \notin {Null, <<>>}
    <3>1. p.categories \in Seq(Words) /\ p.categories # <<>>
      BY <2>2, PayloadFields DEF Accepts, Known
    <3>2. v.categories = [i \in DOMAIN p.categories |-> Strip[p.categories[i]]]
      BY <2>2 DEF Validated
    <3>3. \A i \in DOMAIN p.categories : p.categories[i] \in Words /\ Strip[p.categories[i]] # ""
      BY <3>1, <2>2 DEF Accepts, Known, Drawn
    <3>4. Drawn(v.categories, {w \in Words : Strip[w] # ""})
      BY <3>2, <3>3, WordsAssumption DEF Drawn
    <3> QED
      BY <3>1, <3>2, <3>4, StrippedList, ValuesAssumption DEF Known
  <2> QED
    BY <2>1, <2>2
<1>7. Accepts(v)
  BY <1>1, <1>2, <1>3, <1>5, <1>6 DEF Accepts
<1>8. Validated(v) = v
  <2>1. /\ v.categories \in {Null, <<>>} => v.categories = Null
        /\ Given(v.notify, TRUE) = v.notify /\ Given(v.digest, TRUE) = v.digest
    BY <1>4, <1>6 DEF Given
  <2>2. v = [business_type |-> v.business_type, priorities |-> v.priorities, threshold |-> v.threshold,
             notify |-> v.notify, digest |-> v.digest, capabilities |-> v.capabilities, categories |-> v.categories]
    BY DEF Validated
  <2> HIDE DEF v
  <2> QED
    BY <1>1, <1>2, <1>5, <1>6, <2>1, <2>2 DEF Validated
<1> QED
  BY <1>7, <1>8

\* So it is of every content that is published.
LEMMA ContentsAgain == \A c \in Contents : Accepts(c) /\ Validated(c) = c
BY ValidatedAgain, PayloadsAssumption DEF Contents

-----------------------------------------------------------------------------
(* Types and the version counter.  TypeOK is not inductive alone: that a   *)
(* committed version is positive rests on OneWriter.                       *)

CoreInv == TypeOK /\ OneWriter /\ HistoryMatchesActive

\* There is a content to fill an idle request's record with.
LEMMA AnyContentType == AnyContent \in Contents
BY PayloadsAssumption DEF AnyContent, Contents

\* An idle request is well formed.
LEMMA IdleJobType == IdleJob \in Job
BY AnyContentType DEF IdleJob, Job, Stages, Kinds

\* An idle loading task is well formed.
LEMMA IdleLoadType == IdleLoad \in Load
BY DEF IdleLoad, Load

\* The absent row has no content, so it is no row.
LEMMA NoRowNotRow == NoRow \notin Row
BY DEF NoRow, Row, Version

\* Without versions, locks and requests the core invariant holds.
LEMMA CoreInit == Init => CoreInv
<1> SUFFICES ASSUME Init PROVE CoreInv
  OBVIOUS
<1>1. TypeOK
  <2>1. active \in Row \cup {NoRow} /\ versions \in Seq(Row) /\ automations \in Seq(Contents)
    BY DEF Init
  <2>2. cache \in [CacheKeys -> Row \cup {NoRow}]
    BY DEF Init
  <2>3. job \in [Requests -> Job] /\ load \in [Tasks -> Load]
    BY IdleJobType, IdleLoadType DEF Init
  <2>4. status \in [on : BOOLEAN, version : Nat]
    BY DEF Init
  <2>5. past \in Past
    BY DEF Init, Past
  <2> QED BY <2>1, <2>2, <2>3, <2>4, <2>5 DEF Init, TypeOK
<1>2. OneWriter
  BY DEF Init, OneWriter, At, IdleJob
<1>3. HistoryMatchesActive
  BY DEF Init, HistoryMatchesActive
<1> QED BY <1>1, <1>2, <1>3 DEF CoreInv

\* Moving a request to another stage changes nothing else of any job.
LEMMA GotoJob ==
  ASSUME TypeOK, NEW r \in Requests, NEW s \in Stages, Goto(r, s)
  PROVE  /\ job' \in [Requests -> Job]
         /\ job'[r].stage = s
         /\ job'[r].kind = job[r].kind
         /\ job'[r].draft = job[r].draft
         /\ job'[r].source = job[r].source
         /\ job'[r].mine = job[r].mine
         /\ \A q \in Requests : q # r => job'[q] = job[q]
<1>1. job \in [Requests -> Job] /\ job[r] \in Job
  BY DEF TypeOK
<1>2. job' = [job EXCEPT ![r] = [job[r] EXCEPT !.stage = s]]
  BY DEF Goto
<1>3. [job[r] EXCEPT !.stage = s] \in Job
  BY <1>1 DEF Job
<1>4. job'[r] = [job[r] EXCEPT !.stage = s]
  BY <1>1, <1>2
<1> QED BY <1>1, <1>2, <1>3, <1>4 DEF Job

\* Finish makes one request idle and leaves the others.
LEMMA FinishJob ==
  ASSUME TypeOK, NEW r \in Requests, Finish(r)
  PROVE  /\ job' \in [Requests -> Job]
         /\ job'[r] = IdleJob
         /\ \A q \in Requests : q # r => job'[q] = job[q]
BY IdleJobType DEF TypeOK, Finish

\* A step that leaves the tables alone, and leads no request into the
\* transaction, keeps the two parts of the invariant about versions.
LEMMA OutsideTransaction ==
  ASSUME OneWriter, HistoryMatchesActive, UNCHANGED dbVars,
         \A q \in Requests : At(q, "tx")' => At(q, "tx") /\ job'[q].mine = job[q].mine
  PROVE  OneWriter' /\ HistoryMatchesActive'
BY DEF OneWriter, HistoryMatchesActive, dbVars, At, NextVersion

\* One step of the transaction: the row lock makes "version + 1" the number
\* this transaction still holds when it commits.
LEMMA UpsertCore ==
  ASSUME CoreInv, NEW r \in Requests, Upsert(r)
  PROVE  CoreInv'
<1> USE DEF CoreInv
<1>1. active \in Row \cup {NoRow} /\ job \in [Requests -> Job] /\ NextVersion \in Nat
  BY DEF TypeOK, NextVersion, Row, NoRow, Version
<1>2. [job[r] EXCEPT !.stage = "tx", !.mine = NextVersion] \in Job
  BY <1>1 DEF Job, Stages
<1>3. job' = [job EXCEPT ![r] = [job[r] EXCEPT !.stage = "tx", !.mine = NextVersion]]
  BY <1>1 DEF Upsert
<1>4. TypeOK'
  BY <1>1, <1>2, <1>3 DEF TypeOK, Upsert, sideVars
<1>5. OneWriter'
  <2> SUFFICES ASSUME NEW q \in Requests, At(q, "tx")'
               PROVE  (rowLock = {q} /\ job[q].mine = NextVersion)'
    BY DEF OneWriter
  <2>1. CASE q = r
    BY <2>1, <1>1, <1>2, <1>3 DEF Upsert, NextVersion, Job
  <2>2. CASE q # r
    <3>1. At(q, "tx")
      BY <2>2, <1>1, <1>3 DEF At
    <3> QED BY <3>1 DEF OneWriter, Upsert
  <2> QED BY <2>1, <2>2
<1>6. HistoryMatchesActive'
  BY DEF HistoryMatchesActive, Upsert
<1> QED BY <1>4, <1>5, <1>6

\* The committed version is the next one, because its transaction held the lock.
LEMMA CommitCore ==
  ASSUME CoreInv, NEW r \in Requests, Commit(r)
  PROVE  CoreInv'
<1> USE DEF CoreInv
<1> DEFINE row == [version |-> job[r].mine, content |-> job[r].draft]
<1>1. /\ active \in Row \cup {NoRow} /\ job \in [Requests -> Job]
      /\ versions \in Seq(Row) /\ rowLock = {r} /\ job[r].mine = NextVersion
  BY DEF TypeOK, Commit, OneWriter
<1>2. row \in Row /\ job[r].mine = Len(versions) + 1
  <2>1. active.version = Len(versions)
    BY <1>1, NoRowNotRow DEF HistoryMatchesActive, NoRow, Row, Version
  <2> QED BY <2>1, <1>1 DEF NextVersion, Row, Version, Job
<1>3. versions' = Append(versions, row) /\ active' = row /\ rowLock' = {}
  BY <1>1 DEF Commit
<1>4. job' \in [Requests -> Job] /\ \A q \in Requests : At(q, "tx")' => q # r /\ At(q, "tx")
  <2>1. CASE Finish(r)
    BY <2>1, FinishJob DEF At, IdleJob
  <2>2. CASE Goto(r, "invalidate")
    <3>1. "invalidate" \in Stages
      BY DEF Stages
    <3> QED BY <2>2, <3>1, <1>1, GotoJob DEF At, Job
  <2> QED BY <2>1, <2>2 DEF Commit
<1>5. TypeOK'
  BY <1>1, <1>2, <1>3, <1>4 DEF TypeOK, Commit, sideVars
<1>6. OneWriter'
  BY <1>1, <1>4 DEF OneWriter
<1>7. HistoryMatchesActive'
  BY <1>1, <1>2, <1>3 DEF HistoryMatchesActive
<1> QED BY <1>5, <1>6, <1>7

\* Every other step of a request only leads out of the transaction.
LEMMA BeginCore ==
  ASSUME CoreInv, NEW r \in Requests, BeginRequest(r)
  PROVE  CoreInv'
<1> USE DEF CoreInv
<1>1. PICK k \in Kinds, c \in Contents, n \in Nat : Begin(r, k, c, n)
  <2>1. CASE BeginSignup(r)
    BY <2>1 DEF BeginSignup, Kinds, Contents
  <2>2. CASE BeginPublish(r)
    BY <2>2 DEF BeginPublish, Kinds, Contents
  <2>3. CASE BeginRestore(r)
    <3>1. PICK i \in DOMAIN versions :
             Begin(r, "restore", Validated(versions[i].content), versions[i].version)
      BY <2>3 DEF BeginRestore
    <3>2. versions[i] \in Row
      BY DEF TypeOK
    <3>3. Validated(versions[i].content) \in Contents
      BY <3>2, ContentsAgain DEF Row
    <3> QED BY <3>1, <3>2, <3>3 DEF Row, Version, Kinds
  <2> QED BY <2>1, <2>2, <2>3 DEF BeginRequest
<1>2. /\ job' = [job EXCEPT ![r] = [stage |-> "upsert", kind |-> k, draft |-> c,
                                    source |-> n, mine |-> 0]]
      /\ UNCHANGED <<active, versions, rowLock, cache, load, past>>
  BY <1>1 DEF Begin
<1>3. job' \in [Requests -> Job]
  BY <1>2 DEF TypeOK, Job, Stages
<1>4. UNCHANGED <<automations, events, status>> /\ signedUp' \in BOOLEAN
  BY DEF BeginRequest, BeginSignup, BeginPublish, BeginRestore, sideVars, TypeOK
<1>5. TypeOK'
  BY <1>2, <1>3, <1>4 DEF TypeOK
<1>6. \A q \in Requests : At(q, "tx")' => At(q, "tx") /\ job'[q].mine = job[q].mine
  BY <1>2 DEF TypeOK, At
<1> QED BY <1>2, <1>5, <1>6, OutsideTransaction DEF dbVars

\* What the handlers do after the commit touches neither versions nor the lock.
LEMMA HandlerCore ==
  ASSUME CoreInv, NEW r \in Requests,
         Invalidate(r) \/ PurgeAutomations(r) \/ CreateAutomation(r) \/ Announce(r) \/ Activate(r)
  PROVE  CoreInv'
<1> USE DEF CoreInv
<1>1. job[r] \in Job
  BY DEF TypeOK
<1>2. UNCHANGED dbVars /\ UNCHANGED <<load, signedUp>>
  BY DEF Invalidate, PurgeAutomations, CreateAutomation, Announce, Activate, sideVars
<1>3. Finish(r) \/ \E s \in Stages \ {"tx"} : Goto(r, s)
  BY DEF Invalidate, PurgeAutomations, CreateAutomation, Announce, Activate, Stages
<1>4. /\ job' \in [Requests -> Job]
      /\ \A q \in Requests : At(q, "tx")' => At(q, "tx") /\ job'[q].mine = job[q].mine
  <2>1. CASE Finish(r)
    BY <2>1, FinishJob DEF At, IdleJob
  <2>2. ASSUME NEW s \in Stages \ {"tx"}, Goto(r, s)
        PROVE  <1>4
    BY <2>2, <1>1, GotoJob DEF At, Job
  <2> QED BY <1>3, <2>1, <2>2
<1>5. cache' \in [CacheKeys -> Row \cup {NoRow}]
  BY DEF Invalidate, PurgeAutomations, CreateAutomation, Announce, Activate, TypeOK
<1>6. automations' \in Seq(Contents)
  <2>1. automations \in Seq(Contents) /\ job[r].draft \in Contents
    BY <1>1 DEF TypeOK, Job
  <2>2. \/ automations' = automations
        \/ automations' = <<>>
        \/ automations' = Append(automations, job[r].draft)
    BY DEF Invalidate, PurgeAutomations, CreateAutomation, Announce, Activate, sideVars
  <2>3. CASE automations' = automations
    BY <2>1, <2>3
  <2>5. CASE automations' = <<>>
    <3>1. <<>> \in Seq(Contents)
      OBVIOUS
    <3> QED BY <2>5, <3>1, Zenon
  <2>4. CASE automations' = Append(automations, job[r].draft)
    BY <2>1, <2>4
  <2> QED BY <2>2, <2>3, <2>4, <2>5
<1>7. events' \subseteq [kind : Kinds, version : Nat]
  <2>1. [kind |-> job[r].kind, version |-> job[r].mine] \in [kind : Kinds, version : Nat]
    BY <1>1 DEF Job
  <2>2. events' \in {events, events \cup {[kind |-> job[r].kind, version |-> job[r].mine]}}
    BY DEF Invalidate, PurgeAutomations, CreateAutomation, Announce, Activate, sideVars
  <2> QED BY <2>1, <2>2 DEF TypeOK
<1>8. status' \in [on : BOOLEAN, version : Nat]
  <2>1. CASE Activate(r)
    BY <2>1, <1>1 DEF Activate, Job
  <2>2. CASE ~Activate(r)
    BY <2>2 DEF Invalidate, PurgeAutomations, CreateAutomation, Announce, TypeOK, sideVars
  <2> QED BY <2>1, <2>2
<1>9. past' \in Past
  <2>1. CASE Invalidate(r)
    <3>1. past \in Past /\ job[r].mine \in Nat
      BY <1>1 DEF TypeOK, Job
    <3>2. /\ {t \in Tasks : Key(t) = "uuid" /\ load[t].stage = "fill"} \in SUBSET Tasks
          /\ (IF job[r].mine > past.dropped THEN job[r].mine ELSE past.dropped) \in Nat
      BY <3>1 DEF Past
    <3> QED BY <2>1, <3>2, Zenon DEF Invalidate, Overtake, Past
  <2>2. CASE ~Invalidate(r)
    BY <2>2 DEF PurgeAutomations, CreateAutomation, Announce, Activate, TypeOK
  <2> QED BY <2>1, <2>2
<1>10. TypeOK'
  BY <1>2, <1>4, <1>5, <1>6, <1>7, <1>8, <1>9 DEF TypeOK, dbVars
<1> QED BY <1>2, <1>4, <1>10, OutsideTransaction

\* A rolled-back transaction gives the lock back and leaves no version.
LEMMA FailCore ==
  ASSUME CoreInv, NEW r \in Requests, Fail(r)
  PROVE  CoreInv'
<1> USE DEF CoreInv
<1>1. /\ job' \in [Requests -> Job]
      /\ \A q \in Requests : At(q, "tx")' => q # r /\ At(q, "tx") /\ job'[q].mine = job[q].mine
  BY FinishJob DEF Fail, At, IdleJob
<1>2. TypeOK'
  BY <1>1 DEF Fail, TypeOK, sideVars
<1>3. OneWriter' /\ HistoryMatchesActive'
  BY <1>1 DEF Fail, OneWriter, HistoryMatchesActive, NextVersion, At
<1> QED BY <1>2, <1>3

\* Loading only touches the cache.
LEMMA LoadCore ==
  ASSUME CoreInv, NEW t \in Tasks, LoadStep(t)
  PROVE  CoreInv'
<1> USE DEF CoreInv
<1>1. UNCHANGED <<dbVars, job, sideVars>>
  BY DEF LoadStep, StartLoad, Fetch, LoadFails, Fill
<1>2. load' \in [Tasks -> Load]
  <2>1. load[t] \in Load /\ load \in [Tasks -> Load]
    BY DEF TypeOK
  <2>2. CASE StartLoad(t)
    <3>1. [load[t] EXCEPT !.stage = "fetch"] \in Load
      BY <2>1 DEF Load
    <3> QED BY <2>1, <2>2, <3>1 DEF StartLoad
  <2>3. CASE Fetch(t)
    BY <2>1, <2>3, IdleLoadType DEF Fetch, Load, TypeOK
  <2>4. CASE LoadFails(t) \/ Fill(t)
    BY <2>1, <2>4, IdleLoadType DEF LoadFails, Fill
  <2> QED BY <2>2, <2>3, <2>4 DEF LoadStep
<1>3. cache' \in [CacheKeys -> Row \cup {NoRow}]
  BY DEF LoadStep, StartLoad, Fetch, LoadFails, Fill, TypeOK, Load
<1>4. past' \in Past
  <2>1. CASE Fill(t)
    <3>1. past \in Past /\ past.overtaken \ {t} \in SUBSET Tasks /\ past.tainted \in BOOLEAN
      BY DEF TypeOK, Past
    <3>2. PICK b : b = IF Key(t) = "uuid" THEN t \in past.overtaken ELSE past.tainted
      OBVIOUS
    <3>3. past' = [past EXCEPT !.overtaken = past.overtaken \ {t}, !.tainted = b]
      BY <2>1, <3>1, <3>2, Zenon DEF Fill, Filled
    <3>4. b \in BOOLEAN
      <4>1. CASE Key(t) = "uuid"
        <5>1. b = (t \in past.overtaken)
          BY <3>2, <4>1, Zenon
        <5>2. (t \in past.overtaken) \in BOOLEAN
          OBVIOUS
        <5> QED BY <5>1, <5>2, Zenon
      <4>2. CASE Key(t) # "uuid"
        BY <3>1, <3>2, <4>2, Zenon
      <4> QED BY <4>1, <4>2
    <3> QED BY <3>1, <3>3, <3>4 DEF Past
  <2>2. CASE ~Fill(t)
    BY <2>2 DEF LoadStep, StartLoad, Fetch, LoadFails, TypeOK
  <2> QED BY <2>1, <2>2
<1>5. TypeOK'
  BY <1>1, <1>2, <1>3, <1>4 DEF TypeOK, dbVars, sideVars
<1> QED BY <1>1, <1>5, OutsideTransaction DEF At

\* A restart rolls everything back that is not committed.
LEMMA RestartCore == CoreInv /\ Restart => CoreInv'
<1> SUFFICES ASSUME CoreInv, Restart PROVE CoreInv'
  OBVIOUS
<1> USE DEF CoreInv
<1>1. job' \in [Requests -> Job] /\ load' \in [Tasks -> Load]
  BY IdleJobType, IdleLoadType DEF Restart
<1>2. TypeOK'
  BY <1>1 DEF Restart, TypeOK, Past, sideVars
<1>3. OneWriter' /\ HistoryMatchesActive'
  BY DEF Restart, OneWriter, HistoryMatchesActive, At, IdleJob
<1> QED BY <1>2, <1>3

\* The core invariant is inductive.
LEMMA CoreNext == CoreInv /\ [Next]_vars => CoreInv'
<1> SUFFICES ASSUME CoreInv, [Next]_vars PROVE CoreInv'
  OBVIOUS
<1>1. ASSUME NEW r \in Requests, BeginRequest(r) \/ RequestStep(r) \/ Fail(r) PROVE CoreInv'
  BY <1>1, BeginCore, UpsertCore, CommitCore, HandlerCore, FailCore DEF RequestStep
<1>2. ASSUME NEW t \in Tasks, LoadStep(t) PROVE CoreInv'
  BY <1>2, LoadCore
<1>3. CASE Restart
  BY <1>3, RestartCore
<1>4. CASE UNCHANGED vars
  BY <1>4 DEF vars, CoreInv, TypeOK, OneWriter, HistoryMatchesActive, At, NextVersion
<1> QED BY <1>1, <1>2, <1>3, <1>4 DEF Next

\* The types of all the variables, in every reachable state.
THEOREM TypesHold == Spec => []TypeOK
<1>1. CoreInv => TypeOK
  BY DEF CoreInv
<1> QED BY <1>1, CoreInit, CoreNext, PTL DEF Spec

\* No two transactions ever compute the same version number.
THEOREM OneWriterHolds == Spec => []OneWriter
<1>1. CoreInv => OneWriter
  BY DEF CoreInv
<1> QED BY <1>1, CoreInit, CoreNext, PTL DEF Spec

\* The history is numbered without gap or duplicate and ends in the active row.
THEOREM HistoryHolds == Spec => []HistoryMatchesActive
<1>1. CoreInv => HistoryMatchesActive
  BY DEF CoreInv
<1> QED BY <1>1, CoreInit, CoreNext, PTL DEF Spec

-----------------------------------------------------------------------------
(* The history only grows, and only by a commit.                           *)

\* Only a commit changes the active row and the history.
LEMMA OnlyCommitPublishes ==
  ASSUME Next, ~ \E r \in Requests : Commit(r)
  PROVE  UNCHANGED <<active, versions>>
BY DEF Next, BeginRequest, BeginSignup, BeginPublish, BeginRestore, Begin, RequestStep,
       Upsert, Invalidate, PurgeAutomations, CreateAutomation, Announce, Activate,
       Fail, LoadStep, StartLoad, Fetch, LoadFails, Fill, Restart, dbVars

\* A commit appends its own content under the next number.
LEMMA CommitAppends ==
  ASSUME CoreInv, NEW r \in Requests, Commit(r)
  PROVE  /\ versions \in Seq(Row)
         /\ versions' = Append(versions, [version |-> job[r].mine, content |-> job[r].draft])
         /\ job[r].mine = Len(versions) + 1
         /\ job[r].draft \in Contents
<1>1. /\ active \in Row \cup {NoRow} /\ job[r] \in Job
      /\ versions \in Seq(Row) /\ job[r].mine = NextVersion
  BY DEF CoreInv, TypeOK, Commit, OneWriter
<1>2. active.version = Len(versions)
  BY <1>1, NoRowNotRow DEF CoreInv, HistoryMatchesActive, NoRow, Row, Version
<1> QED BY <1>1, <1>2 DEF Commit, NextVersion, Job

\* No step changes or removes a version.
LEMMA HistoryGrows ==
  ASSUME CoreInv, [Next]_vars
  PROVE  \A i \in DOMAIN versions : i \in DOMAIN versions' /\ versions'[i] = versions[i]
<1>1. CASE UNCHANGED versions
  BY <1>1
<1>2. ASSUME NEW r \in Requests, Commit(r)
      PROVE  \A i \in DOMAIN versions : i \in DOMAIN versions' /\ versions'[i] = versions[i]
  <2> DEFINE row == [version |-> job[r].mine, content |-> job[r].draft]
  <2>1. row \in Row /\ versions \in Seq(Row) /\ versions' = Append(versions, row)
    <3>1. /\ versions \in Seq(Row) /\ job[r].mine = Len(versions) + 1
          /\ job[r].draft \in Contents /\ versions' = Append(versions, row)
      BY <1>2, CommitAppends
    <3>2. Len(versions) \in Nat
      BY <3>1, LenProperties
    <3> QED BY <3>1, <3>2 DEF Row, Version
  <2> HIDE DEF row
  <2> QED BY <2>1
<1> QED BY <1>1, <1>2, OnlyCommitPublishes DEF vars

\* The detailed specification implements the append-only log: a commit appends
\* the content of its draft, and every other step leaves the log as it is.
THEOREM HistoryRefines == Spec => HistoryIsAppendOnly
<1>1. Init => History!Init
  BY DEF Init, History!Init, Published
<1>2. CoreInv /\ [Next]_vars => [History!Next]_Published
  <2> SUFFICES ASSUME CoreInv, [Next]_vars
               PROVE  [History!Next]_Published
    OBVIOUS
  <2>1. CASE UNCHANGED versions
    BY <2>1 DEF Published
  <2>2. ASSUME NEW r \in Requests, Commit(r) PROVE History!Publish
    <3>1. /\ versions \in Seq(Row) /\ job[r].draft \in Contents
          /\ versions' = Append(versions, [version |-> job[r].mine, content |-> job[r].draft])
      BY <2>2, CommitAppends
    <3>2. Published = [i \in 1..Len(versions) |-> versions[i].content]
      BY <3>1 DEF Published
    <3>3. \A i \in 1..Len(versions) : versions[i].content \in Contents
      <4> SUFFICES ASSUME NEW i \in 1..Len(versions) PROVE versions[i].content \in Contents
        OBVIOUS
      <4>1. versions[i] \in Row
        BY <3>1, ElementOfSeq
      <4> QED BY <4>1 DEF Row
    <3>4. Published \in Seq(Contents) /\ Len(Published) = Len(versions)
      BY <3>1, <3>2, <3>3
    <3>5. Published' = [i \in 1..Len(versions) + 1 |-> versions'[i].content]
      BY <3>1 DEF Published
    <3>6. Published' = Append(Published, job[r].draft)
      BY <3>1, <3>2, <3>4, <3>5
    <3> QED BY <3>1, <3>6 DEF History!Publish
  <2> QED BY <2>1, <2>2, OnlyCommitPublishes DEF History!Next, vars
<1> QED BY <1>1, <1>2, CoreInit, CoreNext, PTL DEF Spec, HistoryIsAppendOnly, History!Spec

-----------------------------------------------------------------------------
(* What a job carries from its first step to its last.                     *)

\* In one step a job stays as it is, ends, begins, or moves on by a step of its
\* own request that keeps its kind, its draft and its source.
LEMMA JobStep ==
  ASSUME CoreInv, [Next]_vars, NEW q \in Requests
  PROVE  \/ job'[q] = job[q]
         \/ job'[q] = IdleJob
         \/ BeginRequest(q)
         \/ /\ RequestStep(q)
            /\ job[q].stage # "idle"
            /\ job'[q].kind = job[q].kind
            /\ job'[q].draft = job[q].draft
            /\ job'[q].source = job[q].source
<1> DEFINE Moved(r) == /\ RequestStep(r)
                       /\ job[r].stage # "idle"
                       /\ job'[r].kind = job[r].kind
                       /\ job'[r].draft = job[r].draft
                       /\ job'[r].source = job[r].source
           Goal == job'[q] = job[q] \/ job'[q] = IdleJob \/ BeginRequest(q) \/ Moved(q)
<1>1. TypeOK /\ job \in [Requests -> Job]
  BY DEF CoreInv, TypeOK
<1>2. ASSUME NEW r \in Requests, RequestStep(r)
      PROVE  /\ job'[r] = IdleJob \/ Moved(r)
             /\ q # r => job'[q] = job[q]
  <2>1. CASE Upsert(r)
    <3>1. job' = [job EXCEPT ![r] = [job[r] EXCEPT !.stage = "tx", !.mine = NextVersion]]
      BY <2>1 DEF Upsert
    <3>2. job[r] \in Job /\ job'[r] = [job[r] EXCEPT !.stage = "tx", !.mine = NextVersion]
      BY <3>1, <1>1
    <3> QED BY <1>1, <1>2, <2>1, <3>1, <3>2 DEF Upsert, At, Job
  <2>2. CASE ~Upsert(r)
    <3>1. Finish(r) \/ \E s \in Stages : Goto(r, s)
      BY <1>2, <2>2 DEF RequestStep, Commit, Invalidate, PurgeAutomations,
                        CreateAutomation, Announce, Activate, Stages
    <3>2. job[r].stage # "idle"
      BY <1>2, <2>2 DEF RequestStep, Commit, Invalidate, PurgeAutomations,
                        CreateAutomation, Announce, Activate, At
    <3>3. CASE Finish(r)
      BY <3>3, <1>1, FinishJob
    <3>4. ASSUME NEW s \in Stages, Goto(r, s)
          PROVE  Moved(r) /\ (q # r => job'[q] = job[q])
      BY <3>4, <3>2, <1>1, <1>2, GotoJob
    <3> QED BY <3>1, <3>3, <3>4
  <2> QED BY <2>1, <2>2
<1>3. ASSUME NEW r \in Requests, BeginRequest(r) PROVE Goal
  BY <1>1, <1>3 DEF BeginRequest, BeginSignup, BeginPublish, BeginRestore, Begin
<1>4. ASSUME NEW r \in Requests, Fail(r) PROVE Goal
  BY <1>1, <1>4, FinishJob DEF Fail
<1>5. CASE Restart
  BY <1>5 DEF Restart
<1>6. CASE UNCHANGED job
  BY <1>6
<1>7. ASSUME NEW t \in Tasks, LoadStep(t) PROVE UNCHANGED job
  BY <1>7 DEF LoadStep, StartLoad, Fetch, LoadFails, Fill
<1> QED BY <1>2, <1>3, <1>4, <1>5, <1>6, <1>7 DEF Next, vars

\* A restore stays faithful: its source is in the history, which only grows.
LEMMA RestoreNext == CoreInv /\ RestoreFaithful /\ [Next]_vars => RestoreFaithful'
<1> SUFFICES ASSUME CoreInv, RestoreFaithful, [Next]_vars, NEW q \in Requests,
                    job'[q].kind = "restore", job'[q].stage # "idle"
             PROVE  /\ job'[q].source \in DOMAIN versions'
                    /\ job'[q].draft = versions'[job'[q].source].content
  BY DEF RestoreFaithful, At
<1>1. CASE \/ job'[q] = job[q]
           \/ /\ RequestStep(q)
              /\ job[q].stage # "idle"
              /\ job'[q].kind = job[q].kind
              /\ job'[q].draft = job[q].draft
              /\ job'[q].source = job[q].source
  <2>1. /\ job[q].kind = "restore" /\ job[q].stage # "idle"
        /\ job'[q].draft = job[q].draft /\ job'[q].source = job[q].source
    BY <1>1
  <2>2. /\ job[q].source \in DOMAIN versions
        /\ job[q].draft = versions[job[q].source].content
    BY <2>1 DEF RestoreFaithful, At
  <2> QED BY <2>1, <2>2, HistoryGrows
<1>2. CASE BeginRequest(q)
  <2>1. PICK k \in Kinds, c \in Contents, n \in Nat :
           /\ Begin(q, k, c, n)
           /\ k = "restore" => n \in DOMAIN versions /\ c = versions[n].content
    <3>1. CASE BeginSignup(q)
      BY <3>1 DEF BeginSignup, Kinds, Contents
    <3>2. CASE BeginPublish(q)
      BY <3>2 DEF BeginPublish, Kinds, Contents
    <3>3. CASE BeginRestore(q)
      <4>1. PICK i \in DOMAIN versions :
               Begin(q, "restore", Validated(versions[i].content), versions[i].version)
        BY <3>3 DEF BeginRestore
      <4>2. versions[i] \in Row /\ versions[i].version = i
        BY DEF CoreInv, TypeOK, HistoryMatchesActive
      <4>3. versions[i].content \in Contents /\ Validated(versions[i].content) = versions[i].content
        BY <4>2, ContentsAgain DEF Row
      <4> QED BY <4>1, <4>2, <4>3 DEF Row, Version, Kinds
    <3> QED BY <1>2, <3>1, <3>2, <3>3 DEF BeginRequest
  <2>2. job'[q] = [stage |-> "upsert", kind |-> k, draft |-> c, source |-> n, mine |-> 0]
    BY <2>1 DEF Begin, CoreInv, TypeOK
  <2>3. k = "restore" /\ UNCHANGED versions
    BY <2>1, <2>2 DEF Begin
  <2> QED BY <2>1, <2>2, <2>3
<1>3. CASE job'[q] = IdleJob
  BY <1>3 DEF IdleJob
<1> QED BY <1>1, <1>2, <1>3, JobStep

\* A restore in flight republishes the content of the version it was asked for.
THEOREM RestoreHolds == Spec => []RestoreFaithful
<1>1. Init => RestoreFaithful
  BY DEF Init, RestoreFaithful, At, IdleJob
<1> QED BY <1>1, CoreInit, CoreNext, RestoreNext, PTL DEF Spec

-----------------------------------------------------------------------------
(* After its commit a job names a version of the history: this is what the *)
(* automation, the event and the activation it leaves behind rest on.      *)

AfterCommit == {"invalidate", "purge", "create", "announce", "activate"}

CommittedJobs ==
    \A r \in Requests :
        job[r].stage \in AfterCommit => /\ job[r].mine \in DOMAIN versions
                                        /\ job[r].draft = versions[job[r].mine].content

CreatingJobs == \A r \in Requests : At(r, "create") => job[r].draft \in AlertContents

ActivatingJobs ==
    \A r \in Requests :
        At(r, "activate") => [kind |-> "publish", version |-> job[r].mine] \in events

\* A job that has committed stands still, or has just committed, or goes on.
LEMMA JobAfterCommit ==
  ASSUME CoreInv, [Next]_vars, NEW q \in Requests, job'[q].stage \in AfterCommit
  PROVE  \/ Commit(q)
         \/ /\ job[q].stage \in AfterCommit
            /\ job'[q].draft = job[q].draft
            /\ job'[q].mine = job[q].mine
            /\ job'[q].kind = job[q].kind
            /\ \/ job'[q] = job[q]
               \/ Invalidate(q) \/ PurgeAutomations(q) \/ CreateAutomation(q) \/ Announce(q)
<1>1. job \in [Requests -> Job] /\ TypeOK
  BY DEF CoreInv, TypeOK
<1>2. CASE job'[q] = job[q]
  BY <1>2
<1>3. CASE job'[q] = IdleJob
  BY <1>3 DEF IdleJob, AfterCommit
<1>4. CASE BeginRequest(q)
  <2>1. job'[q].stage = "upsert"
    BY <1>1, <1>4 DEF BeginRequest, BeginSignup, BeginPublish, BeginRestore, Begin
  <2> QED BY <2>1 DEF AfterCommit
<1>5. CASE RequestStep(q)
  <2>1. CASE Upsert(q)
    <3>1. job[q] \in Job /\ job'[q] = [job[q] EXCEPT !.stage = "tx", !.mine = NextVersion]
      BY <2>1, <1>1 DEF Upsert
    <3>2. job'[q].stage = "tx"
      BY <3>1 DEF Job
    <3> QED BY <3>2 DEF AfterCommit
  <2>2. CASE Commit(q)
    BY <2>2
  <2>3. CASE Invalidate(q) \/ PurgeAutomations(q) \/ CreateAutomation(q) \/ Announce(q)
    <3>1. job[q].stage \in AfterCommit
      BY <2>3 DEF Invalidate, PurgeAutomations, CreateAutomation, Announce, At, AfterCommit
    <3>2. Finish(q) \/ \E s \in Stages : Goto(q, s)
      BY <2>3 DEF Invalidate, PurgeAutomations, CreateAutomation, Announce, Stages
    <3>3. CASE Finish(q)
      BY <3>3, <1>1, FinishJob DEF IdleJob, AfterCommit
    <3> QED BY <2>3, <3>1, <3>2, <3>3, <1>1, GotoJob
  <2>4. CASE Activate(q)
    BY <2>4, <1>1, FinishJob DEF Activate, IdleJob, AfterCommit
  <2> QED BY <1>5, <2>1, <2>2, <2>3, <2>4 DEF RequestStep
<1> QED BY <1>2, <1>3, <1>4, <1>5, JobStep

\* A request past its commit carries a version of the history, and keeps it.
LEMMA CommittedNext == CoreInv /\ CommittedJobs /\ [Next]_vars => CommittedJobs'
<1> SUFFICES ASSUME CoreInv, CommittedJobs, [Next]_vars, NEW q \in Requests,
                    job'[q].stage \in AfterCommit
             PROVE  /\ job'[q].mine \in DOMAIN versions'
                    /\ job'[q].draft = versions'[job'[q].mine].content
  BY DEF CommittedJobs
<1>1. CASE Commit(q)
  <2>1. /\ versions \in Seq(Row) /\ job[q].mine = Len(versions) + 1
        /\ versions' = Append(versions, [version |-> job[q].mine, content |-> job[q].draft])
    BY <1>1, CommitAppends
  <2>2. job'[q].mine = job[q].mine /\ job'[q].draft = job[q].draft
    <3>1. TypeOK /\ "invalidate" \in Stages
      BY DEF CoreInv, Stages
    <3>2. CASE Finish(q)
      BY <3>1, <3>2, FinishJob DEF IdleJob, AfterCommit
    <3>3. CASE Goto(q, "invalidate")
      BY <3>1, <3>3, GotoJob
    <3> QED BY <1>1, <3>2, <3>3 DEF Commit
  <2>3. DOMAIN versions' = 1..(Len(versions) + 1) /\ Len(versions) \in Nat
    BY <2>1, LenProperties
  <2>4. versions'[Len(versions) + 1] = [version |-> job[q].mine, content |-> job[q].draft]
    BY <2>1
  <2> QED BY <2>1, <2>2, <2>3, <2>4
<1>2. CASE ~Commit(q)
  <2>1. /\ job[q].stage \in AfterCommit /\ job'[q].draft = job[q].draft
        /\ job'[q].mine = job[q].mine
    BY <1>2, JobAfterCommit
  <2> QED BY <2>1, HistoryGrows DEF CommittedJobs
<1> QED BY <1>1, <1>2

\* No request is past its commit at first.
LEMMA CommittedInit == Init => CommittedJobs
BY DEF Init, CommittedJobs, IdleJob, AfterCommit

\* Every fill carries a row read from the committed one.
CommittedServed ==
    /\ \A k \in CacheKeys :
          cache[k] # NoRow => \E i \in DOMAIN versions : cache[k] = versions[i]
    /\ \A t \in Tasks :
          load[t].stage = "fill" => \E i \in DOMAIN versions : load[t].row = versions[i]

LEMMA CommittedServedNext ==
  CoreInv /\ CommittedServed /\ [Next]_vars => CommittedServed'
<1> SUFFICES ASSUME CoreInv, CommittedServed, [Next]_vars PROVE CommittedServed'
  OBVIOUS
<1> DEFINE Committed(row) == \E i \in DOMAIN versions : row = versions[i]
<1>1. \A row : Committed(row) => \E i \in DOMAIN versions' : row = versions'[i]
  BY HistoryGrows
<1>2. active = NoRow \/ Committed(active)
  <2>1. versions \in Seq(Row)
    BY DEF CoreInv, TypeOK
  <2> QED BY <2>1 DEF CoreInv, HistoryMatchesActive
<1>3. \A k \in CacheKeys : cache'[k] # NoRow => Committed(cache'[k])
  <2> SUFFICES ASSUME NEW k \in CacheKeys, cache'[k] # NoRow PROVE Committed(cache'[k])
    OBVIOUS
  <2>1. CASE cache'[k] = cache[k]
    BY <2>1 DEF CommittedServed
  <2>2. ASSUME NEW t \in Tasks, Fill(t) PROVE Committed(cache'[k])
    BY <2>2 DEF Fill, CommittedServed, CoreInv, TypeOK
  <2>3. cache'[k] = cache[k] \/ \E t \in Tasks : Fill(t)
    BY DEF Next, vars, BeginRequest, BeginSignup, BeginPublish, BeginRestore, Begin,
           RequestStep, Upsert, Commit, Invalidate, PurgeAutomations, CreateAutomation,
           Announce, Activate, Fail, LoadStep, StartLoad, Fetch, LoadFails, Restart,
           CoreInv, TypeOK
  <2> QED BY <2>1, <2>2, <2>3
<1>4. \A t \in Tasks : load'[t].stage = "fill" => Committed(load'[t].row)
  <2> SUFFICES ASSUME NEW t \in Tasks, load'[t].stage = "fill" PROVE Committed(load'[t].row)
    OBVIOUS
  <2>1. CASE load'[t] = load[t]
    BY <2>1 DEF CommittedServed
  <2>2. CASE Fetch(t)
    BY <2>2, <1>2 DEF Fetch, CoreInv, TypeOK, IdleLoad
  <2>3. load'[t] = load[t] \/ load'[t].stage # "fill" \/ Fetch(t)
    <3>1. load \in [Tasks -> Load]
      BY DEF CoreInv, TypeOK
    <3>2. ASSUME NEW u \in Tasks, LoadStep(u) PROVE <2>3
      <4>1. CASE StartLoad(u)
        <5>1. load' = [load EXCEPT ![u] = [load[u] EXCEPT !.stage = "fetch"]]
          BY <4>1 DEF StartLoad
        <5>2. load'[u].stage = "fetch"
          BY <5>1, <3>1 DEF Load
        <5> QED BY <5>1, <5>2, <3>1
      <4>2. CASE Fetch(u) \/ LoadFails(u) \/ Fill(u)
        BY <4>2, <3>1 DEF Fetch, LoadFails, Fill, IdleLoad
      <4> QED BY <3>2, <4>1, <4>2 DEF LoadStep
    <3>3. CASE Restart
      BY <3>3 DEF Restart, IdleLoad
    <3>4. CASE UNCHANGED load
      BY <3>4
    <3>5. ASSUME NEW r \in Requests, BeginRequest(r) \/ RequestStep(r) \/ Fail(r)
          PROVE  UNCHANGED load
      BY <3>5 DEF BeginRequest, BeginSignup, BeginPublish, BeginRestore, Begin,
                  RequestStep, Upsert, Commit, Invalidate, PurgeAutomations,
                  CreateAutomation, Announce, Activate, Fail
    <3> QED BY <3>2, <3>3, <3>4, <3>5 DEF Next, vars
  <2> QED BY <2>1, <2>2, <2>3
<1> QED BY <1>1, <1>3, <1>4 DEF CommittedServed

\* The steps that touch the cache or its history.
LEMMA PastStep ==
  ASSUME [Next]_vars
  PROVE  \/ \E r \in Requests : Invalidate(r)
         \/ \E t \in Tasks : Fill(t)
         \/ Restart
         \/ /\ UNCHANGED <<cache, past>>
            /\ load' = load \/ \E t \in Tasks : StartLoad(t) \/ Fetch(t) \/ LoadFails(t)
BY DEF Next, vars, BeginRequest, BeginSignup, BeginPublish, BeginRestore, Begin, RequestStep,
       Upsert, Commit, PurgeAutomations, CreateAutomation, Announce, Activate,
       Fail, LoadStep, StartLoad, Fetch, LoadFails, sideVars

\* What was dropped was committed.
DroppedCommitted == past.dropped <= Len(versions)

LEMMA DroppedNext ==
  CoreInv /\ CommittedJobs /\ DroppedCommitted /\ [Next]_vars => DroppedCommitted'
<1> SUFFICES ASSUME CoreInv, CommittedJobs, DroppedCommitted, [Next]_vars PROVE DroppedCommitted'
  OBVIOUS
<1>1. /\ versions \in Seq(Row) /\ versions' \in Seq(Row) /\ past \in Past /\ past.dropped \in Nat
  BY CoreNext DEF CoreInv, TypeOK, Past
<1>2. PICK n \in Nat : n = Len(versions) /\ DOMAIN versions = 1 .. n
  BY <1>1, LenProperties
<1>3. PICK m \in Nat : m = Len(versions') /\ DOMAIN versions' = 1 .. m
  BY <1>1, LenProperties
<1>4. n <= m
  <2>1. DOMAIN versions \subseteq DOMAIN versions'
    BY HistoryGrows
  <2>2. n = 0 \/ n \in 1 .. n
    BY <1>2
  <2> QED
    BY <1>2, <1>3, <2>1, <2>2
<1>5. past'.dropped <= n
  <2>1. ASSUME NEW r \in Requests, Invalidate(r) PROVE past'.dropped <= n
    <3>1. job[r].mine \in 1 .. n
      BY <1>2, <2>1 DEF Invalidate, At, CommittedJobs, AfterCommit
    <3>2. past'.dropped = IF job[r].mine > past.dropped THEN job[r].mine ELSE past.dropped
      BY <2>1 DEF Invalidate, Overtake
    <3> QED
      BY <1>2, <3>1, <3>2 DEF DroppedCommitted
  <2>2. ASSUME NEW t \in Tasks, Fill(t) PROVE past'.dropped = past.dropped
    BY <1>1, <2>2 DEF Fill, Filled, Past
  <2>3. CASE Restart
    <3>1. past'.dropped = past.dropped
      BY <1>1, <2>3 DEF Restart, Past
    <3> QED
      BY <1>2, <3>1 DEF DroppedCommitted
  <2> QED
    BY <1>2, <2>1, <2>2, <2>3, PastStep DEF DroppedCommitted
<1>6. past'.dropped \in Nat
  BY CoreNext DEF CoreInv, TypeOK, Past
<1> QED
  BY <1>3, <1>4, <1>5, <1>6 DEF DroppedCommitted

\* Who reads after an invalidation reads what was committed before it.
NoneOlder ==
    /\ cache["uuid"] # NoRow /\ ~past.tainted => cache["uuid"].version >= past.dropped
    /\ \A t \in Tasks :
          load[t].stage = "fill" /\ Key(t) = "uuid" /\ t \notin past.overtaken =>
             load[t].row.version >= past.dropped

LEMMA NoneOlderNext ==
  CoreInv /\ DroppedCommitted /\ NoneOlder /\ [Next]_vars => NoneOlder'
<1> SUFFICES ASSUME CoreInv, DroppedCommitted, NoneOlder, [Next]_vars PROVE NoneOlder'
  OBVIOUS
<1>1. /\ past \in Past /\ past.dropped \in Nat /\ load \in [Tasks -> Load]
      /\ cache \in [CacheKeys -> Row \cup {NoRow}] /\ "uuid" \in CacheKeys
  BY DEF CoreInv, TypeOK, Past, CacheKeys
<1>2. ASSUME NEW r \in Requests, Invalidate(r) PROVE NoneOlder'
  <2>1. cache'["uuid"] = NoRow /\ load' = load
    BY <1>1, <1>2 DEF Invalidate
  <2>2. past'.overtaken = {t \in Tasks : /\ Key(t) = "uuid" /\ load[t].stage = "fill"
                                         /\ load[t].row.version < past'.dropped}
    BY <1>2 DEF Invalidate, Overtake
  <2>3. past'.dropped \in Nat
    BY CoreNext DEF CoreInv, TypeOK, Past
  <2>4. ASSUME NEW t \in Tasks PROVE load[t].row.version \in Nat
    <3>1. load[t].row \in Row \cup {NoRow}
      BY <1>1 DEF Load
    <3>2. CASE load[t].row \in Row
      BY <3>2 DEF Row, Version
    <3>3. CASE load[t].row = NoRow
      BY <3>3 DEF NoRow
    <3> QED
      BY <3>1, <3>2, <3>3
  <2>5. ASSUME NEW t \in Tasks, load[t].stage = "fill", Key(t) = "uuid", t \notin past'.overtaken
        PROVE  load[t].row.version >= past'.dropped
    BY <2>2, <2>3, <2>4, <2>5
  <2> QED
    BY <2>1, <2>5 DEF NoneOlder, Key
<1>3. ASSUME NEW u \in Tasks, Fill(u) PROVE NoneOlder'
  <2>1. /\ load[u].stage = "fill" /\ cache' = [cache EXCEPT ![Key(u)] = load[u].row]
        /\ load' = [load EXCEPT ![u] = IdleLoad]
    BY <1>3 DEF Fill
  <2>2. /\ past'.dropped = past.dropped /\ past'.overtaken = past.overtaken \ {u}
        /\ past'.tainted = IF Key(u) = "uuid" THEN u \in past.overtaken ELSE past.tainted
    BY <1>1, <1>3 DEF Fill, Filled, Past
  <2>3. ASSUME NEW t \in Tasks, load'[t].stage = "fill", Key(t) = "uuid", t \notin past'.overtaken
        PROVE  load'[t].row.version >= past'.dropped
    <3>1. t # u
      BY <1>1, <2>1, <2>3 DEF IdleLoad
    <3> QED
      BY <1>1, <2>1, <2>2, <2>3, <3>1 DEF NoneOlder
  <2>4. ASSUME cache'["uuid"] # NoRow, ~past'.tainted PROVE cache'["uuid"].version >= past'.dropped
    <3>1. CASE Key(u) = "uuid"
      <4>1. cache'["uuid"] = load[u].row /\ u \notin past.overtaken
        BY <1>1, <2>1, <2>2, <2>4, <3>1
      <4> QED
        BY <2>1, <2>2, <3>1, <4>1 DEF NoneOlder
    <3>2. CASE Key(u) # "uuid"
      <4>1. cache'["uuid"] = cache["uuid"] /\ ~past.tainted
        BY <1>1, <2>1, <2>2, <2>4, <3>2
      <4> QED
        BY <2>2, <2>4, <4>1 DEF NoneOlder
    <3> QED
      BY <3>1, <3>2
  <2> QED
    BY <2>3, <2>4 DEF NoneOlder, Key
<1>4. CASE Restart
  BY <1>1, <1>4 DEF Restart, NoneOlder, IdleLoad
<1>5. CASE UNCHANGED <<cache, past>> /\ load' = load
  BY <1>5 DEF NoneOlder, Key
<1>6. ASSUME NEW u \in Tasks, StartLoad(u) \/ Fetch(u) \/ LoadFails(u), UNCHANGED <<cache, past>>
      PROVE  NoneOlder'
  <2>1. ASSUME NEW t \in Tasks, load'[t].stage = "fill", Key(t) = "uuid", t \notin past'.overtaken
        PROVE  load'[t].row.version >= past'.dropped
    <3>1. CASE t # u
      <4>1. load'[t] = load[t]
        BY <1>1, <1>6, <3>1 DEF StartLoad, Fetch, LoadFails
      <4> QED
        BY <1>6, <2>1, <4>1 DEF NoneOlder
    <3>2. CASE t = u
      <4>1. load[u] \in Load
        BY <1>1
      <4>2. ~StartLoad(u)
        <5> SUFFICES ASSUME StartLoad(u) PROVE FALSE
          OBVIOUS
        <5>1. load' = [load EXCEPT ![u] = [load[u] EXCEPT !.stage = "fetch"]]
          BY DEF StartLoad
        <5>2. load'[u].stage = "fetch"
          BY <1>1, <4>1, <5>1 DEF Load
        <5> QED
          BY <2>1, <3>2, <5>2
      <4>3. ~LoadFails(u)
        BY <1>1, <2>1, <3>2 DEF LoadFails, IdleLoad
      <4>4. Fetch(u) /\ active # NoRow /\ load'[u].row = active
        BY <1>1, <1>6, <2>1, <3>2, <4>2, <4>3 DEF Fetch, IdleLoad
      <4>5. PICK n \in Nat : n = Len(versions) /\ DOMAIN versions = 1 .. n
        BY LenProperties DEF CoreInv, TypeOK
      <4>6. versions # <<>> /\ active = versions[n]
        BY <4>4, <4>5 DEF CoreInv, HistoryMatchesActive
      <4>7. n \in DOMAIN versions
        BY <4>5, <4>6, EmptySeq DEF CoreInv, TypeOK
      <4>8. active.version = n
        BY <4>6, <4>7 DEF CoreInv, HistoryMatchesActive
      <4> QED
        BY <1>1, <1>6, <3>2, <4>4, <4>5, <4>8 DEF DroppedCommitted
    <3> QED
      BY <3>1, <3>2
  <2> QED
    BY <1>6, <2>1 DEF NoneOlder, Key
<1> QED
  BY <1>2, <1>3, <1>4, <1>5, <1>6, PastStep

\* Neither the cache nor a fill on its way to it holds an uncommitted Blueprint,
\* and what is older than a dropped one is from a load that was overtaken.
THEOREM CacheHolds == Spec => []CacheServesPublished
<1> DEFINE IInv == CoreInv /\ CommittedJobs /\ DroppedCommitted /\ NoneOlder /\ CommittedServed
<1>1. Init => IInv
  <2>1. Init => DroppedCommitted
    BY DEF Init, DroppedCommitted
  <2>2. Init => NoneOlder
    BY DEF Init, NoneOlder, IdleLoad, CacheKeys
  <2>3. Init => CommittedServed
    BY DEF Init, CommittedServed, IdleLoad
  <2> QED
    BY <2>1, <2>2, <2>3, CoreInit, CommittedInit
<1>2. IInv /\ [Next]_vars => IInv'
  BY CoreNext, CommittedNext, DroppedNext, NoneOlderNext, CommittedServedNext
<1>3. IInv => CacheServesPublished
  BY DEF NoneOlder, CommittedServed, CacheServesPublished
<1> QED
  BY <1>1, <1>2, <1>3, PTL DEF Spec

\* The steps that touch the events and the status row.
LEMMA OnlyAnnounce ==
  ASSUME [Next]_vars, ~ \E r \in Requests : Announce(r) \/ Activate(r)
  PROVE  UNCHANGED <<events, status>>
BY DEF Next, vars, BeginRequest, BeginSignup, BeginPublish, BeginRestore, Begin, RequestStep,
       Upsert, Commit, Invalidate, PurgeAutomations, CreateAutomation,
       Fail, LoadStep, StartLoad, Fetch, LoadFails, Fill, Restart, sideVars

\* An activation follows the event its own request stored.
LEMMA ActivationNext ==
  CoreInv /\ CommittedJobs /\ ActivatingJobs /\ ActivationFollowsEvent /\ [Next]_vars
    => ActivatingJobs' /\ ActivationFollowsEvent'
<1> SUFFICES ASSUME CoreInv, CommittedJobs, ActivatingJobs, ActivationFollowsEvent, [Next]_vars
             PROVE  ActivatingJobs' /\ ActivationFollowsEvent'
  OBVIOUS
<1>1. events \subseteq events' /\ \A e \in events' : e.version \in DOMAIN versions'
  <2>1. CASE UNCHANGED events
    BY <2>1, HistoryGrows DEF ActivationFollowsEvent
  <2>2. ASSUME NEW r \in Requests, Announce(r) PROVE <1>1
    <3>1. job[r].mine \in DOMAIN versions
      BY <2>2 DEF Announce, At, CommittedJobs, AfterCommit
    <3>2. events' = events \cup {[kind |-> job[r].kind, version |-> job[r].mine]}
      BY <2>2 DEF Announce
    <3> QED BY <3>1, <3>2, HistoryGrows DEF ActivationFollowsEvent
  <2>3. ASSUME NEW r \in Requests, Activate(r) PROVE UNCHANGED events
    BY <2>3 DEF Activate
  <2> QED BY <2>1, <2>2, <2>3, OnlyAnnounce
<1>2. status'.on => [kind |-> "publish", version |-> status'.version] \in events'
  <2>1. CASE UNCHANGED status
    BY <2>1, <1>1 DEF ActivationFollowsEvent
  <2>2. ASSUME NEW r \in Requests, Activate(r) PROVE <1>2
    BY <2>2, <1>1 DEF Activate, ActivatingJobs
  <2>3. ASSUME NEW r \in Requests, Announce(r) PROVE UNCHANGED status
    BY <2>3 DEF Announce
  <2> QED BY <2>1, <2>2, <2>3, OnlyAnnounce
<1>3. ActivatingJobs'
  <2> SUFFICES ASSUME NEW q \in Requests, job'[q].stage = "activate"
               PROVE  [kind |-> "publish", version |-> job'[q].mine] \in events'
    BY DEF ActivatingJobs, At
  <2>1. TypeOK /\ Stages = Stages \cup {"invalidate", "purge", "create", "announce", "activate"}
    BY DEF CoreInv, Stages
  <2>2. ~Commit(q)
    <3>1. ASSUME Commit(q) PROVE job'[q].stage # "activate"
      <4>1. CASE Finish(q)
        BY <2>1, <4>1, FinishJob DEF IdleJob
      <4>2. CASE Goto(q, "invalidate")
        BY <2>1, <4>2, GotoJob
      <4> QED BY <3>1, <4>1, <4>2 DEF Commit
    <3> QED BY <3>1
  <2>3. /\ job'[q].mine = job[q].mine
        /\ \/ job'[q] = job[q]
           \/ Invalidate(q) \/ PurgeAutomations(q) \/ CreateAutomation(q) \/ Announce(q)
    BY <2>2, JobAfterCommit DEF AfterCommit
  <2>4. CASE job'[q] = job[q]
    BY <2>4, <1>1 DEF ActivatingJobs, At
  <2>5. CASE Announce(q)
    <3>1. job[q].kind = "publish"
      BY <2>5, <2>1, FinishJob DEF Announce, IdleJob
    <3> QED BY <2>3, <2>5, <3>1 DEF Announce
  <2>6. CASE Invalidate(q) \/ PurgeAutomations(q) \/ CreateAutomation(q)
    <3>1. \E s \in Stages \ {"activate"} : Goto(q, s)
      BY <2>6 DEF Invalidate, PurgeAutomations, CreateAutomation, Stages
    <3> QED BY <3>1, <2>1, GotoJob
  <2> QED BY <2>3, <2>4, <2>5, <2>6
<1> QED BY <1>1, <1>2, <1>3 DEF ActivationFollowsEvent

\* An active Engine names a version that was announced, and so committed.
THEOREM ActivationHolds == Spec => []ActivationFollowsEvent
<1>1. Init => ActivatingJobs /\ ActivationFollowsEvent
  BY DEF Init, ActivatingJobs, ActivationFollowsEvent, At, IdleJob
<1> QED BY <1>1, CoreInit, CoreNext, CommittedInit, CommittedNext, ActivationNext, PTL DEF Spec

-----------------------------------------------------------------------------
(* Blueprint automations: each request may still add one, unless a purge   *)
(* came in between.                                                        *)

\* Only the two statements of the sync change the automations.
LEMMA OnlySyncTouches ==
  ASSUME [Next]_vars, ~ \E r \in Requests : PurgeAutomations(r) \/ CreateAutomation(r)
  PROVE  UNCHANGED automations
BY DEF Next, vars, BeginRequest, BeginSignup, BeginPublish, BeginRestore, Begin, RequestStep,
       Upsert, Commit, Invalidate, Announce, Activate,
       Fail, LoadStep, StartLoad, Fetch, LoadFails, Fill, Restart, sideVars

\* A job reaches the insert only by its own purge.
LEMMA CreatingStep ==
  ASSUME CoreInv, [Next]_vars, NEW q \in Requests, At(q, "create")'
  PROVE  \/ At(q, "create") /\ ~CreateAutomation(q) /\ job'[q].draft = job[q].draft
         \/ PurgeAutomations(q) /\ job'[q].draft \in AlertContents
<1>1. TypeOK /\ job'[q].stage = "create"
  BY DEF CoreInv, At
<1>2. ~Commit(q)
  <2>1. ASSUME Commit(q) PROVE job'[q].stage # "create"
    <3>1. CASE Finish(q)
      BY <1>1, <3>1, FinishJob DEF IdleJob
    <3>2. CASE Goto(q, "invalidate")
      <4>1. "invalidate" \in Stages
        BY DEF Stages
      <4> QED BY <1>1, <3>2, <4>1, GotoJob
    <3> QED BY <2>1, <3>1, <3>2 DEF Commit
  <2> QED BY <1>1, <2>1
<1>3. /\ job'[q].draft = job[q].draft
      /\ \/ job'[q] = job[q]
         \/ Invalidate(q) \/ PurgeAutomations(q) \/ CreateAutomation(q) \/ Announce(q)
  BY <1>1, <1>2, JobAfterCommit DEF AfterCommit
<1>4. ASSUME Invalidate(q) \/ CreateAutomation(q) \/ Announce(q) PROVE FALSE
  <2>1. Finish(q) \/ \E s \in Stages \ {"create"} : Goto(q, s)
    BY <1>4 DEF Invalidate, CreateAutomation, Announce, Stages
  <2> QED BY <1>1, <2>1, GotoJob, FinishJob DEF IdleJob
<1>5. CASE PurgeAutomations(q)
  <2>1. CASE job[q].draft \in AlertContents
    BY <1>3, <1>5, <2>1
  <2>2. CASE job[q].draft \notin AlertContents
    <3>1. Goto(q, "announce") /\ "announce" \in Stages
      BY <1>5, <2>2 DEF PurgeAutomations, Stages
    <3> QED BY <1>1, <3>1, GotoJob
  <2> QED BY <2>1, <2>2
<1> QED BY <1>1, <1>3, <1>4, <1>5 DEF At

\* A request about to create an automation has a content that asks for one.
LEMMA CreatingNext == CoreInv /\ CreatingJobs /\ [Next]_vars => CreatingJobs'
<1> SUFFICES ASSUME CoreInv, CreatingJobs, [Next]_vars, NEW q \in Requests, At(q, "create")'
             PROVE  job'[q].draft \in AlertContents
  BY DEF CreatingJobs
<1> QED BY CreatingStep DEF CreatingJobs

\* A creation turns one request that was about to create into one automation.
LEMMA DuplicatesNext ==
  CoreInv /\ CommittedJobs /\ CreatingJobs /\ DuplicatesBounded /\ [Next]_vars
    => DuplicatesBounded'
<1> SUFFICES ASSUME CoreInv, CommittedJobs, CreatingJobs, DuplicatesBounded, [Next]_vars
             PROVE  DuplicatesBounded'
  OBVIOUS
<1> DEFINE Sourced(a) == a \in AlertContents /\ \E j \in DOMAIN versions : a = versions[j].content
           Bound(as, cs) == Len(as) + Cardinality(cs) <= Cardinality(Requests)
<1>1. /\ IsFiniteSet(Requests) /\ Cardinality(Requests) \in Nat
      /\ \A S \in SUBSET Requests : IsFiniteSet(S) /\ Cardinality(S) \in Nat
                                    /\ Cardinality(S) <= Cardinality(Requests)
  BY TasksAssumption, FS_Subset, FS_CardinalityType
<1>2. Creating \subseteq Requests /\ Creating' \subseteq Requests
  BY DEF Creating
<1>3. automations \in Seq(Contents) /\ Len(automations) \in Nat
  BY LenProperties DEF CoreInv, TypeOK
<1>4. /\ Bound(automations, Creating)
      /\ \A i \in DOMAIN automations : Sourced(automations[i])
  BY DEF DuplicatesBounded
<1>5. Bound(automations', Creating') /\ \A i \in DOMAIN automations' : Sourced(automations'[i])
  <2>1. ASSUME NEW r \in Requests, PurgeAutomations(r) PROVE <1>5
    <3>1. automations' = <<>>
      BY <2>1 DEF PurgeAutomations
    <3>2. Cardinality(Creating') <= Cardinality(Requests) /\ Cardinality(Creating') \in Nat
      BY <1>1, <1>2
    <3> QED BY <1>1, <3>1, <3>2
  <2>2. ASSUME NEW r \in Requests, CreateAutomation(r) PROVE <1>5
    <3>1. automations' = Append(automations, job[r].draft)
      BY <2>2 DEF CreateAutomation
    <3>2. r \in Creating
      BY <2>2 DEF CreateAutomation, Creating
    <3>3. Creating' \subseteq Creating \ {r}
      <4> SUFFICES ASSUME NEW q \in Requests, At(q, "create")'
                   PROVE  At(q, "create") /\ q # r
        BY DEF Creating
      <4>1. ~PurgeAutomations(q)
        <5>1. ASSUME PurgeAutomations(q) PROVE FALSE
          <6>1. automations' = <<>>
            BY <5>1 DEF PurgeAutomations
          <6>2. Len(automations') = Len(automations) + 1
            BY <1>3, <3>1
          <6> QED BY <6>1, <6>2, <1>3
        <5> QED BY <5>1
      <4> QED BY <2>2, <4>1, CreatingStep
    <3>4. Cardinality(Creating \ {r}) = Cardinality(Creating) - 1
      BY <1>1, <1>2, <3>2, FS_RemoveElement
    <3>5. /\ Cardinality(Creating') <= Cardinality(Creating \ {r})
          /\ Cardinality(Creating') \in Nat /\ Cardinality(Creating) \in Nat
      BY <1>1, <1>2, <3>3, FS_Subset
    <3>6. Len(automations') = Len(automations) + 1
      BY <1>3, <3>1
    <3>7. Bound(automations', Creating')
      BY <1>1, <1>3, <1>4, <3>4, <3>5, <3>6
    <3>8. Sourced(job[r].draft)
      BY <2>2, <3>2 DEF CreatingJobs, CommittedJobs, Creating, AfterCommit, At
    <3>9. \A i \in DOMAIN automations' : Sourced(automations'[i])
      <4> HIDE DEF Sourced
      <4> QED BY <1>3, <1>4, <3>1, <3>8
    <3> QED BY <3>7, <3>9
  <2>3. ASSUME ~ \E r \in Requests : PurgeAutomations(r) \/ CreateAutomation(r) PROVE <1>5
    <3>1. UNCHANGED automations
      BY <2>3, OnlySyncTouches
    <3>2. Creating' \subseteq Creating
      BY <2>3, CreatingStep DEF Creating
    <3>3. /\ Cardinality(Creating') <= Cardinality(Creating)
          /\ Cardinality(Creating') \in Nat /\ Cardinality(Creating) \in Nat
      BY <1>1, <1>2, <3>2, FS_Subset
    <3> QED BY <1>1, <1>3, <1>4, <3>1, <3>3
  <2> QED BY <2>1, <2>2, <2>3
<1> QED BY <1>5, HistoryGrows DEF DuplicatesBounded

\* However many requests publish at once, the Blueprint automations they leave
\* behind are at most as many, each for a content that was really published.
THEOREM DuplicatesHold == Spec => []DuplicatesBounded
<1>1. Init => CreatingJobs /\ DuplicatesBounded
  <2> SUFFICES ASSUME Init PROVE CreatingJobs /\ DuplicatesBounded
    OBVIOUS
  <2>1. Creating = {} /\ automations = <<>>
    BY DEF Init, Creating, At, IdleJob
  <2>2. Cardinality({}) = 0 /\ Cardinality(Requests) \in Nat
    BY FS_EmptySet, FS_CardinalityType, TasksAssumption
  <2>3. DuplicatesBounded
    BY <2>1, <2>2 DEF DuplicatesBounded
  <2>4. CreatingJobs
    BY <2>1 DEF CreatingJobs, Creating
  <2> QED BY <2>3, <2>4
<1> QED BY <1>1, CoreInit, CoreNext, CommittedInit, CommittedNext, CreatingNext,
           DuplicatesNext, PTL DEF Spec

=============================================================================

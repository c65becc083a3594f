---------------------------- MODULE GatheringProofs ----------------------------
(***************************************************************************)
(* What is proved of Gathering for any company, hosts, jobs and requests:  *)
(* that a report rests on rows this very cycle read (FindingsBacked), and  *)
(* that Test Connection predicts what a Compile reads (TestPredictsCycle). *)
(*                                                                         *)
(* Both rest on one inductive invariant, Inv: a request's record is Proper *)
(* at every stage.  Of a Compile, what was read is in the order of the     *)
(* names, each of them once, and nothing unreachable has rows; if nothing  *)
(* was deployed since the request began, what was previewed or read is     *)
(* what the host that is there now would answer.                           *)
(***************************************************************************)
EXTENDS Gathering, FiniteSetTheorems, SequenceTheorems, WellFoundedInduction, TLAPS

-----------------------------------------------------------------------------
(* Sets of numbers and sequences.                                          *)

\* Of a family of subsets that is not empty, one has none of the others within it.
Innermost(A, T) == A \in T /\ \A B \in T : B \subseteq A => B = A

\* A finite set has such a subset in every family of its subsets.
LEMMA Smallest ==
    ASSUME NEW S, NEW T, IsFiniteSet(S), T \subseteq SUBSET S, T # {}
    PROVE  \E A \in T : Innermost(A, T)
<1>1. T \subseteq FiniteSubsetsOf(S)
  BY FS_Subset DEF FiniteSubsetsOf
<1>2. PICK A \in T : \A B \in T : ~ (<<B, A>> \in StrictSubsetOrdering(S))
  BY <1>1, FS_StrictSubsetOrderingWellFounded, WFMin
<1> QED
  BY <1>1, <1>2 DEF StrictSubsetOrdering, FiniteSubsetsOf, Innermost

\* Numbers that are not none have a greatest.
LEMMA Greatest ==
    ASSUME NEW n \in Nat, NEW S \in SUBSET (1 .. n), S # {}
    PROVE  Max(S) \in S
<1> DEFINE Above(x) == {y \in S : y > x}
<1>0. PICK T : T = {Above(x) : x \in S}
  OBVIOUS
<1>1. T \subseteq SUBSET S /\ T # {}
  BY <1>0
<1>2. PICK A \in T : Innermost(A, T)
  <2>1. IsFiniteSet(S)
    <3>1. IsFiniteSet(1 .. n)
      BY FS_Interval
    <3> QED
      BY <3>1, FS_Subset
  <2> QED
    BY <1>1, <2>1, Smallest
<1>3. PICK x \in S : A = Above(x)
  BY <1>0, <1>2
<1>4. \A y \in S : x >= y
  <2> SUFFICES ASSUME NEW y \in S, y > x PROVE FALSE
    OBVIOUS
  <2>1. S \subseteq Int
    OBVIOUS
  <2>2. Above(y) \subseteq Above(x)
    <3> SUFFICES ASSUME NEW z \in S, z > y PROVE z > x
      OBVIOUS
    <3> QED
      BY <2>1
  <2>3. y \in Above(x) /\ y \notin Above(y)
    BY <2>1
  <2>4. Above(y) \in T
    BY <1>0
  <2> QED
    BY <1>2, <1>3, <2>2, <2>3, <2>4 DEF Innermost
<1> QED
  BY <1>4 DEF Max

\* What sequences are made of.
LEMMA Lists ==
    ASSUME NEW s, IsList(s)
    PROVE  Len(s) \in Nat /\ DOMAIN s = 1 .. Len(s) /\ (s # <<>> <=> Len(s) # 0)
BY LenProperties, EmptySeq DEF IsList

\* A function on 1 .. n is a list.
LEMMA FunctionLists ==
    ASSUME NEW n \in Nat, NEW s, s = [i \in 1 .. n |-> s[i]]
    PROVE  IsList(s) /\ Len(s) = n
<1>1. DOMAIN s = 1 .. n
  BY Zenon
<1>2. s \in Seq({s[i] : i \in DOMAIN s})
  BY <1>1
<1> QED
  BY <1>1, <1>2, LenProperties DEF IsList

\* The empty list.
LEMMA Nothing == IsList(<<>>) /\ Len(<<>>) = 0 /\ DOMAIN <<>> = {}
BY EmptySeq, LenProperties DEF IsList

\* What Append does.
LEMMA Appending ==
    ASSUME NEW s, IsList(s), NEW e
    PROVE  /\ IsList(Append(s, e)) /\ Len(Append(s, e)) = Len(s) + 1
           /\ DOMAIN Append(s, e) = 1 .. Len(s) + 1
           /\ \A i \in DOMAIN s : Append(s, e)[i] = s[i]
           /\ Append(s, e)[Len(s) + 1] = e
<1> DEFINE S == {s[i] : i \in DOMAIN s} \cup {e}
<1>1. s \in Seq(S)
  BY SeqMonotonic DEF IsList
<1>2. Len(s) \in Nat /\ DOMAIN s = 1 .. Len(s)
  BY Lists
<1> HIDE DEF S
<1>3. e \in S
  BY DEF S
<1>4. /\ Append(s, e) \in Seq(S) /\ Len(Append(s, e)) = Len(s) + 1
      /\ \A i \in 1 .. Len(s) : Append(s, e)[i] = s[i]
      /\ Append(s, e)[Len(s) + 1] = e
  BY <1>1, <1>3, AppendProperties
<1>5. DOMAIN Append(s, e) = 1 .. Len(s) + 1
  BY <1>4, LenProperties
<1>6. Append(s, e) = [i \in 1 .. Len(s) + 1 |-> Append(s, e)[i]]
  BY <1>4, LenProperties
<1>7. IsList(Append(s, e))
  BY <1>2, <1>6, FunctionLists
<1> QED
  BY <1>2, <1>4, <1>5, <1>7

\* A list cut off at some length.
LEMMA Cut ==
    ASSUME NEW s, IsList(s), NEW n \in Nat
    PROVE  /\ IsList(Prefix(s, n)) /\ Len(Prefix(s, n)) <= Len(s)
           /\ DOMAIN Prefix(s, n) = 1 .. Len(Prefix(s, n))
           /\ \A i \in DOMAIN Prefix(s, n) : Prefix(s, n)[i] = s[i]
           /\ Len(s) <= n => Prefix(s, n) = s
           /\ s # <<>> /\ n # 0 => Prefix(s, n) # <<>>
<1>1. PICK l \in Nat : l = Len(s) /\ DOMAIN s = 1 .. l
  BY Lists
<1>2. PICK m \in Nat : m = Min({n, l}) /\ m <= l /\ (m = n \/ m = l) /\ m <= n
  BY DEF Min
<1>3. Prefix(s, n) = SubSeq(s, 1, m)
  BY <1>1, <1>2 DEF Prefix
<1>4. SubSeq(s, 1, m) = [i \in 1 .. m |-> s[i]]
  BY <1>1, <1>2 DEF SubSeq
<1>5. PICK p : p = Prefix(s, n)
  OBVIOUS
<1>6. p = [i \in 1 .. m |-> p[i]] /\ DOMAIN p = 1 .. m /\ \A i \in 1 .. m : p[i] = s[i]
  BY <1>3, <1>4, <1>5
<1>7. IsList(p) /\ Len(p) = m
  BY <1>6, FunctionLists
<1>8. Len(s) <= n => p = s
  <2> SUFFICES ASSUME l <= n PROVE p = s
    BY <1>1
  <2>1. m = l
    BY <1>2
  <2>2. s = [i \in 1 .. l |-> s[i]]
    BY <1>1, LenProperties DEF IsList
  <2> QED
    BY <1>6, <2>1, <2>2
<1>9. s # <<>> /\ n # 0 => p # <<>>
  BY <1>1, <1>2, <1>7, Lists
<1> QED
  BY <1>1, <1>2, <1>5, <1>6, <1>7, <1>8, <1>9


-----------------------------------------------------------------------------
(* What a host answers.                                                    *)

\* An answer with rows.
Good(answer) == Fine(answer) /\ answer.body # Null /\ answer.body.ok
Seen(host, entity, limit, token) == Good(Serve(host, entity, limit, token))

\* Nothing at all and a refusal are no fine answers, a reply with status 200 is.
LEMMA Statuses ==
    /\ ~Fine(Unreachable) /\ ~Fine(Silent)
    /\ \A status \in {401, 500} : ~Fine(Refusal(status))
    /\ \A body : Fine(Reply(200, body)) /\ Reply(200, body).body = body
BY DEF Fine, Unreachable, Silent, Refusal, Reply

\* What is read of a host is rows and no list of entities.
LEMMA RowsOnly ==
    ASSUME NEW file, NEW data, NEW entity, NEW limit, NEW answer,
           answer = ReadAnswer(file, data, entity, limit), Fine(answer), answer.body # Null
    PROVE  answer.body.entities = <<>> /\ answer.body.ok
<1> DEFINE rows == IF entity \in DOMAIN file.map THEN Rows(file.database, data, file.map[entity], limit) ELSE Null
<1>1. rows # Null
  BY Statuses DEF ReadAnswer
<1>2. ASSUME FieldsOf(rows) \cap file.breaks # {} PROVE FALSE
  <2>1. answer = Reply(200, Null)
    BY <1>1, <1>2 DEF ReadAnswer
  <2> QED
    BY <2>1, Statuses
<1>3. answer = Reply(200, Object(TRUE, <<>>, rows))
  BY <1>1, <1>2 DEF ReadAnswer
<1> QED
  BY <1>3 DEF Reply, Object

\* The legacy names are four.
LEMMA Legacy == IsList(LegacyEntities) /\ IsInjective(LegacyEntities) /\ LegacyEntities # <<>>
<1>1. Len(LegacyEntities) = 4 /\ DOMAIN LegacyEntities = 1 .. 4
  BY DEF LegacyEntities
<1>2. LegacyEntities \in Seq({LegacyEntities[i] : i \in DOMAIN LegacyEntities})
  BY DEF LegacyEntities
<1>3. IsInjective(LegacyEntities)
  BY DEF LegacyEntities, IsInjective
<1> QED
  BY <1>1, <1>2, <1>3, Lists DEF IsList

\* The entities to read are a list, each of them once, and never none.
LEMMA NamesOnce ==
    ASSUME NEW host \in Hosts \cup {Null}, NEW token,
           NEW answer \in {Serve(host, "_health", 5, token), Unreachable, Silent}
    PROVE  /\ IsList(EntityNames(answer)) /\ IsInjective(EntityNames(answer))
           /\ EntityNames(answer) # <<>>
<1>1. ASSUME Discovered(answer)
      PROVE  IsList(answer.body.entities) /\ IsInjective(answer.body.entities) /\ answer.body.entities # <<>>
  <2>1. Fine(answer) /\ answer.body # Null /\ answer.body.object /\ answer.body.entities # <<>>
    BY <1>1 DEF Discovered
  <2>2. answer = Serve(host, "_health", 5, token) /\ answer # Unreachable
    BY <2>1, Statuses
  <2>3. host \in Hosts /\ host # Null
    BY <2>2, GatheringAssumption DEF Serve
  <2>4. host.kind # "list"
    <3> SUFFICES ASSUME host.kind = "list" PROVE FALSE
      OBVIOUS
    <3>1. answer = Reply(200, [object |-> FALSE])
      BY <2>2, <2>3 DEF Serve
    <3> QED
      BY <2>1, <3>1, Statuses
  <2>5. host.file.starts
    <3> SUFFICES ASSUME ~host.file.starts PROVE FALSE
      OBVIOUS
    <3>1. answer = host.file.page
      BY <2>2, <2>3, <2>4 DEF Serve
    <3> QED
      BY <2>1, <2>3, <2>4, <3>1, HostsAssumption
  <2>6. answer = Answer(host, "_health", 5, token)
    BY <2>2, <2>3, <2>4, <2>5 DEF Serve
  <2>7. Authorised(host, token)
    <3> SUFFICES ASSUME ~Authorised(host, token) PROVE FALSE
      OBVIOUS
    <3>1. answer = Refusal(401)
      BY <2>6 DEF Answer
    <3> QED
      BY <2>1, <3>1, Statuses
  <2>8. CASE host.kind = "generated"
    <3>1. answer = Reply(200, Object(TRUE, host.file.entities, <<>>))
      BY <2>6, <2>7, <2>8 DEF Answer
    <3>2. answer.body.entities = host.file.entities
      BY <3>1 DEF Reply, Object
    <3> QED
      BY <2>1, <2>3, <2>8, <3>2, HostsAssumption
  <2>9. CASE host.kind # "generated"
    <3>1. answer = ReadAnswer(host.file, host.data, "_health", 5)
      BY <2>6, <2>7, <2>9 DEF Answer
    <3>2. answer.body.entities = <<>>
      BY <2>1, <3>1, RowsOnly
    <3> QED
      BY <2>1, <3>2
  <2> QED
    BY <2>8, <2>9
<1>2. PICK all : all = IF Discovered(answer) THEN answer.body.entities ELSE LegacyEntities
  OBVIOUS
<1>3. IsList(all) /\ IsInjective(all) /\ all # <<>>
  BY <1>1, <1>2, Legacy
<1>4. EntityNames(answer) = Prefix(all, MaxEntities)
  BY <1>2 DEF EntityNames
<1>5. /\ IsList(Prefix(all, MaxEntities)) /\ Prefix(all, MaxEntities) # <<>>
      /\ DOMAIN Prefix(all, MaxEntities) \subseteq DOMAIN all
      /\ \A i \in DOMAIN Prefix(all, MaxEntities) : Prefix(all, MaxEntities)[i] = all[i]
  <2>1. MaxEntities \in Nat /\ MaxEntities # 0
    BY LimitsAssumption
  <2>2. DOMAIN all = 1 .. Len(all) /\ Len(all) \in Nat
    BY <1>3, Lists
  <2>3. PICK p : p = Prefix(all, MaxEntities)
    OBVIOUS
  <2>4. /\ IsList(p) /\ Len(p) <= Len(all) /\ DOMAIN p = 1 .. Len(p) /\ p # <<>>
        /\ \A i \in DOMAIN p : p[i] = all[i]
    BY <1>3, <2>1, <2>3, Cut
  <2>5. Len(p) \in Nat
    BY <2>4, Lists
  <2>6. DOMAIN p \subseteq DOMAIN all
    BY <2>2, <2>4, <2>5
  <2> QED
    BY <2>3, <2>4, <2>6
<1>6. IsInjective(Prefix(all, MaxEntities))
  BY <1>3, <1>5 DEF IsInjective
<1> QED
  BY <1>4, <1>5, <1>6

\* A generated host that gave an answer with rows runs and asks for no token.
LEMMA Running ==
    ASSUME NEW host \in Hosts, host.kind = "generated", NEW entity, NEW limit,
           Seen(host, entity, limit, Null)
    PROVE  /\ Authorised(host, Null)
           /\ \A e, n : Serve(host, e, n, Null) = Answer(host, e, n, Null)
<1>1. host # Null /\ host.kind # "list"
  BY GatheringAssumption
<1>2. host.file.starts
  <2> SUFFICES ASSUME ~host.file.starts PROVE FALSE
    OBVIOUS
  <2>1. Serve(host, entity, limit, Null) = host.file.page
    BY <1>1 DEF Serve
  <2> QED
    BY <1>1, <2>1, HostsAssumption DEF Seen, Good
<1>3. \A e, n : Serve(host, e, n, Null) = Answer(host, e, n, Null)
  BY <1>1, <1>2 DEF Serve
<1>4. Authorised(host, Null)
  <2> SUFFICES ASSUME ~Authorised(host, Null) PROVE FALSE
    OBVIOUS
  <2>1. Serve(host, entity, limit, Null) = Refusal(401)
    BY <1>3 DEF Answer
  <2> QED
    BY <2>1, Statuses DEF Seen, Good
<1> QED
  BY <1>3, <1>4

\* Whether a table has rows to read does not depend on how many are asked for.
LEMMA RowsAtAnyLimit ==
    ASSUME NEW host \in Hosts, host.kind = "generated", NEW database, NEW table,
           Rows(database, host.data, table, SampleRows) # Null
    PROVE  /\ Rows(database, host.data, table, ReadLimit) # Null
           /\ Object(TRUE, <<>>, Rows(database, host.data, table, ReadLimit)) # Null
<1>1. host.data # Null
  BY DEF Rows
<1>2. CASE table \in DOMAIN host.data
  <2>1. Rows(database, host.data, table, ReadLimit) = Prefix(host.data[table], ReadLimit)
    BY <1>1, <1>2 DEF Rows, MongoRows, SqlRows
  <2> QED
    BY <1>1, <1>2, <2>1, AnswersAssumption
<1>3. CASE table \notin DOMAIN host.data
  <2>1. database = "mongodb"
    BY <1>1, <1>3 DEF Rows, SqlRows
  <2>2. /\ Rows(database, host.data, table, SampleRows) = <<>>
        /\ Rows(database, host.data, table, ReadLimit) = <<>>
    BY <1>1, <1>3, <2>1 DEF Rows, MongoRows
  <2> QED
    BY <2>2, AnswersAssumption
<1> QED
  BY <1>2, <1>3

\* What a tester saw of an entity by its sample, the engine will read, and the
\* entity is among those the file knows.
LEMMA Predicted ==
    ASSUME NEW host \in Hosts, host.kind = "generated", host.file.breaks = {},
           NEW entity, entity # "_health", Seen(host, entity, SampleRows, Null)
    PROVE  entity \in DOMAIN host.file.map /\ Seen(host, entity, ReadLimit, Null)
<1> DEFINE rows(limit) == IF entity \in DOMAIN host.file.map
                          THEN Rows(host.file.database, host.data, host.file.map[entity], limit) ELSE Null
<1>1. \A limit : Serve(host, entity, limit, Null) = ReadAnswer(host.file, host.data, entity, limit)
  BY Running DEF Answer
<1>2. rows(SampleRows) # Null
  <2> SUFFICES ASSUME rows(SampleRows) = Null PROVE FALSE
    OBVIOUS
  <2>1. Serve(host, entity, SampleRows, Null) = Refusal(500)
    BY <1>1 DEF ReadAnswer
  <2> QED
    BY <2>1, Statuses DEF Seen, Good
<1>3. entity \in DOMAIN host.file.map
  BY <1>2
<1>4. rows(ReadLimit) # Null /\ Object(TRUE, <<>>, rows(ReadLimit)) # Null
  BY <1>2, <1>3, RowsAtAnyLimit
<1>5. PICK object : object = Object(TRUE, <<>>, rows(ReadLimit))
  OBVIOUS
<1>6. Serve(host, entity, ReadLimit, Null) = Reply(200, object)
  <2>1. ~(FieldsOf(rows(ReadLimit)) \cap host.file.breaks # {})
    OBVIOUS
  <2> QED
    BY <1>1, <1>4, <1>5, <2>1 DEF ReadAnswer
<1>7. object.ok /\ object # Null
  BY <1>4, <1>5 DEF Object
<1>8. Good(Reply(200, object))
  BY <1>7, Statuses DEF Good
<1> QED
  BY <1>3, <1>6, <1>8 DEF Seen

\* A file with no more entities than are read is asked for all of them.
LEMMA AllNamed ==
    ASSUME NEW host \in Hosts, host.kind = "generated", NEW entity \in DOMAIN host.file.map, NEW limit,
           Seen(host, entity, limit, Null), Cardinality(DOMAIN host.file.map) <= MaxEntities
    PROVE  \E k \in DOMAIN EntityNames(Serve(host, "_health", 5, Null)) :
              EntityNames(Serve(host, "_health", 5, Null))[k] = entity
<1>1. PICK names : names = host.file.entities
  OBVIOUS
<1>2. /\ IsList(names) /\ IsInjective(names) /\ Range(names) = DOMAIN host.file.map
      /\ Object(TRUE, names, <<>>) # Null
  BY <1>1, HostsAssumption, AnswersAssumption
<1>3. PICK n \in Nat : n = Len(names) /\ DOMAIN names = 1 .. n
  BY <1>2, Lists
<1>4. PICK k \in 1 .. n : names[k] = entity
  BY <1>2, <1>3 DEF Range
<1>5. n <= MaxEntities
  <2>1. names \in Bijection(1 .. n, DOMAIN host.file.map)
    <3>1. names \in [1 .. n -> DOMAIN host.file.map]
      <4>1. names \in Seq({names[i] : i \in DOMAIN names})
        BY <1>2 DEF IsList
      <4>2. \A i \in 1 .. n : names[i] \in DOMAIN host.file.map
        BY <1>2, <1>3 DEF Range
      <4>3. names = [i \in 1 .. n |-> names[i]]
        BY <1>3, <4>1, LenProperties
      <4> QED
        BY <4>2, <4>3
    <3>2. \A t \in DOMAIN host.file.map : \E i \in 1 .. n : names[i] = t
      BY <1>2, <1>3 DEF Range
    <3>3. \A i, j \in 1 .. n : names[i] = names[j] => i = j
      BY <1>2, <1>3 DEF IsInjective
    <3> QED
      BY <3>1, <3>2, <3>3 DEF Bijection, Injection, Surjection, IsInjective
  <2>2. IsFiniteSet(1 .. n) /\ Cardinality(1 .. n) = n
    BY FS_Interval
  <2>3. Cardinality(DOMAIN host.file.map) = n
    <3>1. PICK map : map = DOMAIN host.file.map
      OBVIOUS
    <3>2. Cardinality(map) = Cardinality(1 .. n)
      BY <2>1, <2>2, <3>1, FS_Bijection DEF ExistsBijection
    <3> QED
      BY <2>2, <3>1, <3>2
  <2> QED
    BY <2>3
<1>6. names # <<>>
  BY <1>2, <1>3, <1>4, Lists
<1>7. PICK object : object = Object(TRUE, names, <<>>)
  OBVIOUS
<1>8. EntityNames(Serve(host, "_health", 5, Null)) = Prefix(names, MaxEntities)
  <2>1. Authorised(host, Null) /\ Serve(host, "_health", 5, Null) = Answer(host, "_health", 5, Null)
    BY Running
  <2>2. Serve(host, "_health", 5, Null) = Reply(200, object)
    BY <1>1, <1>7, <2>1 DEF Answer
  <2>3. object.object /\ object.entities = names /\ object # Null
    BY <1>2, <1>7 DEF Object
  <2>4. Fine(Reply(200, object)) /\ Reply(200, object).body = object
    BY Statuses
  <2>5. Discovered(Reply(200, object))
    BY <1>6, <2>3, <2>4 DEF Discovered
  <2> QED
    BY <2>2, <2>3, <2>4, <2>5 DEF EntityNames
<1>9. Prefix(names, MaxEntities) = names
  BY <1>2, <1>3, <1>5, LimitsAssumption, Cut
<1> QED
  BY <1>3, <1>4, <1>8, <1>9

-----------------------------------------------------------------------------
(* What a cycle concludes.                                                  *)

\* What was read so far of some names: each once, in their order, and of what
\* could not be read no row.
Reading(names, read) ==
    /\ IsList(names) /\ IsInjective(names) /\ IsList(read) /\ Len(read) <= Len(names)
    /\ \A i \in DOMAIN read : /\ read[i].entity = names[i]
                              /\ ~read[i].reachable => read[i].rows = <<>>

\* No entity is read twice.
LEMMA OncePerEntity ==
    ASSUME NEW names, NEW read, Reading(names, read)
    PROVE  \A i, j \in DOMAIN read : read[i].entity = read[j].entity => i = j
<1>1. DOMAIN read \subseteq DOMAIN names
  <2>1. PICK m \in Nat : m = Len(names) /\ DOMAIN names = 1 .. m
    BY Lists DEF Reading
  <2>2. PICK n \in Nat : n = Len(read) /\ DOMAIN read = 1 .. n
    BY Lists DEF Reading
  <2> QED
    BY <2>1, <2>2 DEF Reading
<1> QED
  BY <1>1 DEF Reading, IsInjective

\* A link joins two entities with rows, and not one to itself.
LEMMA LinksBacked ==
    ASSUME NEW names, NEW read, Reading(names, read), NEW l \in Relationships(read)
    PROVE  \E i, j \in {k \in DOMAIN read : read[k].rows # <<>>} :
              l.from = read[i].entity /\ l.to = read[j].entity /\ l.from # l.to
<1> DEFINE full      == {i \in DOMAIN read : read[i].rows # <<>>}
           Sharing(s) == {j \in full : Singular(read[j].entity) = s}
           Target(f) == LET named == Sharing(Singular(Refers(f)))
                            exact == Sharing(Refers(f))
                        IN  IF named # {} THEN Max(named) ELSE IF exact # {} THEN Max(exact) ELSE 0
           links == {<<i, f>> : i \in full, f \in UNION {FieldsOf(Prefix(read[k].rows, 5)) : k \in full}}
           kept == {m \in links : /\ m[2] \in FieldsOf(Prefix(read[m[1]].rows, 5))
                                 /\ Refers(m[2]) # Null
                                 /\ Target(m[2]) \notin {0, m[1]}}
<1>0. Relationships(read) = {[from |-> read[m[1]].entity, field |-> m[2], to |-> read[Target(m[2])].entity] :
                               m \in kept}
  BY DEF Relationships
<1>1. PICK i \in full : \E f : /\ Target(f) \notin {0, i}
                             /\ l = [from |-> read[i].entity, field |-> f, to |-> read[Target(f)].entity]
  <2> HIDE DEF Target, full, links
  <2>1. PICK m \in links : /\ Target(m[2]) \notin {0, m[1]}
                          /\ l = [from |-> read[m[1]].entity, field |-> m[2], to |-> read[Target(m[2])].entity]
    BY <1>0
  <2>2. PICK i \in full, f \in UNION {FieldsOf(Prefix(read[k].rows, 5)) : k \in full} : m = <<i, f>>
    BY DEF links
  <2> QED
    BY <2>1, <2>2
<1>2. PICK n \in Nat : full \in SUBSET (1 .. n)
  BY Lists DEF Reading
<1>3. ASSUME NEW s, Sharing(s) # {} PROVE Max(Sharing(s)) \in full
  <2>1. Sharing(s) \in SUBSET (1 .. n)
    BY <1>2
  <2>2. Max(Sharing(s)) \in Sharing(s)
    BY <1>2, <1>3, <2>1, Greatest
  <2> QED
    BY <2>2
<1>4. PICK f : /\ Target(f) \notin {0, i}
             /\ l = [from |-> read[i].entity, field |-> f, to |-> read[Target(f)].entity]
  BY <1>1
<1>5. PICK j : j = Target(f) /\ j \in full /\ j # i
  BY <1>3, <1>4
<1>6. read[i].entity # read[j].entity
  BY <1>5, OncePerEntity
<1> QED
  <2> HIDE DEF Target, full
  <2> QED
    BY <1>4, <1>5, <1>6 DEF full

\* What FindingsBacked says of one result.
Backed(result) ==
    LET Full == {result.entities[i].entity : i \in {j \in DOMAIN result.entities :
                                                      result.entities[j].rows # <<>>}}
        Lost == {result.entities[i].entity : i \in {j \in DOMAIN result.entities :
                                                      ~result.entities[j].reachable}}
    IN  /\ \A f \in result.findings : f.about \subseteq Full
        /\ \A l \in result.relationships : {l.from, l.to} \subseteq Full /\ l.from # l.to
        /\ result.partial \cup Section(result).missing \subseteq Lost
        /\ Section(result).tables \cap Section(result).missing = {}
        /\ result.findings # {} => Summary(result) = "live"

\* What follows from a reading rests on it.
LEMMA GatheredBacked ==
    ASSUME NEW names, NEW read, Reading(names, read), NEW discovered
    PROVE  Backed(Gathered(read, discovered))
<1> DEFINE full == {i \in DOMAIN read : read[i].rows # <<>>}
           Full == {read[i].entity : i \in full}
           Lost == {read[i].entity : i \in {j \in DOMAIN read : ~read[j].reachable}}
           Live == {read[i].entity : i \in {j \in DOMAIN read : read[j].reachable}}
<1>1. PICK result : result = Gathered(read, discovered)
  OBVIOUS
<1>2. /\ result.entities = read /\ result.relationships = Relationships(read)
      /\ result.connected = (\E i \in DOMAIN read : read[i].reachable)
      /\ result.findings = Linked(Relationships(read)) \cup UNION {EntityFinding(read[i]) : i \in DOMAIN read}
      /\ result.partial = Partial(read)
  BY <1>1 DEF Gathered
<1>3. \A l \in Relationships(read) : {l.from, l.to} \subseteq Full /\ l.from # l.to
  BY LinksBacked
<1>4. \A i \in DOMAIN read : \A f \in EntityFinding(read[i]) : f.about = {read[i].entity} /\ i \in full
  BY DEF EntityFinding
<1>5. \A f \in Linked(Relationships(read)) : /\ f.about = {l.from : l \in Relationships(read)}
                                             /\ Relationships(read) # {}
  BY DEF Linked
<1>6. \A f \in result.findings : f.about \subseteq Full /\ full # {}
  <2> SUFFICES ASSUME NEW f \in result.findings PROVE f.about \subseteq Full /\ full # {}
    OBVIOUS
  <2>1. f \in Linked(Relationships(read)) \/ \E i \in DOMAIN read : f \in EntityFinding(read[i])
    BY <1>2
  <2>2. CASE f \in Linked(Relationships(read))
    <3>1. PICK l \in Relationships(read) : {l.from, l.to} \subseteq Full
      BY <1>3, <1>5, <2>2
    <3>2. f.about \subseteq Full
      BY <1>3, <1>5, <2>2
    <3> QED
      BY <3>1, <3>2
  <2>3. CASE \E i \in DOMAIN read : f \in EntityFinding(read[i])
    <3>1. PICK i \in DOMAIN read : f \in EntityFinding(read[i])
      BY <2>3
    <3>2. f.about = {read[i].entity} /\ i \in full
      BY <1>4, <3>1
    <3> QED
      BY <3>2
  <2> QED
    BY <2>1, <2>2, <2>3
<1>7. result.findings # {} => full # {}
  BY <1>6
<1>8. result.findings # {} => result.connected
  BY <1>2, <1>7 DEF Reading
<1>9. Partial(read) \subseteq Lost
  BY DEF Partial
<1>10. Live \cap Lost = {}
  BY OncePerEntity
<1>11. Section(result).missing \subseteq Lost /\ Section(result).tables \subseteq Live
  BY <1>2 DEF Section
<1>12. result.findings # {} => Summary(result) = "live"
  BY <1>8 DEF Summary
<1> QED
  BY <1>1, <1>2, <1>3, <1>6, <1>9, <1>10, <1>11, <1>12 DEF Backed

\* What is returned without a call is what an empty reading amounts to, but for
\* the reason it gives; and none of what FindingsBacked says is about the reason.
Because(result, reason) == [result EXCEPT !.reason = reason]

LEMMA ReasonAside ==
    ASSUME NEW read, NEW discovered, NEW reason, NEW result,
           result = Because(Gathered(read, discovered), reason)
    PROVE  /\ result.entities = read /\ result.discovered = discovered
           /\ result = Because(Gathered(read, discovered), result.reason)
           /\ Backed(Gathered(read, discovered)) => Backed(result)
<1>1. PICK g : g = Gathered(read, discovered)
  OBVIOUS
<1>2. /\ result.entities = g.entities /\ result.relationships = g.relationships /\ result.reason = reason
      /\ result.findings = g.findings /\ result.partial = g.partial /\ result.connected = g.connected
      /\ result.discovered = g.discovered /\ g.entities = read /\ g.discovered = discovered
  BY <1>1 DEF Because, Gathered
<1>3. Section(result).missing = Section(g).missing /\ Section(result).tables = Section(g).tables
  BY <1>2 DEF Section
<1>4. Summary(result) = Summary(g)
  BY <1>2 DEF Summary
<1>5. Backed(g) => Backed(result)
  BY <1>2, <1>3, <1>4 DEF Backed
<1> QED
  BY <1>1, <1>2, <1>5

-----------------------------------------------------------------------------
(* The invariant.                                                           *)

\* Previews that the host confirms.
Foreseen(previews, host, token) ==
    \A i \in DOMAIN previews : previews[i].reachable => Seen(host, previews[i].entity, SampleRows, token)

\* The host's own names, and what it has of them was read.
Current(names, read, host) ==
    /\ names = EntityNames(Serve(host, "_health", 5, Null))
    /\ \A i \in DOMAIN read : Seen(host, names[i], ReadLimit, Null) => read[i].reachable

\* The record of a request has its fields.
Filled(r) == r = [stage |-> r.stage, job |-> r.job, since |-> r.since, lost |-> r.lost, names |-> r.names,
                  discovered |-> r.discovered, read |-> r.read, result |-> r.result]

TestProper(r) ==
    /\ r.stage = "health" => r.read = <<>>
    /\ r.stage = "open" => r.job.url # "valid"
    /\ r.stage = "preview" => /\ IsList(r.read)
                              /\ r.since = deploys => Foreseen(r.read, deployed, r.job.token)
    /\ r.stage \in {"publish", "done"} /\ r.job.url = "valid" /\ r.since = deploys =>
          Foreseen(r.result.previews, deployed, r.job.token)

CompileProper(r) ==
    /\ r.stage \in {"preferences", "discover", "read", "publish", "done", "refused", "failed"}
    /\ r.stage \in {"preferences", "discover"} => r.names = <<>> /\ r.read = <<>>
    /\ r.stage = "read" => /\ Reading(r.names, r.read) /\ Len(r.read) < Len(r.names)
                           /\ r.since = deploys /\ ~r.lost => Current(r.names, r.read, deployed)
    /\ r.stage \in {"publish", "done"} =>
          /\ r.result = Because(Gathered(r.result.entities, r.result.discovered), r.result.reason)
          /\ Reading(r.names, r.result.entities) /\ Len(r.result.entities) = Len(r.names)
          /\ r.since = deploys /\ ~r.lost /\ r.names # <<>> => Current(r.names, r.result.entities, deployed)

Proper(r) ==
    /\ Filled(r) /\ r.since \in Nat /\ r.since <= deploys
    /\ r.stage # "idle" => /\ r.job \in Jobs
                           /\ r.job.kind = "test" => TestProper(r)
                           /\ r.job.kind = "compile" => CompileProper(r)

Inv ==
    /\ deploys \in Nat /\ deployed \in Hosts \cup {Null}
    /\ req = [w \in Requests |-> req[w]]
    /\ \A w \in Requests : Proper(req[w])

\* What does not deploy leaves a proper record proper.
LEMMA Keeping ==
    ASSUME deploys' = deploys, deployed' = deployed, NEW r, Proper(r)
    PROVE  Proper(r)'
BY DEF Proper, TestProper, CompileProper

\* A request that puts down a proper record, and deploys nothing, keeps Inv.
LEMMA Acting ==
    ASSUME Inv, NEW w \in Requests, NEW r, Put(w, r), Proper(r), deploys' = deploys, deployed' = deployed
    PROVE  Inv'
<1>1. req' = [v \in Requests |-> IF v = w THEN r ELSE req[v]]
  BY DEF Put, Inv
<1>2. req' = [v \in Requests |-> req'[v]]
  BY <1>1
<1>3. \A v \in Requests : Proper(req[v])' 
  <2> SUFFICES ASSUME NEW v \in Requests PROVE Proper(req[v])'
    OBVIOUS
  <2>1. PICK s : s = req'[v]
    OBVIOUS
  <2>2. Proper(s)
    BY <1>1, <2>1 DEF Inv
  <2>3. Proper(s)'
    BY <2>2, Keeping
  <2> QED
    BY <2>1, <2>3
<1> QED
  BY <1>2, <1>3 DEF Inv

(* The updates of a request's record, as the actions write them.             *)

\* On another stage; at the end with a result; at the start.
Moved(r, stage) == [r EXCEPT !.stage = stage]
Ended(r, stage, result) == [r EXCEPT !.stage = stage, !.result = result]
Began(r, stage, job, since) == [r EXCEPT !.stage = stage, !.job = job, !.since = since]

\* With the names to read; with another preview; with another entity; after the last.
Told(r, stage, names, discovered, lost) ==
    [r EXCEPT !.stage = stage, !.names = names, !.discovered = discovered, !.lost = lost]
Previewed(r, read) == [r EXCEPT !.read = read]
Went(r, read, lost) == [r EXCEPT !.read = read, !.lost = lost]
Closed(r, stage, read, result) == [r EXCEPT !.stage = stage, !.read = read, !.result = result]

\* After each of them the record has the fields it was given, and the others it had.
LEMMA MovedFields ==
    ASSUME NEW r, Filled(r), NEW stage, NEW n, n = Moved(r, stage)
    PROVE  Filled(n) /\ n =
        [stage |-> stage, job |-> r.job, since |-> r.since, lost |-> r.lost, names |-> r.names,
         discovered |-> r.discovered, read |-> r.read, result |-> r.result]
BY DEF Filled, Moved

\* The same of Ended.
LEMMA EndedFields ==
    ASSUME NEW r, Filled(r), NEW stage, NEW result, NEW n, n = Ended(r, stage, result)
    PROVE  Filled(n) /\ n =
        [stage |-> stage, job |-> r.job, since |-> r.since, lost |-> r.lost, names |-> r.names,
         discovered |-> r.discovered, read |-> r.read, result |-> result]
<1>1. PICK n1 : n1 = [r EXCEPT !.stage = stage]
  OBVIOUS
<1>2. n1 =
        [stage |-> stage, job |-> r.job, since |-> r.since, lost |-> r.lost, names |-> r.names,
         discovered |-> r.discovered, read |-> r.read, result |-> r.result]
  BY <1>1 DEF Filled
<1>3. n = [n1 EXCEPT !.result = result]
  BY <1>1 DEF Ended
<1>4. n =
        [stage |-> stage, job |-> r.job, since |-> r.since, lost |-> r.lost, names |-> r.names,
         discovered |-> r.discovered, read |-> r.read, result |-> result]
  BY <1>3, <1>2
<1> QED
  BY <1>4 DEF Filled

\* The same of Began.
LEMMA BeganFields ==
    ASSUME NEW r, Filled(r), NEW stage, NEW job, NEW since, NEW n, n = Began(r, stage, job, since)
    PROVE  Filled(n) /\ n =
        [stage |-> stage, job |-> job, since |-> since, lost |-> r.lost, names |-> r.names,
         discovered |-> r.discovered, read |-> r.read, result |-> r.result]
<1>1. PICK n1 : n1 = [r EXCEPT !.stage = stage]
  OBVIOUS
<1>2. n1 =
        [stage |-> stage, job |-> r.job, since |-> r.since, lost |-> r.lost, names |-> r.names,
         discovered |-> r.discovered, read |-> r.read, result |-> r.result]
  BY <1>1 DEF Filled
<1>3. PICK n2 : n2 = [n1 EXCEPT !.job = job]
  OBVIOUS
<1>4. n2 =
        [stage |-> stage, job |-> job, since |-> r.since, lost |-> r.lost, names |-> r.names,
         discovered |-> r.discovered, read |-> r.read, result |-> r.result]
  BY <1>3, <1>2
<1>5. n = [n2 EXCEPT !.since = since]
  BY <1>1, <1>3 DEF Began
<1>6. n =
        [stage |-> stage, job |-> job, since |-> since, lost |-> r.lost, names |-> r.names,
         discovered |-> r.discovered, read |-> r.read, result |-> r.result]
  BY <1>5, <1>4
<1> QED
  BY <1>6 DEF Filled

\* The same of Told.
LEMMA ToldFields ==
    ASSUME NEW r, Filled(r), NEW stage, NEW names, NEW discovered, NEW lost, NEW n, n = Told(r, stage, names, discovered, lost)
    PROVE  Filled(n) /\ n =
        [stage |-> stage, job |-> r.job, since |-> r.since, lost |-> lost, names |-> names,
         discovered |-> discovered, read |-> r.read, result |-> r.result]
<1>1. PICK n1 : n1 = [r EXCEPT !.stage = stage]
  OBVIOUS
<1>2. n1 =
        [stage |-> stage, job |-> r.job, since |-> r.since, lost |-> r.lost, names |-> r.names,
         discovered |-> r.discovered, read |-> r.read, result |-> r.result]
  BY <1>1 DEF Filled
<1>3. PICK n2 : n2 = [n1 EXCEPT !.names = names]
  OBVIOUS
<1>4. n2 =
        [stage |-> stage, job |-> r.job, since |-> r.since, lost |-> r.lost, names |-> names,
         discovered |-> r.discovered, read |-> r.read, result |-> r.result]
  BY <1>3, <1>2
<1>5. PICK n3 : n3 = [n2 EXCEPT !.discovered = discovered]
  OBVIOUS
<1>6. n3 =
        [stage |-> stage, job |-> r.job, since |-> r.since, lost |-> r.lost, names |-> names,
         discovered |-> discovered, read |-> r.read, result |-> r.result]
  BY <1>5, <1>4
<1>7. n = [n3 EXCEPT !.lost = lost]
  BY <1>1, <1>3, <1>5 DEF Told
<1>8. n =
        [stage |-> stage, job |-> r.job, since |-> r.since, lost |-> lost, names |-> names,
         discovered |-> discovered, read |-> r.read, result |-> r.result]
  BY <1>7, <1>6
<1> QED
  BY <1>8 DEF Filled

\* The same of Previewed.
LEMMA PreviewedFields ==
    ASSUME NEW r, Filled(r), NEW read, NEW n, n = Previewed(r, read)
    PROVE  Filled(n) /\ n =
        [stage |-> r.stage, job |-> r.job, since |-> r.since, lost |-> r.lost, names |-> r.names,
         discovered |-> r.discovered, read |-> read, result |-> r.result]
BY DEF Filled, Previewed

\* The same of Went.
LEMMA WentFields ==
    ASSUME NEW r, Filled(r), NEW read, NEW lost, NEW n, n = Went(r, read, lost)
    PROVE  Filled(n) /\ n =
        [stage |-> r.stage, job |-> r.job, since |-> r.since, lost |-> lost, names |-> r.names,
         discovered |-> r.discovered, read |-> read, result |-> r.result]
<1>1. PICK n1 : n1 = [r EXCEPT !.read = read]
  OBVIOUS
<1>2. n1 =
        [stage |-> r.stage, job |-> r.job, since |-> r.since, lost |-> r.lost, names |-> r.names,
         discovered |-> r.discovered, read |-> read, result |-> r.result]
  BY <1>1 DEF Filled
<1>3. n = [n1 EXCEPT !.lost = lost]
  BY <1>1 DEF Went
<1>4. n =
        [stage |-> r.stage, job |-> r.job, since |-> r.since, lost |-> lost, names |-> r.names,
         discovered |-> r.discovered, read |-> read, result |-> r.result]
  BY <1>3, <1>2
<1> QED
  BY <1>4 DEF Filled

\* The same of Closed.
LEMMA ClosedFields ==
    ASSUME NEW r, Filled(r), NEW stage, NEW read, NEW result, NEW n, n = Closed(r, stage, read, result)
    PROVE  Filled(n) /\ n =
        [stage |-> stage, job |-> r.job, since |-> r.since, lost |-> r.lost, names |-> r.names,
         discovered |-> r.discovered, read |-> read, result |-> result]
<1>1. PICK n1 : n1 = [r EXCEPT !.stage = stage]
  OBVIOUS
<1>2. n1 =
        [stage |-> stage, job |-> r.job, since |-> r.since, lost |-> r.lost, names |-> r.names,
         discovered |-> r.discovered, read |-> r.read, result |-> r.result]
  BY <1>1 DEF Filled
<1>3. PICK n2 : n2 = [n1 EXCEPT !.read = read]
  OBVIOUS
<1>4. n2 =
        [stage |-> stage, job |-> r.job, since |-> r.since, lost |-> r.lost, names |-> r.names,
         discovered |-> r.discovered, read |-> read, result |-> r.result]
  BY <1>2, <1>3
<1>5. n = [n2 EXCEPT !.result = result]
  BY <1>1, <1>3 DEF Closed
<1>6. n =
        [stage |-> stage, job |-> r.job, since |-> r.since, lost |-> r.lost, names |-> r.names,
         discovered |-> r.discovered, read |-> read, result |-> result]
  BY <1>4, <1>5
<1> QED
  BY <1>6 DEF Filled

\* Init gives Inv.
LEMMA Beginning == Init => Inv
<1> SUFFICES ASSUME Init PROVE Inv
  OBVIOUS
<1>1. Filled(Idle) /\ Idle.since = 0 /\ Idle.stage = "idle"
  BY DEF Idle, Filled
<1> QED
  BY <1>1 DEF Init, Inv, Proper

\* A new request.
LEMMA StartKeeps ==
    ASSUME Inv, NEW w \in Requests, NEW job \in Jobs, Start(w, job)
    PROVE  Inv'
<1>1. PICK stage : stage = IF Refused(job) THEN "refused" ELSE FirstStage(job)
  OBVIOUS
<1>2. PICK r : r = [Idle EXCEPT !.stage = stage, !.job = job, !.since = deploys]
  OBVIOUS
<1>3. Put(w, r)
  BY <1>1, <1>2 DEF Start
<1>4. job.kind = "test" => stage \in {"refused", "health", "open"} /\ (stage = "open" => job.url # "valid")
  BY <1>1, GatheringAssumption DEF FirstStage
<1>5. job.kind = "compile" => stage \in {"refused", "preferences"}
  BY <1>1 DEF FirstStage
<1>6. r.stage = stage /\ r.job = job /\ r.since = deploys /\ r.names = <<>> /\ r.read = <<>> /\ Filled(r)
  <2>1. PICK idle : idle = Idle
    OBVIOUS
  <2>2. Filled(idle) /\ idle.names = <<>> /\ idle.read = <<>>
    BY <2>1 DEF Filled, Idle
  <2>3. r = Began(idle, stage, job, deploys)
    BY <1>2, <2>1 DEF Began
  <2> QED
    BY <2>2, <2>3, BeganFields
<1>7. deploys \in Nat /\ deploys <= deploys
  BY DEF Inv
<1>8. job.kind = "test" => TestProper(r)
  BY <1>4, <1>6 DEF TestProper
<1>9. job.kind = "compile" => CompileProper(r)
  BY <1>5, <1>6 DEF CompileProper
<1>10. Proper(r)
  BY <1>6, <1>7, <1>8, <1>9 DEF Proper
<1> QED
  BY <1>3, <1>10, Acting DEF Start

\* A request that is neither a test nor a compile may go anywhere; what fails is no
\* more read from.
LEMMA ElsewhereKeeps ==
    ASSUME Inv, NEW w \in Requests, NEW r, Put(w, r), Filled(r), req[w].stage # "idle",
           r.job = req[w].job, r.since = req[w].since,
           \/ req[w].job.kind \notin {"test", "compile"}
           \/ r.stage = "failed",
           deploys' = deploys, deployed' = deployed
    PROVE  Inv'
<1>1. Proper(req[w])
  BY DEF Inv
<1>2. Proper(r)
  BY <1>1 DEF Proper, TestProper, CompileProper
<1> QED
  BY <1>2, Acting

\* The record of any request is proper, and of one that began, so is its part.
LEMMA Properly ==
    ASSUME Inv, NEW w \in Requests
    PROVE  /\ Filled(req[w]) /\ req[w].since \in Nat /\ req[w].since <= deploys
           /\ req[w].stage # "idle" => /\ req[w].job \in Jobs
                                       /\ req[w].job.kind = "test" => TestProper(req[w])
                                       /\ req[w].job.kind = "compile" => CompileProper(req[w])
BY DEF Inv, Proper

\* Statements of the wizard that neither test nor compile, and a statement that raises.
LEMMA WizardKeeps ==
    ASSUME Inv, NEW w \in Requests, Generate(w) \/ Save(w) \/ Forget(w) \/ Fail(w)
    PROVE  Inv'
<1> PICK r : r = req[w]
  OBVIOUS
<1>0. Filled(r) /\ r.stage = req[w].stage
  BY Properly
<1>1. CASE Generate(w)
  <2>1. PICK result : Put(w, Ended(r, "done", result))
    BY <1>1 DEF Generate, Ended
  <2>2. PICK m : m = Ended(r, "done", result)
    OBVIOUS
  <2>3. Filled(m) /\ m.job = r.job /\ m.since = r.since
    BY <1>0, <2>2, EndedFields
  <2> QED
    BY <1>1, <2>1, <2>2, <2>3, ElsewhereKeeps DEF Generate, At
<1>2. CASE Save(w)
  <2>1. Put(w, Moved(r, "done"))
    BY <1>2 DEF Save, Moved
  <2>2. PICK m : m = Moved(r, "done")
    OBVIOUS
  <2>3. Filled(m) /\ m.job = r.job /\ m.since = r.since /\ m.stage = "done"
    BY <1>0, <2>2, MovedFields
  <2> QED
    BY <1>0, <1>2, <2>1, <2>2, <2>3, ElsewhereKeeps DEF Save, At
<1>3. CASE Forget(w)
  <2>1. PICK result : Put(w, Ended(r, "done", result))
    BY <1>3 DEF Forget, Ended
  <2>2. PICK m : m = Ended(r, "done", result)
    OBVIOUS
  <2>3. Filled(m) /\ m.job = r.job /\ m.since = r.since
    BY <1>0, <2>2, EndedFields
  <2> QED
    BY <1>3, <2>1, <2>2, <2>3, ElsewhereKeeps DEF Forget, At
<1>4. CASE Fail(w)
  <2>1. Put(w, Moved(r, "failed"))
    BY <1>4 DEF Fail, Moved
  <2>2. PICK m : m = Moved(r, "failed")
    OBVIOUS
  <2>3. Filled(m) /\ m.job = r.job /\ m.since = r.since /\ m.stage = "failed"
    BY <1>0, <2>2, MovedFields
  <2> QED
    BY <1>0, <1>4, <2>1, <2>2, <2>3, ElsewhereKeeps DEF Fail
<1> QED
  BY <1>1, <1>2, <1>3, <1>4

\* After a deployment nothing is said of what began before it.
LEMMA DeployKeeps ==
    ASSUME Inv, NEW host \in Hosts, Deploy(host)
    PROVE  Inv'
<1>1. /\ deploys \in Nat /\ deploys' = deploys + 1 /\ deployed' = host /\ req' = req
  BY DEF Inv, Deploy
<1>2. ASSUME NEW r, Proper(r) PROVE Proper(r)'
  <2>1. r.since \in Nat /\ r.since <= deploys
    BY <1>2 DEF Proper
  <2>2. r.since # deploys' /\ r.since <= deploys'
    BY <1>1, <2>1
  <2>3. TestProper(r) => TestProper(r)'
    BY <2>2 DEF TestProper
  <2>4. CompileProper(r) => CompileProper(r)'
    BY <2>2 DEF CompileProper
  <2> QED
    BY <1>2, <2>1, <2>2, <2>3, <2>4 DEF Proper
<1>3. \A w \in Requests : Proper(req[w])'
  <2> SUFFICES ASSUME NEW w \in Requests PROVE Proper(req[w])'
    OBVIOUS
  <2>1. PICK r : r = req[w] /\ Proper(r)
    BY DEF Inv
  <2>2. Proper(r)'
    BY <1>2, <2>1
  <2> QED
    BY <1>1, <2>1, <2>2
<1> QED
  BY <1>1, <1>3 DEF Inv

\* The end of a test: previews that the host confirms, if the test may speak of it.
LEMMA TestedKeeps ==
    ASSUME Inv, NEW w \in Requests, NEW outcome, Tested(w, outcome), req[w].stage # "idle",
           req[w].job.kind = "test", deploys' = deploys, deployed' = deployed,
           req[w].job.url = "valid" /\ req[w].since = deploys =>
              Foreseen(outcome.previews, deployed, req[w].job.token)
    PROVE  Inv'
<1>1. PICK r : r = req[w]
  OBVIOUS
<1>2. Filled(r) /\ r.since \in Nat /\ r.since <= deploys /\ r.job \in Jobs /\ r.job.kind = "test"
  BY <1>1, Properly
<1>3. PICK n : n = Ended(r, "publish", outcome)
  OBVIOUS
<1>4. Filled(n) /\ n.stage = "publish" /\ n.job = r.job /\ n.since = r.since /\ n.result = outcome
  BY <1>2, <1>3, EndedFields
<1>5. Put(w, n)
  BY <1>1, <1>3 DEF Tested, Ended
<1>6. TestProper(n)
  BY <1>1, <1>4 DEF TestProper
<1>7. Proper(n)
  BY <1>2, <1>4, <1>6 DEF Proper
<1> QED
  BY <1>5, <1>7, Acting

\* A test that failed has shown nothing.
LEMMA Unseen ==
    ASSUME NEW host, NEW token
    PROVE  Foreseen(Outcome(FALSE, <<>>).previews, host, token)
BY Nothing DEF Foreseen, Outcome

\* The first call of a test.
LEMMA HealthKeeps ==
    ASSUME Inv, NEW w \in Requests, Health(w)
    PROVE  Inv'
<1>1. PICK r : r = req[w]
  OBVIOUS
<1>2. /\ Filled(r) /\ r.since \in Nat /\ r.since <= deploys /\ r.stage = "health" /\ r.job.kind = "test"
      /\ r.job \in Jobs /\ TestProper(r)
  BY <1>1, Properly DEF Health, At
<1>3. deploys' = deploys /\ deployed' = deployed
  BY DEF Health
<1>4. Tested(w, Outcome(FALSE, <<>>)) \/ Put(w, Moved(r, "preview"))
  BY <1>1 DEF Health, Moved
<1>5. CASE Tested(w, Outcome(FALSE, <<>>))
  BY <1>1, <1>2, <1>3, <1>5, Unseen, TestedKeeps
<1>6. CASE Put(w, Moved(r, "preview"))
  <2>1. PICK n : n = Moved(r, "preview")
    OBVIOUS
  <2>2. Filled(n) /\ n.stage = "preview" /\ n.job = r.job /\ n.since = r.since /\ n.read = <<>>
    BY <1>2, <2>1, MovedFields DEF TestProper
  <2>3. TestProper(n)
    BY <2>2, Nothing DEF TestProper, Foreseen
  <2>4. Proper(n)
    BY <1>2, <2>2, <2>3 DEF Proper
  <2> QED
    BY <1>3, <1>6, <2>1, <2>4, Acting
<1> QED
  BY <1>4, <1>5, <1>6

\* Every later call of a test: one preview more, or the end.
LEMMA PreviewKeeps ==
    ASSUME Inv, NEW w \in Requests, PreviewTable(w)
    PROVE  Inv'
<1>1. PICK r : r = req[w]
  OBVIOUS
<1>2. /\ Filled(r) /\ r.since \in Nat /\ r.since <= deploys /\ r.stage = "preview" /\ r.job.kind = "test"
      /\ r.job \in Jobs /\ TestProper(r)
  BY <1>1, Properly DEF PreviewTable, At
<1>3. deploys' = deploys /\ deployed' = deployed
  BY DEF PreviewTable
<1>4. PICK entity : entity = Asked(r.job.tables)[Len(r.read) + 1].entity
  OBVIOUS
<1>5. PICK answer \in Answers(entity, SampleRows, r.job.token) :
         \/ Tested(w, Outcome(FALSE, <<>>))
         \/ Put(w, [r EXCEPT !.read = Append(r.read, PreviewOf(entity, answer))])
         \/ Tested(w, Outcome(TRUE, Append(r.read, PreviewOf(entity, answer))))
  BY <1>1, <1>4 DEF PreviewTable
<1>6. PICK previews : previews = Append(r.read, PreviewOf(entity, answer))
  OBVIOUS
<1>7. \/ Tested(w, Outcome(FALSE, <<>>))
      \/ Put(w, Previewed(r, previews))
      \/ Tested(w, Outcome(TRUE, previews))
  BY <1>5, <1>6 DEF Previewed
<1>8. answer \in {Serve(deployed, entity, SampleRows, r.job.token), Unreachable, Silent}
  BY <1>5 DEF Answers
<1>9. PICK p : p = PreviewOf(entity, answer)
  OBVIOUS
<1>10. p.entity = entity /\ (p.reachable => Seen(deployed, entity, SampleRows, r.job.token))
  <2>1. p.entity = entity /\ (p.reachable => Good(answer))
    BY <1>9 DEF PreviewOf, Preview, Good
  <2>2. ~Good(Unreachable) /\ ~Good(Silent)
    BY Statuses DEF Good
  <2> QED
    BY <1>8, <2>1, <2>2 DEF Seen
<1>11. IsList(previews) /\ (r.since = deploys => Foreseen(previews, deployed, r.job.token))
  <2>1. IsList(r.read) /\ (r.since = deploys => Foreseen(r.read, deployed, r.job.token))
    BY <1>2 DEF TestProper
  <2>2. PICK l \in Nat : l = Len(r.read) /\ DOMAIN r.read = 1 .. l
    BY <2>1, Lists
  <2>3. /\ IsList(previews) /\ DOMAIN previews = 1 .. l + 1
        /\ \A i \in 1 .. l : previews[i] = r.read[i]
        /\ previews[l + 1] = p
    BY <1>6, <1>9, <2>1, <2>2, Appending
  <2>4. \A i \in 1 .. l + 1 : i \in 1 .. l \/ i = l + 1
    OBVIOUS
  <2> QED
    BY <1>10, <2>1, <2>2, <2>3, <2>4 DEF Foreseen
<1>12. CASE Tested(w, Outcome(FALSE, <<>>))
  BY <1>1, <1>2, <1>3, <1>12, Unseen, TestedKeeps
<1>13. CASE Put(w, Previewed(r, previews))
  <2>1. PICK n : n = Previewed(r, previews)
    OBVIOUS
  <2>2. Filled(n) /\ n.stage = "preview" /\ n.job = r.job /\ n.since = r.since /\ n.read = previews
    BY <1>2, <2>1, PreviewedFields
  <2>3. TestProper(n)
    BY <1>11, <2>2 DEF TestProper
  <2>4. Proper(n)
    BY <1>2, <2>2, <2>3 DEF Proper
  <2> QED
    BY <1>3, <1>13, <2>1, <2>4, Acting
<1>14. CASE Tested(w, Outcome(TRUE, previews))
  <2>1. Outcome(TRUE, previews).previews = previews
    BY DEF Outcome
  <2> QED
    BY <1>1, <1>2, <1>3, <1>11, <1>14, <2>1, TestedKeeps
<1> QED
  BY <1>7, <1>12, <1>13, <1>14

\* A test of the database itself is not one of a URL; one that takes too long has
\* shown nothing.
LEMMA OpenKeeps ==
    ASSUME Inv, NEW w \in Requests, Open(w) \/ TimeOut(w)
    PROVE  Inv'
<1>1. CASE Open(w)
  <2>1. req[w].stage = "open" /\ req[w].job.kind = "test" /\ deploys' = deploys /\ deployed' = deployed
    BY <1>1 DEF Open, At
  <2>2. req[w].job.url # "valid"
    BY <2>1, Properly DEF TestProper
  <2>3. PICK outcome : Tested(w, outcome)
    BY <1>1 DEF Open
  <2> QED
    BY <2>1, <2>2, <2>3, TestedKeeps
<1>2. CASE TimeOut(w)
  <2>1. req[w].stage \in {"health", "preview", "open"} /\ deploys' = deploys /\ deployed' = deployed
    BY <1>2 DEF TimeOut
  <2>2. req[w].job.kind # "compile"
    BY <2>1, Properly DEF CompileProper
  <2>3. Tested(w, Outcome(FALSE, <<>>))
    BY <1>2 DEF TimeOut
  <2>4. CASE req[w].job.kind = "test"
    BY <2>1, <2>3, <2>4, Unseen, TestedKeeps
  <2>5. CASE req[w].job.kind # "test"
    <3>1. PICK r : r = req[w]
      OBVIOUS
    <3>2. PICK outcome : outcome = Outcome(FALSE, <<>>)
      OBVIOUS
    <3>3. PICK n : n = Ended(r, "publish", outcome) /\ Put(w, n)
      BY <2>3, <3>1, <3>2 DEF Tested, Ended
    <3>4. Filled(n) /\ n.job = r.job /\ n.since = r.since
      BY <3>1, <3>3, Properly, EndedFields
    <3> QED
      BY <2>1, <2>2, <2>5, <3>1, <3>3, <3>4, ElsewhereKeeps
  <2> QED
    BY <2>4, <2>5
<1> QED
  BY <1>1, <1>2

\* The event is published, and nothing else changes.
LEMMA PublishKeeps ==
    ASSUME Inv, NEW w \in Requests, Publish(w)
    PROVE  Inv'
<1>1. PICK r : r = req[w]
  OBVIOUS
<1>2. /\ Filled(r) /\ r.since \in Nat /\ r.since <= deploys /\ r.stage = "publish" /\ r.job \in Jobs
      /\ r.job.kind = "test" => TestProper(r)
      /\ r.job.kind = "compile" => CompileProper(r)
  BY <1>1, Properly DEF Publish
<1>3. PICK n : n = Moved(r, "done") /\ Put(w, n) /\ deploys' = deploys /\ deployed' = deployed
  BY <1>1 DEF Publish, Moved
<1>4. /\ Filled(n) /\ n.stage = "done" /\ n.job = r.job /\ n.since = r.since /\ n.result = r.result
      /\ n.names = r.names /\ n.lost = r.lost
  BY <1>2, <1>3, MovedFields
<1>5. n.job.kind = "test" => TestProper(n)
  BY <1>2, <1>4 DEF TestProper
<1>6. n.job.kind = "compile" => CompileProper(n)
  BY <1>2, <1>4 DEF CompileProper
<1>7. Proper(n)
  BY <1>2, <1>4, <1>5, <1>6 DEF Proper
<1> QED
  BY <1>3, <1>7, Acting

\* Without a URL there is nothing to read, and with one nothing is read yet.
LEMMA PreferencesKeeps ==
    ASSUME Inv, NEW w \in Requests, ReadPreferences(w)
    PROVE  Inv'
<1>1. PICK r : r = req[w]
  OBVIOUS
<1>2. /\ Filled(r) /\ r.since \in Nat /\ r.since <= deploys /\ r.stage = "preferences"
      /\ r.job.kind = "compile" /\ r.job \in Jobs /\ CompileProper(r)
  BY <1>1, Properly DEF ReadPreferences, At
<1>3. deploys' = deploys /\ deployed' = deployed
  BY DEF ReadPreferences
<1>4. PICK reason : Put(w, Ended(r, "publish", NotConnected(reason))) \/ Put(w, Moved(r, "discover"))
  BY <1>1 DEF ReadPreferences, Ended, Moved
<1>5. r.names = <<>> /\ r.read = <<>>
  BY <1>2 DEF CompileProper
<1>6. CASE Put(w, Ended(r, "publish", NotConnected(reason)))
  <2>1. PICK result : result = NotConnected(reason)
    OBVIOUS
  <2>2. PICK n : n = Ended(r, "publish", result)
    OBVIOUS
  <2>3. /\ Filled(n) /\ n.stage = "publish" /\ n.job = r.job /\ n.since = r.since /\ n.names = <<>>
        /\ n.result = result
    BY <1>2, <1>5, <2>2, EndedFields
  <2>4. /\ result.entities = <<>> /\ result.discovered = FALSE
        /\ result = Because(Gathered(<<>>, FALSE), result.reason)
    <3>1. PICK read, discovered : read = <<>> /\ discovered = FALSE
      OBVIOUS
    <3>2. result = Because(Gathered(read, discovered), reason)
      BY <2>1, <3>1 DEF NotConnected, Because
    <3>3. /\ result.entities = read /\ result.discovered = discovered
          /\ result = Because(Gathered(read, discovered), result.reason)
      BY <3>2, ReasonAside
    <3> QED
      BY <3>1, <3>3
  <2>5. Reading(<<>>, <<>>)
    BY Nothing DEF Reading, IsInjective
  <2>6. CompileProper(n)
    BY <2>3, <2>4, <2>5 DEF CompileProper
  <2>7. Proper(n)
    BY <1>2, <2>3, <2>6 DEF Proper
  <2> QED
    BY <1>3, <1>6, <2>1, <2>2, <2>7, Acting
<1>7. CASE Put(w, Moved(r, "discover"))
  <2>1. PICK n : n = Moved(r, "discover")
    OBVIOUS
  <2>2. /\ Filled(n) /\ n.stage = "discover" /\ n.job = r.job /\ n.since = r.since
        /\ n.names = <<>> /\ n.read = <<>>
    BY <1>2, <1>5, <2>1, MovedFields
  <2>3. CompileProper(n)
    BY <2>2 DEF CompileProper
  <2>4. Proper(n)
    BY <1>2, <2>2, <2>3 DEF Proper
  <2> QED
    BY <1>3, <1>7, <2>1, <2>4, Acting
<1> QED
  BY <1>4, <1>6, <1>7

\* The names to read, the host's own if its answer was not lost.
LEMMA DiscoverKeeps ==
    ASSUME Inv, NEW w \in Requests, Discover(w)
    PROVE  Inv'
<1>1. PICK r : r = req[w]
  OBVIOUS
<1>2. /\ Filled(r) /\ r.since \in Nat /\ r.since <= deploys /\ r.stage = "discover"
      /\ r.job.kind = "compile" /\ r.job \in Jobs /\ CompileProper(r)
  BY <1>1, Properly DEF Discover, At
<1>3. deploys' = deploys /\ deployed' = deployed
  BY DEF Discover
<1>4. PICK lost \in BOOLEAN, answer \in Answers("_health", 5, Null) :
         /\ Called(w, "_health", 5, Null, answer, lost)
         /\ Put(w, Told(r, "read", EntityNames(answer), Discovered(answer), lost))
  BY <1>1 DEF Discover, Told
<1>5. r.read = <<>>
  BY <1>2 DEF CompileProper
<1>6. PICK names : names = EntityNames(answer)
  OBVIOUS
<1>7. IsList(names) /\ IsInjective(names) /\ names # <<>>
  BY <1>6, NamesOnce DEF Answers, Inv
<1>8. ~lost => names = EntityNames(Serve(deployed, "_health", 5, Null))
  BY <1>4, <1>6 DEF Called
<1>9. PICK discovered : discovered = Discovered(answer)
  OBVIOUS
<1>10. PICK n : n = Told(r, "read", names, discovered, lost)
  OBVIOUS
<1>11. /\ Filled(n) /\ n.stage = "read" /\ n.job = r.job /\ n.since = r.since
       /\ n.names = names /\ n.read = <<>> /\ n.lost = lost
  BY <1>2, <1>5, <1>10, ToldFields
<1>12. Reading(names, <<>>) /\ Len(<<>>) < Len(names)
  <2>1. PICK k \in Nat : k = Len(names) /\ k # 0
    BY <1>7, Lists
  <2> QED
    BY <1>7, <2>1, Nothing DEF Reading
<1>13. ~lost => Current(names, <<>>, deployed)
  BY <1>8, Nothing DEF Current
<1>14. CompileProper(n)
  BY <1>11, <1>12, <1>13 DEF CompileProper
<1>15. Proper(n)
  BY <1>2, <1>11, <1>14 DEF Proper
<1> QED
  BY <1>3, <1>4, <1>6, <1>9, <1>10, <1>15, Acting

\* What one entity's answer amounts to.
LEMMA EntityRead ==
    ASSUME NEW name, NEW answer, NEW e, e = ReadEntity(name, answer)
    PROVE  e.entity = name /\ (~e.reachable => e.rows = <<>>) /\ (Good(answer) => e.reachable)
BY DEF ReadEntity, Good

\* One entity more.
LEMMA OneMore ==
    ASSUME NEW names, NEW read, Reading(names, read), Len(read) < Len(names),
           NEW name, name = names[Len(read) + 1],
           NEW e, e.entity = name, ~e.reachable => e.rows = <<>>,
           NEW more, more = Append(read, e), NEW host
    PROVE  /\ Reading(names, more) /\ Len(more) = Len(read) + 1
           /\ Current(names, read, host) /\ (Seen(host, name, ReadLimit, Null) => e.reachable)
                  => Current(names, more, host)
<1>1. PICK l \in Nat : l = Len(read) /\ DOMAIN read = 1 .. l
  BY Lists DEF Reading
<1>2. PICK k \in Nat : k = Len(names) /\ l < k
  BY <1>1, Lists DEF Reading
<1>3. /\ IsList(more) /\ Len(more) = l + 1 /\ DOMAIN more = 1 .. l + 1
      /\ \A i \in 1 .. l : more[i] = read[i]
      /\ more[l + 1] = e
  BY <1>1, Appending DEF Reading
<1>4. \A i \in 1 .. l + 1 : i \in 1 .. l \/ i = l + 1
  OBVIOUS
<1>5. Reading(names, more)
  BY <1>1, <1>2, <1>3, <1>4 DEF Reading
<1>6. ASSUME Current(names, read, host), Seen(host, name, ReadLimit, Null) => e.reachable
      PROVE  Current(names, more, host)
  BY <1>1, <1>3, <1>4, <1>6 DEF Current
<1> QED
  BY <1>1, <1>3, <1>5, <1>6

\* Every later call of a cycle: one entity more, after the last what follows from
\* them, or the end.
LEMMA ReadKeeps ==
    ASSUME Inv, NEW w \in Requests, Read(w)
    PROVE  Inv'
<1>1. PICK r : r = req[w]
  OBVIOUS
<1>2. /\ Filled(r) /\ r.since \in Nat /\ r.since <= deploys /\ r.stage = "read"
      /\ r.job.kind = "compile" /\ r.job \in Jobs /\ CompileProper(r)
  BY <1>1, Properly DEF Read, At
<1>3. deploys' = deploys /\ deployed' = deployed
  BY DEF Read
<1>4. PICK name : name = r.names[Len(r.read) + 1]
  OBVIOUS
<1>5. PICK lost \in BOOLEAN, answer \in Answers(name, ReadLimit, Null) :
         /\ Called(w, name, ReadLimit, Null, answer, lost)
         /\ IF Raises(answer) THEN Put(w, [req[w] EXCEPT !.stage = "failed"])
            ELSE LET read  == Append(req[w].read, ReadEntity(name, answer))
                     after == [req[w] EXCEPT !.read = read, !.lost = @ \/ lost]
                 IN  IF Len(read) < Len(req[w].names) THEN Put(w, after)
                     ELSE Put(w, [after EXCEPT !.stage = "publish", !.read = <<>>,
                                               !.result = Gathered(read, req[w].discovered)])
  <2>1. name = req[w].names[Len(req[w].read) + 1]
    BY <1>1, <1>4
  <2> QED
    BY <2>1, Zenon DEF Read
<1>6. PICK e : e = ReadEntity(name, answer)
  OBVIOUS
<1>7. PICK read : read = Append(r.read, e)
  OBVIOUS
<1>8. PICK after : after = Went(r, read, r.lost \/ lost)
  OBVIOUS
<1>9. PICK result : result = Gathered(read, r.discovered)
  OBVIOUS
<1>10. PICK closed : closed = Closed(after, "publish", <<>>, result)
  OBVIOUS
<1>11. \/ Put(w, Moved(r, "failed"))
       \/ Len(read) < Len(r.names) /\ Put(w, after)
       \/ ~(Len(read) < Len(r.names)) /\ Put(w, closed)
  BY <1>1, <1>5, <1>6, <1>7, <1>8, <1>9, <1>10 DEF Moved, Went, Closed
<1>12. /\ Reading(r.names, r.read) /\ Len(r.read) < Len(r.names)
       /\ r.since = deploys /\ ~r.lost => Current(r.names, r.read, deployed)
  BY <1>2 DEF CompileProper
<1>13. e.entity = name /\ (~e.reachable => e.rows = <<>>) /\ (Good(answer) => e.reachable)
  BY <1>6, EntityRead
<1>14. ~lost => (Seen(deployed, name, ReadLimit, Null) => e.reachable)
  BY <1>5, <1>13 DEF Called, Seen
<1>15. /\ Reading(r.names, read) /\ Len(read) = Len(r.read) + 1
       /\ r.since = deploys /\ ~(r.lost \/ lost) => Current(r.names, read, deployed)
  <2>1. PICK names : names = r.names
    OBVIOUS
  <2>2. PICK old : old = r.read
    OBVIOUS
  <2>3. /\ name = names[Len(old) + 1] /\ Reading(names, old) /\ Len(old) < Len(names)
        /\ read = Append(old, e)
    BY <1>4, <1>7, <1>12, <2>1, <2>2
  <2>4. /\ Reading(names, read) /\ Len(read) = Len(old) + 1
        /\ Current(names, old, deployed) /\ (Seen(deployed, name, ReadLimit, Null) => e.reachable)
               => Current(names, read, deployed)
    BY <1>13, <2>3, OneMore, Zenon
  <2> QED
    BY <1>12, <1>14, <2>1, <2>2, <2>4
<1>16. /\ Filled(after) /\ after.stage = "read" /\ after.job = r.job /\ after.since = r.since
       /\ after.names = r.names /\ after.read = read /\ after.lost = (r.lost \/ lost)
  BY <1>2, <1>8, WentFields
<1>17. CASE Put(w, Moved(r, "failed"))
  <2>1. PICK n : n = Moved(r, "failed")
    OBVIOUS
  <2>2. Filled(n) /\ n.stage = "failed" /\ n.job = r.job /\ n.since = r.since
    BY <1>2, <2>1, MovedFields
  <2> QED
    BY <1>1, <1>2, <1>3, <1>17, <2>1, <2>2, ElsewhereKeeps
<1>18. CASE Len(read) < Len(r.names) /\ Put(w, after)
  <2>1. CompileProper(after)
    BY <1>15, <1>16, <1>18 DEF CompileProper
  <2>2. Proper(after)
    BY <1>2, <1>16, <2>1 DEF Proper
  <2> QED
    BY <1>3, <1>18, <2>2, Acting
<1>19. CASE ~(Len(read) < Len(r.names)) /\ Put(w, closed)
  <2>1. /\ Filled(closed) /\ closed.stage = "publish" /\ closed.job = r.job /\ closed.since = r.since
        /\ closed.names = r.names /\ closed.result = result /\ closed.lost = (r.lost \/ lost)
    BY <1>10, <1>16, ClosedFields
  <2>2. result.entities = read /\ result = Because(Gathered(read, result.discovered), result.reason)
    <3>1. result = Because(Gathered(read, r.discovered), result.reason)
      BY <1>9 DEF Gathered, Because
    <3> QED
      BY <3>1, ReasonAside
  <2>3. Len(read) = Len(r.names)
    <3>1. PICK k \in Nat : k = Len(r.names)
      BY <1>12, Lists DEF Reading
    <3>2. PICK l \in Nat : l = Len(r.read)
      BY <1>12, Lists DEF Reading
    <3> QED
      BY <1>12, <1>15, <1>19, <3>1, <3>2
  <2>4. CompileProper(closed)
    BY <1>15, <2>1, <2>2, <2>3 DEF CompileProper
  <2>5. Proper(closed)
    BY <1>2, <2>1, <2>4 DEF Proper
  <2> QED
    BY <1>3, <1>19, <2>5, Acting
<1> QED
  BY <1>11, <1>17, <1>18, <1>19

\* Nothing changes.
LEMMA StutterKeeps == Inv /\ UNCHANGED vars => Inv'
<1> SUFFICES ASSUME Inv, UNCHANGED vars PROVE Inv'
  OBVIOUS
<1>1. req' = req /\ deploys' = deploys /\ deployed' = deployed
  BY DEF vars
<1>2. ASSUME NEW w \in Requests PROVE Proper(req[w])'
  <2>1. PICK r : r = req[w] /\ Proper(r)
    BY DEF Inv
  <2>2. Proper(r)'
    BY <1>1, <2>1, Keeping
  <2> QED
    BY <1>1, <2>1, <2>2
<1> QED
  BY <1>1, <1>2 DEF Inv

-----------------------------------------------------------------------------
(* Theorems.                                                                *)

\* Every record is proper at every moment: the inductive invariant.
THEOREM InvHolds == Spec => []Inv
<1>1. Init => Inv
  BY Beginning
<1>2. Inv /\ [Next]_vars => Inv'
  <2> SUFFICES ASSUME Inv, [Next]_vars PROVE Inv'
    OBVIOUS
  <2>1. CASE UNCHANGED vars
    BY <2>1, StutterKeeps
  <2>2. ASSUME NEW host \in Hosts, Deploy(host) PROVE Inv'
    BY <2>2, DeployKeeps
  <2>3. ASSUME NEW w \in Requests, NEW job \in Jobs, Start(w, job) PROVE Inv'
    BY <2>3, StartKeeps
  <2>4. ASSUME NEW w \in Requests, Generate(w) \/ Save(w) \/ Forget(w) \/ Fail(w) PROVE Inv'
    BY <2>4, WizardKeeps
  <2>5. ASSUME NEW w \in Requests, Health(w) PROVE Inv'
    BY <2>5, HealthKeeps
  <2>6. ASSUME NEW w \in Requests, PreviewTable(w) PROVE Inv'
    BY <2>6, PreviewKeeps
  <2>7. ASSUME NEW w \in Requests, Open(w) \/ TimeOut(w) PROVE Inv'
    BY <2>7, OpenKeeps
  <2>8. ASSUME NEW w \in Requests, Publish(w) PROVE Inv'
    BY <2>8, PublishKeeps
  <2>9. ASSUME NEW w \in Requests, ReadPreferences(w) PROVE Inv'
    BY <2>9, PreferencesKeeps
  <2>10. ASSUME NEW w \in Requests, Discover(w) PROVE Inv'
    BY <2>10, DiscoverKeeps
  <2>11. ASSUME NEW w \in Requests, Read(w) PROVE Inv'
    BY <2>11, ReadKeeps
  <2> QED
    BY <2>1, <2>2, <2>3, <2>4, <2>5, <2>6, <2>7, <2>8, <2>9, <2>10, <2>11 DEF Next
<1> QED
  BY <1>1, <1>2, PTL DEF Spec

\* Whatever a report says of the company's data rests on rows that this very
\* cycle read, though files and answers change under it.
THEOREM FindingsHold == Spec => []FindingsBacked
<1>1. Inv => FindingsBacked
  <2> SUFFICES ASSUME Inv, NEW c \in Requests, Done(c, "compile") PROVE Backed(req[c].result)
    BY DEF FindingsBacked, Backed
  <2>1. PICK r : r = req[c]
    OBVIOUS
  <2>2. r.stage = "done" /\ CompileProper(r)
    BY <2>1, Properly DEF Done, At
  <2>3. PICK read, discovered : read = r.result.entities /\ discovered = r.result.discovered
    OBVIOUS
  <2>4. r.result = Because(Gathered(read, discovered), r.result.reason) /\ Reading(r.names, read)
    BY <2>2, <2>3 DEF CompileProper
  <2>5. Backed(Gathered(read, discovered))
    BY <2>4, GatheredBacked
  <2> QED
    BY <2>1, <2>4, <2>5, ReasonAside
<1> QED
  BY <1>1, InvHolds, PTL

\* A table that Test Connection could preview without a token is read by a
\* Compile of the same deployment that lost no call.
THEOREM PredictionHolds == Spec => []TestPredictsCycle
<1>1. Inv => TestPredictsCycle
  <2> SUFFICES ASSUME Inv, NEW t \in Requests, NEW c \in Requests,
                      Done(t, "test"), req[t].job.url = "valid", req[t].job.token = Null, req[t].since = deploys,
                      Done(c, "compile"), req[c].names # <<>>, req[c].since = deploys, ~req[c].lost,
                      deployed # Null, deployed.kind = "generated", deployed.file.breaks = {},
                      Cardinality(DOMAIN deployed.file.map) <= MaxEntities,
                      NEW i \in DOMAIN req[t].result.previews,
                      req[t].result.previews[i].reachable, req[t].result.previews[i].entity # "_health"
               PROVE  \E k \in DOMAIN req[c].result.entities :
                         /\ req[c].result.entities[k].entity = req[t].result.previews[i].entity
                         /\ req[c].result.entities[k].reachable
    BY DEF TestPredictsCycle
  <2>1. PICK entity : entity = req[t].result.previews[i].entity
    OBVIOUS
  <2>2. Seen(deployed, entity, SampleRows, Null) /\ entity # "_health"
    <3>1. req[t].stage = "done" /\ TestProper(req[t])
      BY Properly DEF Done, At
    <3>2. Foreseen(req[t].result.previews, deployed, Null)
      BY <3>1 DEF TestProper
    <3> QED
      BY <2>1, <3>2 DEF Foreseen
  <2>3. deployed \in Hosts
    BY DEF Inv
  <2>4. entity \in DOMAIN deployed.file.map /\ Seen(deployed, entity, ReadLimit, Null)
    BY <2>2, <2>3, Predicted
  <2>5. PICK names, read : names = req[c].names /\ read = req[c].result.entities
    OBVIOUS
  <2>6. Reading(names, read) /\ Len(read) = Len(names) /\ Current(names, read, deployed)
    <3>1. req[c].stage = "done" /\ CompileProper(req[c])
      BY Properly DEF Done, At
    <3> QED
      BY <2>5, <3>1 DEF CompileProper
  <2>7. PICK k \in DOMAIN names : names[k] = entity
    BY <2>2, <2>3, <2>4, <2>6, AllNamed DEF Current
  <2>8. k \in DOMAIN read
    BY <2>6, <2>7, Lists DEF Reading
  <2>9. read[k].entity = entity /\ read[k].reachable
    BY <2>4, <2>6, <2>7, <2>8 DEF Reading, Current
  <2> QED
    BY <2>1, <2>5, <2>8, <2>9
<1> QED
  BY <1>1, InvHolds, PTL

===============================================================================

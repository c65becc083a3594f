------------------------- MODULE ConnectionPoolProofs -------------------------
(***************************************************************************)
(* For every pool size and every number of tasks: connections are          *)
(* conserved, and the pool cannot get stuck while fewer requests may be    *)
(* refused than it has connections.                                        *)
(***************************************************************************)
EXTENDS ConnectionPool, FiniteSetTheorems, TLAPS

OnlyRefusable == \A t \in Tasks : pc[t] \in {"refused", "alert", "leave"} => t \in Refusable

Inv == TypeOK /\ ConnectionsConserved /\ OnlyRefusable

\* The tasks at a stage can be counted.
LEMMA AtFinite ==
  ASSUME NEW s
  PROVE  IsFiniteSet(At(s)) /\ Cardinality(At(s)) \in Nat /\ At(s) \subseteq Tasks
<1>1. At(s) \subseteq Tasks
  BY DEF At
<1> QED BY <1>1, PoolTasksAssumption, FS_Subset, FS_CardinalityType

\* Moving one task changes two of the counts by one, and no other.
LEMMA Moving ==
  ASSUME TypeOK, NEW t \in Tasks, NEW from \in Stages, NEW to \in Stages,
         pc[t] = from, from # to, Goto(t, to)
  PROVE  /\ pc' \in [Tasks -> Stages]
         /\ Cardinality(At(from)') = Cardinality(At(from)) - 1
         /\ Cardinality(At(to)') = Cardinality(At(to)) + 1
         /\ \A s \in Stages \ {from, to} : Cardinality(At(s)') = Cardinality(At(s))
<1>1. /\ pc \in [Tasks -> Stages] /\ pc' \in [Tasks -> Stages]
      /\ pc'[t] = to /\ \A u \in Tasks \ {t} : pc'[u] = pc[u]
  BY DEF TypeOK, Goto
<1>2. At(from)' = At(from) \ {t} /\ t \in At(from)
  BY <1>1 DEF At
<1>3. At(to)' = At(to) \cup {t} /\ t \notin At(to)
  <2>1. \A u \in Tasks : u \in At(to)' <=> (u = t \/ u \in At(to))
    BY <1>1 DEF At
  <2>2. At(to)' \subseteq Tasks /\ At(to) \cup {t} \subseteq Tasks /\ t \notin At(to)
    BY DEF At
  <2> QED BY <2>1, <2>2
<1>4. \A s \in Stages \ {from, to} : At(s)' = At(s)
  BY <1>1 DEF At
<1>5. Cardinality(At(from) \ {t}) = Cardinality(At(from)) - 1
  BY <1>2, AtFinite, FS_RemoveElement
<1>6. Cardinality(At(to) \cup {t}) = Cardinality(At(to)) + 1
  BY <1>3, AtFinite, FS_AddElement
<1> QED BY <1>1, <1>2, <1>3, <1>4, <1>5, <1>6

\* With the connections in use taken off, what is free is within the pool.
LEMMA Balance ==
  \A f, h, r, a, l, max \in Nat : f + h + r + 2 * a + l = max => f \in 0..max
OBVIOUS

\* An idle pool has all its connections free.
LEMMA InvInit == Init => Inv
<1> SUFFICES ASSUME Init PROVE Inv
  OBVIOUS
<1>1. TypeOK
  BY PoolSizeAssumption DEF Init, TypeOK, Stages
<1>2. /\ At("hold") = {} /\ At("refused") = {} /\ At("alert") = {} /\ At("leave") = {}
  BY DEF Init, At
<1>3. ConnectionsConserved
  BY <1>2, FS_EmptySet, PoolSizeAssumption DEF ConnectionsConserved, Init
<1>4. OnlyRefusable
  BY DEF Init, OnlyRefusable
<1> QED BY <1>1, <1>3, <1>4 DEF Inv

\* Every step moves one task, and with it the connections it takes or gives back.
LEMMA InvNext == Inv /\ [Next]_vars => Inv'
<1> SUFFICES ASSUME Inv, [Next]_vars PROVE Inv'
  OBVIOUS
<1> DEFINE H == Cardinality(At("hold"))
           R == Cardinality(At("refused"))
           A == Cardinality(At("alert"))
           L == Cardinality(At("leave"))
           Used == H + R + 2 * A + L
<1>1. TypeOK /\ free + H + R + 2 * A + L = PoolMax /\ PoolMax \in Nat /\ free \in Nat
  BY PoolSizeAssumption DEF Inv, TypeOK, ConnectionsConserved
<1>2. H \in Nat /\ R \in Nat /\ A \in Nat /\ L \in Nat
  BY AtFinite
<1>3. H' \in Nat /\ R' \in Nat /\ A' \in Nat /\ L' \in Nat
  <2>1. \A s \in Stages : At(s)' \subseteq Tasks
    BY DEF At
  <2>2. \A s \in Stages : Cardinality(At(s)') \in Nat
    BY <2>1, PoolTasksAssumption, FS_Subset, FS_CardinalityType
  <2> QED BY <2>2 DEF Stages
<1> HIDE DEF H, R, A, L
<1>4. SUFFICES /\ pc' \in [Tasks -> Stages] /\ free' \in Nat
               /\ free' + H' + R' + 2 * A' + L' = PoolMax
  <2>1. ASSUME free' \in Nat, free' + H' + R' + 2 * A' + L' = PoolMax
        PROVE  free' \in 0..PoolMax
    BY <1>1, <1>3, <2>1, Balance
  <2>2. OnlyRefusable'
    BY <1>1 DEF Inv, OnlyRefusable, TypeOK, Next, Step, vars, Arrive, Refuse, Acquire,
                Release, AcquireForAlert, Record, Leave, Goto
  <2> QED BY <1>4, <2>1, <2>2 DEF Inv, TypeOK, ConnectionsConserved, H, R, A, L
<1>5. ASSUME NEW t \in Tasks, Arrive(t) PROVE <1>4!1
  <2>1. pc[t] = "idle" /\ Goto(t, "wait") /\ free' = free
    BY <1>5 DEF Arrive
  <2>2. pc' \in [Tasks -> Stages] /\ H' = H /\ R' = R /\ A' = A /\ L' = L
    <3>1. pc[t] \in Stages /\ {"idle", "wait", "hold", "refused", "alert", "leave"} = Stages
      BY <1>1 DEF TypeOK, Stages
    <3> QED BY <1>1, <2>1, <3>1, Moving DEF H, R, A, L
  <2> QED BY <1>1, <2>1, <2>2
<1>6. ASSUME NEW t \in Tasks, Refuse(t) PROVE <1>4!1
  <2>1. pc[t] = "hold" /\ Goto(t, "refused") /\ free' = free
    BY <1>6 DEF Refuse
  <2>2. pc' \in [Tasks -> Stages] /\ H' = H - 1 /\ R' = R + 1 /\ A' = A /\ L' = L
    <3>1. pc[t] \in Stages /\ {"idle", "wait", "hold", "refused", "alert", "leave"} = Stages
      BY <1>1 DEF TypeOK, Stages
    <3> QED BY <1>1, <2>1, <3>1, Moving DEF H, R, A, L
  <2> QED BY <1>1, <1>2, <2>1, <2>2
<1>7. ASSUME NEW t \in Tasks, Acquire(t) PROVE <1>4!1
  <2>1. pc[t] = "wait" /\ Goto(t, "hold") /\ free > 0 /\ free' = free - 1
    BY <1>7 DEF Acquire
  <2>2. pc' \in [Tasks -> Stages] /\ H' = H + 1 /\ R' = R /\ A' = A /\ L' = L
    <3>1. pc[t] \in Stages /\ {"idle", "wait", "hold", "refused", "alert", "leave"} = Stages
      BY <1>1 DEF TypeOK, Stages
    <3> QED BY <1>1, <2>1, <3>1, Moving DEF H, R, A, L
  <2> QED BY <1>1, <1>2, <2>1, <2>2
<1>8. ASSUME NEW t \in Tasks, Release(t) PROVE <1>4!1
  <2>1. pc[t] = "hold" /\ Goto(t, "idle") /\ free' = free + 1
    BY <1>8 DEF Release
  <2>2. pc' \in [Tasks -> Stages] /\ H' = H - 1 /\ R' = R /\ A' = A /\ L' = L
    <3>1. pc[t] \in Stages /\ {"idle", "wait", "hold", "refused", "alert", "leave"} = Stages
      BY <1>1 DEF TypeOK, Stages
    <3> QED BY <1>1, <2>1, <3>1, Moving DEF H, R, A, L
  <2> QED BY <1>1, <1>2, <2>1, <2>2
<1>9. ASSUME NEW t \in Tasks, AcquireForAlert(t) PROVE <1>4!1
  <2>1. pc[t] = "refused" /\ Goto(t, "alert") /\ free > 0 /\ free' = free - 1
    BY <1>9 DEF AcquireForAlert
  <2>2. pc' \in [Tasks -> Stages] /\ H' = H /\ R' = R - 1 /\ A' = A + 1 /\ L' = L
    <3>1. pc[t] \in Stages /\ {"idle", "wait", "hold", "refused", "alert", "leave"} = Stages
      BY <1>1 DEF TypeOK, Stages
    <3> QED BY <1>1, <2>1, <3>1, Moving DEF H, R, A, L
  <2> QED BY <1>1, <1>2, <2>1, <2>2
<1>10. ASSUME NEW t \in Tasks, Record(t) PROVE <1>4!1
  <2>1. pc[t] = "alert" /\ Goto(t, "leave") /\ free' = free + 1
    BY <1>10 DEF Record
  <2>2. pc' \in [Tasks -> Stages] /\ H' = H /\ R' = R /\ A' = A - 1 /\ L' = L + 1
    <3>1. pc[t] \in Stages /\ {"idle", "wait", "hold", "refused", "alert", "leave"} = Stages
      BY <1>1 DEF TypeOK, Stages
    <3> QED BY <1>1, <2>1, <3>1, Moving DEF H, R, A, L
  <2> QED BY <1>1, <1>2, <2>1, <2>2
<1>11. ASSUME NEW t \in Tasks, Leave(t) PROVE <1>4!1
  <2>1. pc[t] = "leave" /\ Goto(t, "idle") /\ free' = free + 1
    BY <1>11 DEF Leave
  <2>2. pc' \in [Tasks -> Stages] /\ H' = H /\ R' = R /\ A' = A /\ L' = L - 1
    <3>1. pc[t] \in Stages /\ {"idle", "wait", "hold", "refused", "alert", "leave"} = Stages
      BY <1>1 DEF TypeOK, Stages
    <3> QED BY <1>1, <2>1, <3>1, Moving DEF H, R, A, L
  <2> QED BY <1>1, <1>2, <2>1, <2>2
<1>12. CASE UNCHANGED vars
  BY <1>1, <1>12 DEF vars, TypeOK, H, R, A, L, At
<1> QED BY <1>5, <1>6, <1>7, <1>8, <1>9, <1>10, <1>11, <1>12 DEF Next, Step

\* If nothing were free and nobody could go on, refused requests alone would fill the pool.
LEMMA Unstuck == Inv => NeverStuck
<1> SUFFICES ASSUME Inv, Cardinality(Refusable) < PoolMax, free = 0,
                    At("hold") \cup At("alert") \cup At("leave") = {}
             PROVE  FALSE
  BY PoolSizeAssumption DEF NeverStuck, Inv, TypeOK
<1>1. Cardinality(At("refused")) = PoolMax
  <2>1. At("hold") = {} /\ At("alert") = {} /\ At("leave") = {}
    OBVIOUS
  <2>2. Cardinality(At("hold")) = 0 /\ Cardinality(At("alert")) = 0 /\ Cardinality(At("leave")) = 0
    BY <2>1, FS_EmptySet
  <2>3. Cardinality(At("refused")) \in Nat
    BY AtFinite
  <2> QED BY <2>2, <2>3, PoolSizeAssumption DEF Inv, ConnectionsConserved
<1>2. At("refused") \subseteq Refusable
  BY DEF At, Inv, OnlyRefusable
<1>3. Cardinality(At("refused")) <= Cardinality(Refusable) /\ Cardinality(Refusable) \in Nat
  BY <1>2, PoolTasksAssumption, FS_Subset, FS_CardinalityType
<1> QED BY <1>1, <1>3, PoolSizeAssumption

\* Free connections never leave 0..PoolMax.
THEOREM TypesHold == Spec => []TypeOK
<1>1. Inv => TypeOK
  BY DEF Inv
<1> QED BY <1>1, InvInit, InvNext, PTL DEF Spec

\* Every connection is free or held, along every path out of a block.
THEOREM Conservation == Spec => []ConnectionsConserved
<1>1. Inv => ConnectionsConserved
  BY DEF Inv
<1> QED BY <1>1, InvInit, InvNext, PTL DEF Spec

\* With fewer refusable requests than connections, somebody can always go on.
THEOREM NoDeadlock == Spec => []NeverStuck
<1> QED BY Unstuck, InvInit, InvNext, PTL DEF Spec

=============================================================================

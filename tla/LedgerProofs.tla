----------------------------- MODULE LedgerProofs -----------------------------
(***************************************************************************)
(* Proofs about the books: the constraints of the tables, imports that are *)
(* prefixes, syncs that are whole, automations that run once on every row  *)
(* they match, flags that are honest and findings that agree with the      *)
(* summary beside them, for any requests, any files, any history and any   *)
(* definitions.                                                            *)
(*                                                                         *)
(* A sum is a fold and a replay a recursive function: what is proved of    *)
(* either is proved of a smallest set or an earliest day at which it would *)
(* fail.                                                                   *)
(***************************************************************************)
EXTENDS Ledger, FiniteSetTheorems, SequenceTheorems, WellFoundedInduction, TLAPS

-----------------------------------------------------------------------------
(* Sets of numbers and sequences.                                          *)

\* Some of the numbers up to n are finitely many.
LEMMA SomeFinite ==
    ASSUME NEW n \in Nat, NEW S \in SUBSET (1 .. n)
    PROVE  IsFiniteSet(S) /\ Cardinality(S) \in Nat /\ Cardinality(S) <= n
<1>1. IsFiniteSet(1 .. n) /\ Cardinality(1 .. n) = n
  BY FS_Interval
<1> QED
  BY <1>1, FS_Subset, FS_CardinalityType

\* Of a family of subsets that is not empty, one has none of the others within it.
Innermost(A, T) == A \in T /\ \A B \in T : B \subseteq A => B = A

\* A finite set has such a subset in every family of its subsets.
LEMMA Smallest ==
    ASSUME NEW S, NEW T, IsFiniteSet(S), T \subseteq SUBSET S, T # {}
    PROVE  \E A \in T : Innermost(A, T)
<1>1. T \subseteq FiniteSubsetsOf(S)
  BY FS_Subset DEF FiniteSubsetsOf
<1>2. PICK A \in T : \A B \in T : ~ (<<B, A>> \in StrictSubsetOrdering(S))
  BY <1>1, FS_StrictSubsetOrderingWellFounded, WFMin
<1> QED
  BY <1>1, <1>2 DEF StrictSubsetOrdering, FiniteSubsetsOf, Innermost

\* Numbers that are not none have a greatest and a least.
LEMMA Greatest ==
    ASSUME NEW n \in Nat, NEW S \in SUBSET (1 .. n), S # {}
    PROVE  Max(S) \in S /\ \A y \in S : Max(S) >= y
<1> DEFINE Above(x) == {y \in S : y > x}
<1>0. PICK T : T = {Above(x) : x \in S}
  OBVIOUS
<1>1. T \subseteq SUBSET S /\ T # {}
  BY <1>0
<1>2. PICK A \in T : Innermost(A, T)
  <2>1. IsFiniteSet(S)
    BY SomeFinite
  <2> QED
    BY <1>1, <2>1, Smallest
<1>3. PICK x \in S : A = Above(x)
  BY <1>0, <1>2
<1>4. \A y \in S : x >= y
  <2> SUFFICES ASSUME NEW y \in S, y > x PROVE FALSE
    OBVIOUS
  <2>0. S \subseteq Int
    OBVIOUS
  <2>1. Above(y) \subseteq Above(x)
    <3> SUFFICES ASSUME NEW z \in S, z > y PROVE z > x
      OBVIOUS
    <3> QED
      BY <2>0
  <2>3. y \in Above(x) /\ y \notin Above(y)
    BY <2>0
  <2>2. Above(y) \in T
    BY <1>0
  <2> QED
    BY <1>2, <1>3, <2>1, <2>2, <2>3 DEF Innermost
<1> QED
  BY <1>4 DEF Max

\* ... and the other way around.
LEMMA Least ==
    ASSUME NEW n \in Nat, NEW S \in SUBSET (1 .. n), S # {}
    PROVE  Min(S) \in S /\ \A y \in S : Min(S) <= y
<1> DEFINE Below(x) == {y \in S : y < x}
<1>0. PICK T : T = {Below(x) : x \in S}
  OBVIOUS
<1>1. T \subseteq SUBSET S /\ T # {}
  BY <1>0
<1>2. PICK A \in T : Innermost(A, T)
  <2>1. IsFiniteSet(S)
    BY SomeFinite
  <2> QED
    BY <1>1, <2>1, Smallest
<1>3. PICK x \in S : A = Below(x)
  BY <1>0, <1>2
<1>4. \A y \in S : x <= y
  <2> SUFFICES ASSUME NEW y \in S, y < x PROVE FALSE
    OBVIOUS
  <2>0. S \subseteq Int
    OBVIOUS
  <2>1. Below(y) \subseteq Below(x)
    <3> SUFFICES ASSUME NEW z \in S, z < y PROVE z < x
      OBVIOUS
    <3> QED
      BY <2>0
  <2>3. y \in Below(x) /\ y \notin Below(y)
    BY <2>0
  <2>2. Below(y) \in T
    BY <1>0
  <2> QED
    BY <1>2, <1>3, <2>1, <2>2, <2>3 DEF Innermost
<1> QED
  BY <1>4 DEF Min

\* How many of some indices there are up to one of them: each has a place of its own.
Rank(at, i) == Cardinality(at \cap 1 .. i)

\* The ranks are 1, 2 and so on, one of each.
LEMMA Ranks ==
    ASSUME NEW n \in Nat, NEW at \in SUBSET (1 .. n)
    PROVE  /\ \A i \in at : Rank(at, i) \in 1 .. Cardinality(at)
           /\ \A i, j \in at : Rank(at, i) = Rank(at, j) => i = j
           /\ \A k \in 1 .. Cardinality(at) : \E i \in at : Rank(at, i) = k
<1> DEFINE c == Cardinality(at)
           f == [i \in at |-> Rank(at, i)]
<1>0. c \in Nat /\ IsFiniteSet(at)
  BY SomeFinite
<1>1. ASSUME NEW i \in at PROVE Rank(at, i) \in 1 .. c
  <2>1. at \cap 1 .. i \in SUBSET at /\ i \in at \cap 1 .. i
    OBVIOUS
  <2>2. IsFiniteSet(at \cap 1 .. i) /\ Cardinality(at \cap 1 .. i) <= c
    BY <1>0, <2>1, FS_Subset
  <2>3. Cardinality(at \cap 1 .. i) \in Nat /\ Cardinality(at \cap 1 .. i) # 0
    BY <2>1, <2>2, FS_CardinalityType, FS_EmptySet
  <2> QED
    BY <1>0, <2>2, <2>3 DEF Rank
<1>2. ASSUME NEW i \in at, NEW j \in at, i < j PROVE Rank(at, i) # Rank(at, j)
  <2>1. at \cap 1 .. i \in SUBSET (at \cap 1 .. j) /\ j \in at \cap 1 .. j /\ j \notin 1 .. i
    BY <1>2
  <2>2. IsFiniteSet(at \cap 1 .. j)
    BY <1>0, FS_Subset
  <2> QED
    BY <2>1, <2>2, FS_Subset DEF Rank
<1>3. \A i, j \in at : Rank(at, i) = Rank(at, j) => i = j
  <2> SUFFICES ASSUME NEW i \in at, NEW j \in at, Rank(at, i) = Rank(at, j) PROVE i = j
    OBVIOUS
  <2>1. i \in Int /\ j \in Int
    OBVIOUS
  <2> QED
    BY <1>2, <2>1
<1>4. f \in Injection(at, 1 .. c)
  <2>1. f \in [at -> 1 .. c]
    BY <1>1
  <2>2. \A i, j \in at : f[i] = f[j] => i = j
    BY <1>3
  <2> HIDE DEF f
  <2> QED
    BY <2>1, <2>2 DEF Injection, IsInjective
<1>5. IsFiniteSet(1 .. c) /\ Cardinality(1 .. c) = c
  BY <1>0, FS_Interval
<1>6. f \in Surjection(at, 1 .. c)
  <2> HIDE DEF f
  <2> QED
    BY <1>4, <1>5, FS_Injection
<1>7. \A k \in 1 .. c : \E i \in at : f[i] = k
  <2> HIDE DEF f
  <2> QED
    BY <1>6 DEF Surjection
<1> QED
  BY <1>1, <1>3, <1>7

\* What sequences are made of.
LEMMA Lists ==
    ASSUME NEW s, IsList(s)
    PROVE  Len(s) \in Nat /\ DOMAIN s = 1 .. Len(s) /\ (s # <<>> <=> Len(s) # 0)
BY LenProperties, EmptySeq DEF IsList

\* A function on 1 .. n is a list.
LEMMA FunctionLists ==
    ASSUME NEW n \in Nat, NEW s, s = [i \in 1 .. n |-> s[i]]
    PROVE  IsList(s) /\ Len(s) = n
<1>1. DOMAIN s = 1 .. n
  BY Zenon
<1>2. s \in Seq({s[i] : i \in DOMAIN s})
  BY <1>1
<1> QED
  BY <1>1, <1>2, LenProperties DEF IsList

\* What Append does.
LEMMA Appending ==
    ASSUME NEW s, IsList(s), NEW e
    PROVE  /\ IsList(Append(s, e)) /\ Len(Append(s, e)) = Len(s) + 1
           /\ DOMAIN Append(s, e) = 1 .. Len(s) + 1
           /\ \A i \in DOMAIN s : Append(s, e)[i] = s[i]
           /\ Append(s, e)[Len(s) + 1] = e
<1> DEFINE S == {s[i] : i \in DOMAIN s} \cup {e}
<1>1. s \in Seq(S)
  BY SeqMonotonic DEF IsList
<1>2. Len(s) \in Nat /\ DOMAIN s = 1 .. Len(s)
  BY Lists
<1> HIDE DEF S
<1>3. e \in S
  BY DEF S
<1>4. /\ Append(s, e) \in Seq(S) /\ Len(Append(s, e)) = Len(s) + 1
      /\ \A i \in 1 .. Len(s) : Append(s, e)[i] = s[i]
      /\ Append(s, e)[Len(s) + 1] = e
  BY <1>1, <1>3, AppendProperties
<1>5. DOMAIN Append(s, e) = 1 .. Len(s) + 1
  BY <1>4, LenProperties
<1>6. Append(s, e) = [i \in 1 .. Len(s) + 1 |-> Append(s, e)[i]]
  BY <1>4, LenProperties
<1>7. IsList(Append(s, e))
  BY <1>2, <1>6, FunctionLists
<1> QED
  BY <1>2, <1>4, <1>5, <1>7

\* What an element in front of a list does.
LEMMA Prepending ==
    ASSUME NEW s, IsList(s), NEW e
    PROVE  /\ IsList(<<e>> \o s) /\ Len(<<e>> \o s) = Len(s) + 1
           /\ DOMAIN (<<e>> \o s) = 1 .. Len(s) + 1
           /\ (<<e>> \o s)[1] = e
           /\ \A i \in DOMAIN s : (<<e>> \o s)[i + 1] = s[i]
<1> DEFINE S == {s[i] : i \in DOMAIN s} \cup {e}
           t == <<e>> \o s
<1>1. s \in Seq(S)
  BY SeqMonotonic DEF IsList
<1>2. Len(s) \in Nat /\ DOMAIN s = 1 .. Len(s)
  BY Lists
<1> HIDE DEF S
<1>3. <<e>> \in Seq(S) /\ Len(<<e>>) = 1 /\ <<e>>[1] = e
  BY DEF S
<1>4. /\ t \in Seq(S) /\ Len(t) = Len(s) + 1
      /\ \A i \in 1 .. 1 + Len(s) : t[i] = IF i <= 1 THEN <<e>>[i] ELSE s[i - 1]
  BY <1>1, <1>2, <1>3, ConcatProperties
<1> HIDE DEF t
<1>5. DOMAIN t = 1 .. Len(s) + 1 /\ t = [i \in 1 .. Len(s) + 1 |-> t[i]]
  BY <1>4, LenProperties
<1>6. IsList(t)
  BY <1>2, <1>5, FunctionLists
<1>7. t[1] = e /\ \A i \in DOMAIN s : t[i + 1] = s[i]
  BY <1>2, <1>3, <1>4
<1> QED
  BY <1>4, <1>5, <1>6, <1>7 DEF t

\* What Head and Tail do.
LEMMA Shortening ==
    ASSUME NEW s, IsList(s), s # <<>>
    PROVE  /\ Len(s) \in Nat \ {0} /\ DOMAIN s = 1 .. Len(s)
           /\ Head(s) = s[1]
           /\ IsList(Tail(s)) /\ Len(Tail(s)) = Len(s) - 1 /\ DOMAIN Tail(s) = 1 .. Len(s) - 1
           /\ \A i \in DOMAIN Tail(s) : Tail(s)[i] = s[i + 1]
           /\ Tail(s) # <<>> <=> Len(s) > 1
<1> DEFINE S == {s[i] : i \in DOMAIN s}
<1>1. s \in Seq(S)
  BY DEF IsList
<1>2. Len(s) \in Nat \ {0} /\ DOMAIN s = 1 .. Len(s)
  BY Lists
<1> HIDE DEF S
<1>3. /\ Tail(s) \in Seq(S) /\ Len(Tail(s)) = Len(s) - 1
      /\ \A i \in 1 .. Len(Tail(s)) : Tail(s)[i] = s[i + 1]
  BY <1>1, HeadTailProperties
<1>4. DOMAIN Tail(s) = 1 .. Len(s) - 1 /\ Tail(s) = [i \in 1 .. Len(s) - 1 |-> Tail(s)[i]]
  BY <1>2, <1>3, LenProperties
<1>5. IsList(Tail(s))
  <2>1. Len(s) - 1 \in Nat
    BY <1>2
  <2> QED
    BY <2>1, <1>4, FunctionLists
<1>6. Tail(s) # <<>> <=> Len(s) > 1
  <2>1. Tail(s) # <<>> <=> Len(Tail(s)) # 0
    BY <1>5, Lists
  <2> QED
    BY <1>2, <1>3, <2>1
<1>7. Head(s) = s[1]
  BY <1>1, <1>2
<1> QED
  BY <1>2, <1>3, <1>4, <1>5, <1>6, <1>7

\* What is picked of a list is a list: at each of its places is another of the
\* elements that were asked for, and all of these are there.
LEMMA Picking ==
    ASSUME NEW s, IsList(s), NEW at \in SUBSET DOMAIN s
    PROVE  /\ IsList(Picked(s, at)) /\ Len(Picked(s, at)) = Cardinality(at)
           /\ DOMAIN Picked(s, at) = 1 .. Cardinality(at)
           /\ \E f \in [1 .. Cardinality(at) -> at] :
                 /\ \A m, n \in 1 .. Cardinality(at) : f[m] = f[n] => m = n
                 /\ \A i \in at : \E n \in 1 .. Cardinality(at) : f[n] = i
                 /\ \A n \in 1 .. Cardinality(at) : Picked(s, at)[n] = s[f[n]]
<1> DEFINE c == Cardinality(at)
           f == [n \in 1 .. c |-> CHOOSE i \in at : Rank(at, i) = n]
<1>0. at \in SUBSET (1 .. Len(s)) /\ Len(s) \in Nat
  BY Lists
<1>1. c \in Nat
  BY <1>0, SomeFinite
<1>2. \A n \in 1 .. c : f[n] \in at /\ Rank(at, f[n]) = n
  BY <1>0, Ranks
<1>3. \A i \in at : Rank(at, i) \in 1 .. c /\ f[Rank(at, i)] = i
  BY <1>0, <1>2, Ranks
<1>4. f \in [1 .. c -> at]
  BY <1>2
<1>5. Picked(s, at) = [n \in 1 .. c |-> s[f[n]]]
  BY DEF Picked, Rank
<1> HIDE DEF c, f
<1>6. IsList(Picked(s, at)) /\ Len(Picked(s, at)) = c
  BY <1>1, <1>5 DEF IsList
<1>7. /\ \A m, n \in 1 .. c : f[m] = f[n] => m = n
      /\ \A i \in at : \E n \in 1 .. c : f[n] = i
      /\ \A n \in 1 .. c : Picked(s, at)[n] = s[f[n]]
  BY <1>2, <1>3, <1>5
<1>8. DOMAIN Picked(s, at) = 1 .. c
  BY <1>5
<1> QED
  BY <1>4, <1>6, <1>7, <1>8 DEF c

\* What is picked is of the elements that were asked for, each of them once.
LEMMA PickedFrom ==
    ASSUME NEW s, NEW at, IsList(s), at \in SUBSET DOMAIN s
    PROVE  /\ Cardinality(at) \in Nat
           /\ IsList(Picked(s, at)) /\ DOMAIN Picked(s, at) = 1 .. Cardinality(at)
           /\ \A n \in DOMAIN Picked(s, at) : \E i \in at : Picked(s, at)[n] = s[i]
           /\ \A i \in at : \E n \in DOMAIN Picked(s, at) : Picked(s, at)[n] = s[i]
           /\ (\A i, j \in DOMAIN s : s[i].id = s[j].id => i = j)
                  => \A m, n \in DOMAIN Picked(s, at) : Picked(s, at)[m].id = Picked(s, at)[n].id => m = n
<1>0. Cardinality(at) \in Nat
  BY Lists, SomeFinite
<1>1. PICK f \in [1 .. Cardinality(at) -> at] :
         /\ \A m, n \in 1 .. Cardinality(at) : f[m] = f[n] => m = n
         /\ \A i \in at : \E n \in 1 .. Cardinality(at) : f[n] = i
         /\ \A n \in 1 .. Cardinality(at) : Picked(s, at)[n] = s[f[n]]
  BY Picking
<1>2. IsList(Picked(s, at)) /\ DOMAIN Picked(s, at) = 1 .. Cardinality(at)
  BY Picking
<1>3. \A n \in 1 .. Cardinality(at) : f[n] \in at /\ f[n] \in DOMAIN s
  OBVIOUS
<1>4. \A i \in at : \E n \in DOMAIN Picked(s, at) : Picked(s, at)[n] = s[i]
  BY <1>1, <1>2
<1>5. \A n \in DOMAIN Picked(s, at) : \E i \in at : Picked(s, at)[n] = s[i]
  BY <1>1, <1>2, <1>3
<1>6. ASSUME \A i, j \in DOMAIN s : s[i].id = s[j].id => i = j
      PROVE  \A m, n \in DOMAIN Picked(s, at) : Picked(s, at)[m].id = Picked(s, at)[n].id => m = n
  BY <1>1, <1>2, <1>3, <1>6
<1> QED
  BY <1>0, <1>2, <1>4, <1>5, <1>6

-----------------------------------------------------------------------------
(* Types.                                                                  *)

Recording == {"create", "import", "connect"}

\* Where a request of each kind may be.
Stages(kind) ==
    CASE kind = "create"   -> {"account", "open", "average", "insert", "publish", "list", "run", "done", "failed"}
      [] kind = "import"   -> {"account", "open", "average", "insert", "list", "run", "announce", "done", "failed"}
      [] kind = "connect"  -> {"account", "open", "link", "average", "insert", "list", "run", "stamp", "announce",
                               "done", "failed"}
      [] kind = "define"   -> {"define", "announce", "done", "failed"}
      [] kind = "automate" -> {"purge", "replace", "done", "failed"}

\* What is known of a writer: it has a row in hand wherever it needs one.
WriterTyped(w) ==
    /\ DOMAIN write[w] = {"stage", "job", "left", "average", "pending", "count", "before"}
    /\ Entries(write[w].left) /\ write[w].count \in Nat
    /\ ~At(w, "idle") => write[w].job \in Jobs /\ write[w].stage \in Stages(Kind(w))
    /\ write[w].stage \in {"account", "open", "link"} => write[w].left = Source(write[w].job)
    /\ write[w].stage \in {"average", "insert", "publish", "list", "run"} => write[w].left # <<>>
    /\ At(w, "insert") => Head(write[w].left).direction \in {"inflow", "outflow"}
    /\ write[w].stage \notin {"idle", "done", "failed"} /\ Kind(w) = "create" => Len(write[w].left) = 1

ReaderTyped(q) ==
    /\ DOMAIN read[q] = {"stage", "plan", "blueprint", "moments"}
    /\ read[q].stage \in {"idle", "account", "open", "reading", "done", "failed"}

Typed ==
    /\ account \in BOOLEAN
    /\ IsList(ledger) /\ \A i \in DOMAIN ledger : Constrained(ledger[i]) /\ ledger[i].at <= month
    /\ IsList(events) /\ \A i \in DOMAIN events : events[i][2] \in Writers \cup Readers
    /\ link \in [status : {"none", "connected"}, synced : BOOLEAN]
    /\ month \in 0 .. MaxMonths
    /\ DOMAIN write = Writers /\ \A w \in Writers : WriterTyped(w)
    /\ DOMAIN read = Readers /\ \A q \in Readers : ReaderTyped(q)

-----------------------------------------------------------------------------
(* Imports.                                                                *)

\* What a writer has left is what follows on what it has recorded; from the INSERT
\* until its automations have run, the row it has just recorded is still in hand.
InHand(w) == write[w].stage \in {"publish", "list", "run"}
Rest(w) ==
    LET all == Source(write[w].job)
        n   == Cardinality(RowsOf(w)) - IF InHand(w) THEN 1 ELSE 0
    IN  /\ n \in Nat /\ Len(write[w].left) = Len(all) - n
        /\ \A k \in DOMAIN write[w].left : write[w].left[k] = all[n + k]

Prefix(w) ==
    LET all == Source(write[w].job)
    IN  /\ Cardinality(RowsOf(w)) <= Len(all)
        /\ \A i \in RowsOf(w) : /\ ledger[i].direction = all[Place(w, i)].direction
                               /\ ledger[i].amount = all[Place(w, i)].amount

Booked(w) ==
    IF At(w, "idle") \/ Kind(w) \notin Recording THEN RowsOf(w) = {}
    ELSE /\ Prefix(w) /\ write[w].count = Cardinality(RowsOf(w))
         /\ write[w].stage \in {"account", "open", "link"} => RowsOf(w) = {}
         /\ write[w].stage \notin {"stamp", "announce", "done", "failed"} => Rest(w)
         /\ write[w].stage \in {"stamp", "announce", "done"} =>
                Cardinality(RowsOf(w)) = Len(Source(write[w].job))

\* Whoever has published is past its rows, and its event counts them all.
Published ==
    \A i \in DOMAIN events : events[i][2] \in Writers =>
        LET w == events[i][2]
        IN  /\ ~At(w, "idle")
            /\ Kind(w) \in {"import", "connect"} => At(w, "done") /\ events[i][3] = Len(Source(write[w].job))

Synced ==
    link.synced => \E w \in Writers : /\ write[w].stage \in {"announce", "done", "failed"} /\ Kind(w) = "connect"
                                      /\ Cardinality(RowsOf(w)) = Len(History)

Books == /\ \A w \in Writers : Booked(w)
         /\ Published /\ Synced

-----------------------------------------------------------------------------
(* Automations.                                                            *)

\* An id that stands for a definition, now or once: not of a request that is still
\* to store one.
Made(id) == id \in Writers => write[id].stage \in {"announce", "done", "failed"}

Definitions ==
    /\ IsList(defs)
    /\ \A i, j \in DOMAIN defs : defs[i].id = defs[j].id => i = j
    /\ \A i \in DOMAIN defs : Made(defs[i].id)

RunsBacked ==
    \A k \in DOMAIN runs :
        /\ runs[k] = 1 /\ k[2] \in DOMAIN ledger
        /\ \E n \in DOMAIN defs : defs[n].id = k[1] /\ Applies(defs[n], ledger[k[2]])

\* What a writer knows of the definitions: those that stood before it, and those it
\* is to run, which are as they were listed for as long as they stand.
Known(w) ==
    /\ \A id \in write[w].before : Made(id)
    /\ IsList(write[w].pending)
    /\ LET pending == write[w].pending
       IN  /\ \A i, j \in DOMAIN pending : pending[i].id = pending[j].id => i = j
           /\ \A j \in DOMAIN pending :
                 /\ Made(pending[j].id)
                 /\ pending[j].id \in Ids => \E n \in DOMAIN defs : defs[n] = pending[j]

\* What has run on its rows, and what is still to run on the row in hand.
Ran(w, i) == \A n \in DOMAIN defs : defs[n].id \in write[w].before /\ Applies(defs[n], ledger[i])
                                       => BagIn(<<defs[n].id, i>>, runs)
Running(w) ==
    LET i == Current(w)
        pending == write[w].pending
    IN  /\ RowsOf(w) # {}
        /\ At(w, "run") =>
              /\ pending # <<>>
              /\ \A j \in DOMAIN pending : Applies(pending[j], ledger[i]) /\ ~BagIn(<<pending[j].id, i>>, runs)
              /\ \A n \in DOMAIN defs : defs[n].id \in write[w].before /\ Applies(defs[n], ledger[i])
                     => BagIn(<<defs[n].id, i>>, runs) \/ \E j \in DOMAIN pending : pending[j] = defs[n]
        /\ ~At(w, "run") => \A k \in DOMAIN runs : k[2] # i

Automated(w) ==
    /\ Known(w)
    /\ \A i \in Settled(w) : Ran(w, i)
    /\ InHand(w) => Running(w)

Runs == /\ Definitions /\ RunsBacked
        /\ \A w \in Writers : Automated(w)

-----------------------------------------------------------------------------
(* Flags.                                                                  *)

\* The row before which a writer read nothing it still holds.
Base(rows) == IF rows = {} THEN 0 ELSE Max(rows)
Then(rows) == IF rows = {} THEN 0 ELSE ledger[Max(rows)].at

\* The average that a writer holds is of some ledger since its previous row.
Averaged(w) ==
    At(w, "insert") =>
        \E k \in Base(RowsOf(w)) .. Len(ledger), m \in Then(RowsOf(w)) .. month :
            write[w].average = RecentAverage(SubSeq(ledger, 1, k), m)

Flags == FlagsHonest /\ \A w \in Writers : Averaged(w)

-----------------------------------------------------------------------------
(* Proofs: types.                                                          *)

\* The rows a request is to record are entries; one that is recorded by hand is one.
LEMMA SourceTyped ==
    ASSUME NEW job \in Jobs
    PROVE  Entries(Source(job)) /\ (job.kind = "create" => Len(Source(job)) = 1)
<1>1. CASE job.kind = "create"
  <2>1. Source(job) = <<job.row>> /\ IsEntry(job.row)
    BY <1>1, JobsAssumption DEF Source
  <2>2. PICK s : s = <<job.row>>
    OBVIOUS
  <2>3. s \in Seq({s[i] : i \in DOMAIN s}) /\ Len(s) = 1 /\ DOMAIN s = 1 .. 1 /\ s[1] = job.row
    BY <2>2
  <2> QED
    BY <2>1, <2>2, <2>3 DEF Entries, IsList
<1>2. CASE job.kind = "import"
  <2> DEFINE file == job.file
             lines == [i \in DOMAIN file.lines |-> ParseRow(file.lines[i])]
             at == {i \in DOMAIN lines : lines[i].ok}
             good == Picked(lines, at)
             rows == [i \in DOMAIN good |-> good[i].row]
  <2>1. Len(file.lines) \in Nat /\ DOMAIN file.lines = 1 .. Len(file.lines)
    BY <1>2, JobsAssumption, Lists
  <2>2. \A i \in DOMAIN file.lines : file.lines[i].amount \in Int /\ file.lines[i].age \in Int
    BY <1>2, JobsAssumption
  <2>3. IsList(lines) /\ \A i \in DOMAIN lines : IsEntry(lines[i].row)
    <3>1. \A i \in DOMAIN lines : lines[i] = ParseRow(file.lines[i])
      OBVIOUS
    <3>2. ASSUME NEW i \in DOMAIN lines PROVE IsEntry(ParseRow(file.lines[i]).row)
      <4>1. PICK raw : raw = file.lines[i] /\ raw.amount \in Int /\ raw.age \in Int
        BY <2>2
      <4>2. PICK amount \in Int : amount = IF raw.amount < 0 THEN -raw.amount ELSE raw.amount
        BY <4>1
      <4>3. ParseRow(raw).row.amount = amount /\ ParseRow(raw).row.age = raw.age
        BY <4>2 DEF ParseRow
      <4>4. DOMAIN ParseRow(raw).row = {"direction", "amount", "description", "counterparty", "age", "category"}
        BY DEF ParseRow
      <4> QED
        BY <4>1, <4>2, <4>3, <4>4 DEF IsEntry
    <3>3. IsList(lines)
      BY <2>1 DEF IsList
    <3> QED
      BY <3>1, <3>2, <3>3
  <2>4. at \in SUBSET DOMAIN lines
    OBVIOUS
  <2> HIDE DEF lines, at
  <2>5. /\ DOMAIN good = 1 .. Cardinality(at) /\ Cardinality(at) \in Nat
        /\ \A n \in DOMAIN good : \E i \in DOMAIN lines : good[n] = lines[i]
    BY <2>3, <2>4, PickedFrom
  <2> HIDE DEF good
  <2>6. Entries(rows)
    <3>1. \A i \in DOMAIN rows : IsEntry(rows[i])
      BY <2>3, <2>5
    <3>2. IsList(rows)
      BY <2>5 DEF IsList
    <3> QED
      BY <3>1, <3>2 DEF Entries
  <2>7. Entries(<<>>)
    BY EmptySeq DEF Entries, IsList
  <2>8. Parse(file).rows = IF ~file.header THEN <<>> ELSE rows
    BY DEF Parse, rows, good, at, lines
  <2> HIDE DEF rows
  <2> QED
    BY <1>2, <2>6, <2>7, <2>8 DEF Source
<1>3. CASE job.kind = "connect"
  BY <1>3, JobsAssumption DEF Source
<1>4. CASE job.kind \in {"define", "automate"}
  BY <1>4, EmptySeq DEF Source, Entries, IsList
<1> QED
  BY <1>1, <1>2, <1>3, <1>4, JobsAssumption

\* A step of a writer is its own: what it was asked and when it began stay.
Own(w) == /\ DOMAIN write' = Writers /\ \A x \in Writers \ {w} : write'[x] = write[x]
          /\ DOMAIN write'[w] = {"stage", "job", "left", "average", "pending", "count", "before"}
Turned(w) == /\ Own(w)
             /\ write'[w].job = write[w].job /\ write'[w].before = write[w].before

\* A writer that goes on to a stage keeps everything else.
LEMMA Going ==
    ASSUME Typed, NEW w \in Writers, NEW stage, Go(w, stage)
    PROVE  /\ Turned(w) /\ write'[w].stage = stage
           /\ write'[w].left = write[w].left /\ write'[w].average = write[w].average
           /\ write'[w].pending = write[w].pending /\ write'[w].count = write[w].count
BY DEF Typed, WriterTyped, Go, Turned, Own

Handler(w) ==
    \/ FindAccount(w) \/ OpenAccount(w) \/ Link(w)
    \/ Average(w) \/ Insert(w) \/ PublishRow(w) \/ ListDefinitions(w) \/ Run(w)
    \/ Stamp(w) \/ Define(w) \/ Announce(w) \/ Purge(w) \/ Replace(w) \/ Fail(w)

\* No handler changes what another writer is doing.
LEMMA Turning ==
    ASSUME Typed, NEW w \in Writers, Handler(w)
    PROVE  Turned(w)
<1>1. CASE FindAccount(w) \/ OpenAccount(w) \/ Link(w) \/ PublishRow(w) \/ Stamp(w) \/ Define(w) \/ Announce(w)
           \/ Purge(w) \/ Replace(w) \/ Fail(w)
  <2>1. \E stage : Go(w, stage)
    BY <1>1 DEF FindAccount, OpenAccount, Link, PublishRow, Stamp, Define, Announce, Purge, Replace, Fail
  <2> QED
    BY <2>1, Going
<1>2. CASE Average(w)
  BY <1>2, Going DEF Average, Typed, WriterTyped, Turned, Own
<1>3. CASE Insert(w)
  BY <1>3, Going DEF Insert, Typed, WriterTyped, Turned, Own
<1>4. CASE ListDefinitions(w)
  BY <1>4 DEF ListDefinitions, Typed, WriterTyped, Turned, Own
<1>5. CASE Run(w)
  BY <1>5, Going DEF Run, Typed, WriterTyped, Turned, Own
<1> QED
  BY <1>1, <1>2, <1>3, <1>4, <1>5 DEF Handler

\* Only the writer that steps has to be looked at.
LEMMA OthersTyped ==
    ASSUME Typed, NEW w \in Writers, Own(w), WriterTyped(w)'
    PROVE  DOMAIN write' = Writers /\ \A x \in Writers : WriterTyped(x)'
<1> SUFFICES ASSUME NEW x \in Writers, x # w PROVE WriterTyped(x)'
  BY DEF Own
<1>1. write'[x] = write[x] /\ WriterTyped(x)
  BY DEF Own, Typed
<1> QED
  BY <1>1 DEF WriterTyped, At, Kind

\* A writer that goes on to a stage of its kind, with a row in hand where the stage
\* needs one.
LEMMA Steered ==
    ASSUME Typed, NEW w \in Writers, NEW stage, Go(w, stage),
           write[w].stage \notin {"idle", "done", "failed"}, stage \in Stages(Kind(w)),
           stage \in {"average", "publish", "list", "run"} => write[w].left # <<>>,
           stage \in {"open", "link"} => write[w].stage \in {"account", "open"},
           stage \notin {"account", "insert"}
    PROVE  DOMAIN write' = Writers /\ \A x \in Writers : WriterTyped(x)'
<1>1. WriterTyped(w)
  BY DEF Typed
<1>2. /\ Turned(w) /\ write'[w].stage = stage
      /\ write'[w].left = write[w].left /\ write'[w].count = write[w].count
  BY Going
<1>3. WriterTyped(w)'
  BY <1>1, <1>2 DEF WriterTyped, At, Kind, Turned, Own
<1> QED
  BY <1>2, <1>3, OthersTyped DEF Turned

\* Where a handler that has its account goes is of its kind.
LEMMA AccountedTyped ==
    ASSUME Typed, NEW w \in Writers, write[w].stage \in {"account", "open"}
    PROVE  /\ Accounted(w) \in Stages(Kind(w)) /\ Accounted(w) \in {"link", "announce", "average"}
           /\ Accounted(w) = "average" => write[w].left # <<>>
<1>1. WriterTyped(w) /\ write[w].stage \in Stages(Kind(w)) /\ write[w].job \in Jobs
  BY DEF Typed, WriterTyped, At
<1>2. Kind(w) \in {"create", "import", "connect", "define", "automate"}
  BY <1>1, JobsAssumption DEF Kind
<1>3. Kind(w) \in {"create", "import", "connect"}
  BY <1>1, <1>2 DEF Stages
<1>4. ASSUME Kind(w) = "create" PROVE write[w].left # <<>>
  <2>1. Len(write[w].left) = 1 /\ IsList(write[w].left)
    BY <1>1, <1>4 DEF WriterTyped, Entries
  <2>2. write[w].left # <<>> <=> Len(write[w].left) # 0
    BY <2>1, Lists
  <2> QED
    BY <2>1, <2>2
<1>5. CASE Kind(w) = "connect"
  BY <1>5 DEF Accounted, Stages
<1>6. CASE Kind(w) # "connect" /\ write[w].left = <<>>
  <2>1. Accounted(w) = "announce" /\ Kind(w) = "import"
    BY <1>3, <1>4, <1>6 DEF Accounted
  <2> QED
    BY <2>1 DEF Stages
<1>7. CASE Kind(w) # "connect" /\ write[w].left # <<>>
  <2>1. Accounted(w) = "average"
    BY <1>7 DEF Accounted
  <2> QED
    BY <2>1, <1>3, <1>7 DEF Stages
<1> QED
  BY <1>5, <1>6, <1>7

\* Behind the automations of a row is another of the rows, or the end.
LEMMA NextTyped ==
    ASSUME Typed, NEW w \in Writers, write[w].stage \in {"list", "run"}
    PROVE  /\ NextRow(w) \in Stages(Kind(w)) /\ NextRow(w) \in {"average", "done", "stamp", "announce"}
           /\ Entries(Tail(write[w].left))
           /\ NextRow(w) = "average" <=> Tail(write[w].left) # <<>>
           /\ Kind(w) = "create" => NextRow(w) = "done"
           /\ NextRow(w) = "stamp" => Kind(w) = "connect"
           /\ NextRow(w) = "announce" => Kind(w) = "import"
<1>1. WriterTyped(w) /\ write[w].stage \in Stages(Kind(w)) /\ write[w].job \in Jobs
  BY DEF Typed, WriterTyped, At
<1>2. Kind(w) \in {"create", "import", "connect", "define", "automate"}
  BY <1>1, JobsAssumption DEF Kind
<1>3. Kind(w) \in {"create", "import", "connect"}
  BY <1>1, <1>2 DEF Stages
<1>4. IsList(write[w].left) /\ write[w].left # <<>> /\ \A i \in DOMAIN write[w].left : IsEntry(write[w].left[i])
  BY <1>1 DEF WriterTyped, Entries
<1>5. Kind(w) = "create" => Len(write[w].left) = 1
  BY <1>1 DEF WriterTyped
<1>6. Entries(Tail(write[w].left)) /\ (Tail(write[w].left) # <<>> <=> Len(write[w].left) > 1)
  <2>1. \A i \in DOMAIN Tail(write[w].left) : IsEntry(Tail(write[w].left)[i])
    <3>1. \A i \in DOMAIN Tail(write[w].left) :
             i + 1 \in DOMAIN write[w].left /\ Tail(write[w].left)[i] = write[w].left[i + 1]
      BY <1>4, Shortening
    <3> QED
      BY <1>4, <3>1
  <2> QED
    BY <2>1, <1>4, Shortening DEF Entries
<1>7. CASE Len(write[w].left) > 1
  <2>1. NextRow(w) = "average"
    BY <1>7 DEF NextRow
  <2>2. Kind(w) # "create"
    <3> SUFFICES ASSUME Kind(w) = "create" PROVE FALSE
      OBVIOUS
    <3>1. Len(write[w].left) = 1
      BY <1>5
    <3> QED
      BY <3>1, <1>7
  <2> QED
    BY <2>1, <2>2, <1>3, <1>6, <1>7 DEF Stages
<1>8. CASE ~(Len(write[w].left) > 1) /\ Kind(w) = "create"
  BY <1>8, <1>6 DEF NextRow, Stages
<1>9. CASE ~(Len(write[w].left) > 1) /\ Kind(w) = "connect"
  BY <1>9, <1>6 DEF NextRow, Stages
<1>10. CASE ~(Len(write[w].left) > 1) /\ Kind(w) = "import"
  BY <1>10, <1>6 DEF NextRow, Stages
<1> QED
  BY <1>3, <1>7, <1>8, <1>9, <1>10

\* A row of a known direction and a positive amount passes the table's constraints.
LEMMA RecordedTyped ==
    ASSUME Typed, NEW w \in Writers, At(w, "insert"), Recorded(w).amount > 0
    PROVE  /\ Constrained(Recorded(w)) /\ Recorded(w).by = w /\ Recorded(w).at = month
           /\ Recorded(w).direction = Head(write[w].left).direction
           /\ Recorded(w).amount = Head(write[w].left).amount
<1> DEFINE e == Head(write[w].left)
<1>1. IsEntry(e) /\ e.direction \in {"inflow", "outflow"} /\ month \in 0 .. MaxMonths
  <2>1. IsList(write[w].left) /\ write[w].left # <<>> /\ \A i \in DOMAIN write[w].left : IsEntry(write[w].left[i])
    BY DEF Typed, WriterTyped, Entries, At
  <2>2. IsEntry(e)
    BY <2>1, Shortening
  <2> QED
    BY <2>2 DEF Typed, WriterTyped, At
<1>2. Categorize(e.description) # Null
  <2> DEFINE hits == {i \in DOMAIN Keywords : Keywords[i][2] \cap e.description # {}}
  <2>1. hits \in SUBSET (1 .. 8)
    <3>1. DOMAIN Keywords = 1 .. 8
      BY DEF Keywords
    <3> QED
      BY <3>1
  <2>2. CASE hits = {}
    BY <2>2, CategoriesAssumption DEF Categorize
  <2>3. CASE hits # {}
    <3>1. Min(hits) \in hits
      <4> HIDE DEF hits
      <4> QED
        BY <2>1, <2>3, Least
    <3>2. Min(hits) \in DOMAIN Keywords
      BY <3>1
    <3>3. Categorize(e.description) = Keywords[Min(hits)][1]
      BY <2>3 DEF Categorize
    <3> HIDE DEF hits
    <3> QED
      BY <3>2, <3>3, CategoriesAssumption
  <2> QED
    BY <2>2, <2>3
<1> DEFINE category == IF e.category = Null THEN Categorize(e.description) ELSE e.category
           anomaly == Flagged(e.direction, e.amount, write[w].average)
<1>3. category # Null
  BY <1>2
<1>4. anomaly \in BOOLEAN
  BY DEF Flagged
<1>5. Recorded(w) = [direction |-> e.direction, amount |-> e.amount, category |-> category,
                     counterparty |-> e.counterparty, anomaly |-> anomaly,
                     month |-> month - e.age, at |-> month, by |-> w]
  BY DEF Recorded
<1> HIDE DEF category, anomaly, e
<1>6. e.amount \in Int /\ month - e.age \in Int
  BY <1>1, BooksAssumption DEF IsEntry
<1>7. PICK r : r = Recorded(w)
  OBVIOUS
<1>8. /\ r.direction = e.direction /\ r.amount = e.amount /\ r.category = category /\ r.anomaly = anomaly
      /\ r.month = month - e.age /\ r.at = month /\ r.by = w
      /\ DOMAIN r = {"direction", "amount", "category", "counterparty", "anomaly", "month", "at", "by"}
  BY <1>5, <1>7
<1>9. r.amount \in Nat \ {0}
  BY <1>6, <1>7, <1>8
<1>10. Constrained(r)
  BY <1>1, <1>3, <1>4, <1>6, <1>8, <1>9 DEF Constrained
<1> QED
  BY <1>7, <1>8, <1>10 DEF e

\* Nothing has been asked.
LEMMA TypedInit == Init => Typed
<1> SUFFICES ASSUME Init PROVE Typed
  OBVIOUS
<1>1. IsList(<<>>) /\ DOMAIN <<>> = {} /\ \A e \in {<<>>} : Entries(e)
  BY EmptySeq DEF IsList, Entries
<1>2. ASSUME NEW w \in Writers PROVE WriterTyped(w)
  <2>1. write[w] = IdleWriter
    BY DEF Init
  <2> QED
    BY <1>1, <2>1 DEF IdleWriter, WriterTyped, At
<1>3. \A q \in Readers : ReaderTyped(q)
  BY DEF Init, IdleReader, ReaderTyped
<1>4. month \in 0 .. MaxMonths
  BY BooksAssumption DEF Init
<1> QED
  BY <1>1, <1>2, <1>3, <1>4 DEF Init, Typed

\* What a step of a writer leaves of the company's types when it changes no table.
Quiet == UNCHANGED <<account, ledger, events, link, month, read>>

\* A request that arrives has its rows in hand.
LEMMA TypedBegin ==
    ASSUME Typed, NEW w \in Writers, NEW job \in Jobs, Begin(w, job)
    PROVE  Typed'
<1>1. WriterTyped(w) /\ At(w, "idle")
  BY DEF Typed, Begin
<1>2. Own(w) /\ write'[w].job = job /\ write'[w].left = Source(job) /\ write'[w].count = 0
  BY DEF Begin, Own, Typed
<1>3. write'[w].stage = IF job.kind = "import" /\ Parse(job.file).raises THEN "failed"
                        ELSE CASE job.kind \in {"create", "import", "connect"} -> "account"
                               [] job.kind = "define"   -> "define"
                               [] job.kind = "automate" -> "purge"
  BY DEF Begin, Typed
<1>4. job.kind \in {"create", "import", "connect", "define", "automate"}
  BY JobsAssumption
<1>5. write'[w].stage \in Stages(job.kind) /\ write'[w].stage \in {"account", "define", "purge", "failed"}
  <2>1. CASE job.kind \in {"create", "connect"}
    BY <1>3, <2>1 DEF Stages
  <2>2. CASE job.kind = "import"
    BY <1>3, <2>2 DEF Stages
  <2>3. CASE job.kind \in {"define", "automate"}
    BY <1>3, <2>3 DEF Stages
  <2> QED
    BY <1>4, <2>1, <2>2, <2>3
<1>6. Entries(Source(job)) /\ (job.kind = "create" => Len(Source(job)) = 1)
  BY SourceTyped
<1>7. WriterTyped(w)'
  BY <1>2, <1>5, <1>6 DEF WriterTyped, At, Kind, Own
<1>8. DOMAIN write' = Writers /\ \A x \in Writers : WriterTyped(x)'
  BY <1>2, <1>7, OthersTyped
<1>9. Quiet
  BY DEF Begin, Quiet
<1> QED
  BY <1>8, <1>9 DEF Typed, Quiet, ReaderTyped, Constrained

\* Where a writer is says what it was asked.
LEMMA KindAt ==
    ASSUME Typed, NEW w \in Writers, ~At(w, "idle")
    PROVE  /\ WriterTyped(w) /\ write[w].stage \in Stages(Kind(w)) /\ write[w].job \in Jobs
           /\ Kind(w) \in {"create", "import", "connect", "define", "automate"}
           /\ write[w].stage \in {"account", "open", "average", "insert", "publish", "list", "run", "link", "stamp"}
                  => Kind(w) \in {"create", "import", "connect"}
           /\ write[w].stage \in {"link", "stamp"} => Kind(w) = "connect"
           /\ At(w, "publish") => Kind(w) = "create"
           /\ At(w, "announce") => Kind(w) \in {"import", "connect", "define"}
           /\ At(w, "define") => Kind(w) = "define"
           /\ write[w].stage \in {"purge", "replace"} => Kind(w) = "automate"
<1>1. WriterTyped(w) /\ write[w].stage \in Stages(Kind(w)) /\ write[w].job \in Jobs
  BY DEF Typed, WriterTyped
<1>2. Kind(w) \in {"create", "import", "connect", "define", "automate"}
  BY <1>1, JobsAssumption DEF Kind
<1> QED
  BY <1>1, <1>2 DEF Stages, At

\* An event is of whoever publishes it.
LEMMA PublishTyped ==
    ASSUME Typed, NEW x \in Writers \cup Readers, NEW name, NEW number, Publish(x, name, number)
    PROVE  /\ IsList(events') /\ DOMAIN events' = 1 .. Len(events) + 1
           /\ \A i \in DOMAIN events' : events'[i][2] \in Writers \cup Readers
           /\ \A i \in DOMAIN events : events'[i] = events[i]
           /\ events'[Len(events) + 1] = <<name, x, number>>
           /\ Len(events) \in Nat /\ DOMAIN events = 1 .. Len(events)
<1>1. IsList(events) /\ \A i \in DOMAIN events : events[i][2] \in Writers \cup Readers
  BY DEF Typed
<1>2. Len(events) \in Nat /\ DOMAIN events = 1 .. Len(events)
  BY <1>1, Lists
<1>3. /\ IsList(events') /\ DOMAIN events' = 1 .. Len(events) + 1
      /\ \A i \in DOMAIN events : events'[i] = events[i]
      /\ events'[Len(events) + 1] = <<name, x, number>>
  BY <1>1, Appending DEF Publish
<1>4. events'[Len(events) + 1][2] = x
  BY <1>3
<1>5. \A i \in DOMAIN events' : events'[i][2] \in Writers \cup Readers
  <2>1. \A i \in DOMAIN events' : i \in DOMAIN events \/ i = Len(events) + 1
    BY <1>2, <1>3
  <2> QED
    BY <1>1, <1>3, <1>4, <2>1
<1> QED
  BY <1>2, <1>3, <1>5

\* A writer that goes on with the automations of a row, or from it to the next.
LEMMA RowDone ==
    ASSUME Typed, NEW w \in Writers, write[w].stage \in {"list", "run"}, NEW over \in BOOLEAN,
           Turned(w), write'[w].count = write[w].count,
           write'[w].stage = IF over THEN NextRow(w) ELSE "run",
           write'[w].left = IF over THEN Tail(write[w].left) ELSE write[w].left
    PROVE  WriterTyped(w)'
<1>0. WriterTyped(w) /\ "run" \in Stages(Kind(w))
  BY KindAt DEF Typed, Stages, At
<1>1. CASE over
  BY <1>0, <1>1, NextTyped DEF WriterTyped, At, Kind, Turned, Own
<1>2. CASE ~over
  BY <1>0, <1>2 DEF WriterTyped, At, Kind, Turned, Own
<1> QED
  BY <1>1, <1>2

\* Each statement of a handler keeps the types.
LEMMA TypedHandler ==
    ASSUME Typed, NEW w \in Writers, Handler(w)
    PROVE  Typed'
<1> USE DEF At
<1>0. WriterTyped(w)
  BY DEF Typed
<1>1. CASE FindAccount(w)
  <2>1. write[w].stage = "account" /\ Quiet
    BY <1>1 DEF FindAccount, Quiet
  <2>2. "open" \in Stages(Kind(w))
    BY <2>1, KindAt DEF Stages
  <2>3. DOMAIN write' = Writers /\ \A x \in Writers : WriterTyped(x)'
    <3>1. CASE account
      BY <1>1, <2>1, <3>1, AccountedTyped, Steered DEF FindAccount
    <3>2. CASE ~account
      BY <1>1, <2>1, <2>2, <3>2, Steered DEF FindAccount
    <3> QED
      BY <3>1, <3>2
  <2> QED
    BY <2>1, <2>3 DEF Typed, Quiet, ReaderTyped, Constrained
<1>2. CASE OpenAccount(w)
  <2>1. write[w].stage = "open" /\ UNCHANGED <<ledger, events, link, month, read>> /\ account' \in BOOLEAN
    BY <1>2 DEF OpenAccount
  <2>2. "failed" \in Stages(Kind(w))
    BY <2>1, KindAt DEF Stages
  <2>3. DOMAIN write' = Writers /\ \A x \in Writers : WriterTyped(x)'
    <3>1. CASE account
      BY <1>2, <2>1, <2>2, <3>1, Steered DEF OpenAccount
    <3>2. CASE ~account
      BY <1>2, <2>1, <3>2, AccountedTyped, Steered DEF OpenAccount
    <3> QED
      BY <3>1, <3>2
  <2> QED
    BY <2>1, <2>3 DEF Typed, ReaderTyped, Constrained
<1>3. CASE Link(w)
  <2>1. write[w].stage = "link" /\ UNCHANGED <<account, ledger, events, month, read>>
    BY <1>3 DEF Link
  <2>2. Kind(w) = "connect" /\ {"average", "stamp"} \subseteq Stages(Kind(w))
    BY <2>1, KindAt DEF Stages
  <2>3. link' \in [status : {"none", "connected"}, synced : BOOLEAN]
    BY <1>3 DEF Link, Typed
  <2>4. write[w].left = History
    BY <1>0, <2>1, <2>2 DEF WriterTyped, Source, Kind
  <2>5. DOMAIN write' = Writers /\ \A x \in Writers : WriterTyped(x)'
    <3>1. CASE History = <<>>
      BY <1>3, <2>1, <2>2, <3>1, Steered DEF Link
    <3>2. CASE History # <<>>
      BY <1>3, <2>1, <2>2, <2>4, <3>2, Steered DEF Link
    <3> QED
      BY <3>1, <3>2
  <2> QED
    BY <2>1, <2>3, <2>5 DEF Typed, ReaderTyped, Constrained
<1>4. CASE Average(w)
  <2>1. write[w].stage = "average" /\ Quiet
    BY <1>4 DEF Average, Quiet
  <2>2. {"insert", "failed"} \subseteq Stages(Kind(w))
    BY <2>1, KindAt DEF Stages
  <2>3. DOMAIN write' = Writers /\ \A x \in Writers : WriterTyped(x)'
    <3>1. CASE Head(write[w].left).direction \in {"inflow", "outflow"}
      <4>1. /\ Turned(w) /\ write'[w].stage = "insert"
            /\ write'[w].left = write[w].left /\ write'[w].count = write[w].count
        BY <1>4, <3>1, <1>0 DEF Average, Typed, WriterTyped, Turned, Own
      <4>2. WriterTyped(w)'
        BY <1>0, <2>1, <2>2, <3>1, <4>1 DEF WriterTyped, Kind, Turned, Own
      <4> QED
        BY <4>1, <4>2, OthersTyped DEF Turned
    <3>2. CASE Head(write[w].left).direction \notin {"inflow", "outflow"}
      BY <1>4, <2>1, <2>2, <3>2, Steered DEF Average
    <3> QED
      BY <3>1, <3>2
  <2> QED
    BY <2>1, <2>3 DEF Typed, Quiet, ReaderTyped, Constrained
<1>5. CASE Insert(w)
  <2>1. write[w].stage = "insert" /\ UNCHANGED <<account, events, link, month, read>>
    BY <1>5 DEF Insert
  <2>2. /\ {"list", "failed"} \subseteq Stages(Kind(w))
        /\ Kind(w) = "create" => "publish" \in Stages(Kind(w))
    BY <2>1, KindAt DEF Stages
  <2>3. CASE Recorded(w).amount > 0
    <3>1. ledger' = Append(ledger, Recorded(w))
      BY <1>5, <2>3 DEF Insert
    <3>2. /\ Turned(w) /\ write'[w].stage = (IF Kind(w) = "create" THEN "publish" ELSE "list")
          /\ write'[w].left = write[w].left /\ write'[w].count = write[w].count + 1
      BY <1>5, <2>3, <1>0 DEF Insert, Typed, WriterTyped, Turned, Own
    <3>3. write'[w].count \in Nat
      BY <1>0, <3>2 DEF WriterTyped
    <3>4. WriterTyped(w)'
      BY <1>0, <2>1, <2>2, <3>2, <3>3 DEF WriterTyped, Kind, Turned, Own
    <3>5. DOMAIN write' = Writers /\ \A x \in Writers : WriterTyped(x)'
      BY <3>2, <3>4, OthersTyped DEF Turned
    <3>6. IsList(ledger') /\ \A i \in DOMAIN ledger' : Constrained(ledger'[i]) /\ ledger'[i].at <= month
      <4>1. IsList(ledger) /\ \A i \in DOMAIN ledger : Constrained(ledger[i]) /\ ledger[i].at <= month
        BY DEF Typed
      <4>2. Constrained(Recorded(w)) /\ Recorded(w).at <= month
        <5>1. month \in Int
          BY BooksAssumption DEF Typed
        <5> QED
          BY <2>1, <2>3, <5>1, RecordedTyped
      <4>3. \A i \in DOMAIN ledger' : i \in DOMAIN ledger \/ i = Len(ledger) + 1
        BY <3>1, <4>1, Appending, Lists
      <4> QED
        BY <3>1, <4>1, <4>2, <4>3, Appending
    <3> QED
      BY <2>1, <3>5, <3>6 DEF Typed, ReaderTyped, Constrained
  <2>4. CASE ~(Recorded(w).amount > 0)
    <3>1. ledger' = ledger /\ Go(w, "failed")
      BY <1>5, <2>4 DEF Insert
    <3>2. DOMAIN write' = Writers /\ \A x \in Writers : WriterTyped(x)'
      BY <2>1, <2>2, <3>1, Steered
    <3> QED
      BY <2>1, <3>1, <3>2 DEF Typed, ReaderTyped, Constrained
  <2> QED
    BY <2>3, <2>4
<1>6. CASE PublishRow(w)
  <2>1. write[w].stage = "publish" /\ UNCHANGED <<account, ledger, link, month, read>>
    BY <1>6 DEF PublishRow
  <2>2. "list" \in Stages(Kind(w)) /\ write[w].left # <<>>
    BY <1>0, <2>1, KindAt DEF Stages, WriterTyped
  <2>3. DOMAIN write' = Writers /\ \A x \in Writers : WriterTyped(x)'
    BY <1>6, <2>1, <2>2, Steered DEF PublishRow
  <2>4. IsList(events') /\ \A i \in DOMAIN events' : events'[i][2] \in Writers \cup Readers
    BY <1>6, PublishTyped DEF PublishRow
  <2> QED
    BY <2>1, <2>3, <2>4 DEF Typed, ReaderTyped, Constrained
<1>7. CASE ListDefinitions(w)
  <2>1. write[w].stage = "list" /\ Quiet
    BY <1>7 DEF ListDefinitions, Quiet
  <2>2. "run" \in Stages(Kind(w))
    BY <2>1, KindAt DEF Stages
  <2>3. PICK none \in BOOLEAN :
           /\ Turned(w) /\ write'[w].count = write[w].count
           /\ write'[w].stage = IF none THEN NextRow(w) ELSE "run"
           /\ write'[w].left = IF none THEN Tail(write[w].left) ELSE write[w].left
    <3>1. Turned(w) /\ write'[w].count = write[w].count
      BY <1>7, <1>0 DEF ListDefinitions, Typed, WriterTyped, Turned, Own
    <3>2. CASE Applicable(ledger[Current(w)]) = <<>>
      <4>1. write'[w].stage = NextRow(w) /\ write'[w].left = Tail(write[w].left)
        BY <1>7, <3>2 DEF ListDefinitions, Typed
      <4> WITNESS TRUE \in BOOLEAN
      <4> QED
        BY <3>1, <4>1
    <3>3. CASE Applicable(ledger[Current(w)]) # <<>>
      <4>1. write'[w].stage = "run" /\ write'[w].left = write[w].left
        BY <1>7, <3>3 DEF ListDefinitions, Typed
      <4> WITNESS FALSE \in BOOLEAN
      <4> QED
        BY <3>1, <4>1
    <3> QED
      BY <3>2, <3>3
  <2>4. WriterTyped(w)'
    BY <1>0, <2>1, <2>2, <2>3, RowDone
  <2> QED
    BY <2>1, <2>3, <2>4, OthersTyped DEF Typed, Quiet, ReaderTyped, Constrained, Turned
<1>8. CASE Run(w)
  <2>1. write[w].stage = "run" /\ Quiet
    BY <1>8 DEF Run, Quiet
  <2>2. {"run", "failed"} \subseteq Stages(Kind(w))
    BY <2>1, KindAt DEF Stages
  <2>3. CASE Head(write[w].pending).id \in Ids
    <3>1. PICK last \in BOOLEAN :
             /\ Turned(w) /\ write'[w].count = write[w].count
             /\ write'[w].stage = IF last THEN NextRow(w) ELSE "run"
             /\ write'[w].left = IF last THEN Tail(write[w].left) ELSE write[w].left
      <4>1. Turned(w) /\ write'[w].count = write[w].count
        BY <1>8, <2>3, <1>0 DEF Run, Typed, WriterTyped, Turned, Own
      <4>2. CASE Len(write[w].pending) = 1
        <5>1. write'[w].stage = NextRow(w) /\ write'[w].left = Tail(write[w].left)
          BY <1>8, <2>3, <4>2, <1>0 DEF Run, Typed, WriterTyped
        <5> WITNESS TRUE \in BOOLEAN
        <5> QED
          BY <4>1, <5>1
      <4>3. CASE Len(write[w].pending) # 1
        <5>1. write'[w].stage = "run" /\ write'[w].left = write[w].left
          BY <1>8, <2>3, <4>3, <1>0 DEF Run, Typed, WriterTyped
        <5> WITNESS FALSE \in BOOLEAN
        <5> QED
          BY <4>1, <5>1
      <4> QED
        BY <4>2, <4>3
    <3>2. WriterTyped(w)'
      BY <1>0, <2>1, <2>2, <3>1, RowDone
    <3> QED
      BY <2>1, <3>1, <3>2, OthersTyped DEF Typed, Quiet, ReaderTyped, Constrained, Turned
  <2>4. CASE Head(write[w].pending).id \notin Ids
    <3>1. DOMAIN write' = Writers /\ \A x \in Writers : WriterTyped(x)'
      BY <1>8, <2>1, <2>2, <2>4, Steered DEF Run
    <3> QED
      BY <2>1, <3>1 DEF Typed, Quiet, ReaderTyped, Constrained
  <2> QED
    BY <2>3, <2>4
<1>9. CASE Stamp(w)
  <2>1. write[w].stage = "stamp" /\ UNCHANGED <<account, ledger, events, month, read>>
    BY <1>9 DEF Stamp
  <2>2. "announce" \in Stages(Kind(w))
    BY <2>1, KindAt DEF Stages
  <2>3. link' \in [status : {"none", "connected"}, synced : BOOLEAN]
    BY <1>9 DEF Stamp, Typed
  <2>4. DOMAIN write' = Writers /\ \A x \in Writers : WriterTyped(x)'
    BY <1>9, <2>1, <2>2, Steered DEF Stamp
  <2> QED
    BY <2>1, <2>3, <2>4 DEF Typed, ReaderTyped, Constrained
<1>10. CASE Define(w)
  <2>1. write[w].stage = "define" /\ Quiet
    BY <1>10 DEF Define, Quiet
  <2>2. "announce" \in Stages(Kind(w))
    BY <2>1, KindAt DEF Stages
  <2>3. DOMAIN write' = Writers /\ \A x \in Writers : WriterTyped(x)'
    BY <1>10, <2>1, <2>2, Steered DEF Define
  <2> QED
    BY <2>1, <2>3 DEF Typed, Quiet, ReaderTyped, Constrained
<1>11. CASE Announce(w)
  <2>1. write[w].stage = "announce" /\ UNCHANGED <<account, ledger, link, month, read>>
    BY <1>11 DEF Announce
  <2>2. "done" \in Stages(Kind(w)) /\ Kind(w) \in {"define", "import", "connect"}
    BY <2>1, KindAt DEF Stages
  <2>3. DOMAIN write' = Writers /\ \A x \in Writers : WriterTyped(x)'
    BY <1>11, <2>1, <2>2, Steered DEF Announce
  <2>4. \E name, number : Publish(w, name, number)
    BY <1>11, <2>2 DEF Announce
  <2>5. IsList(events') /\ \A i \in DOMAIN events' : events'[i][2] \in Writers \cup Readers
    BY <2>4, PublishTyped
  <2> QED
    BY <2>1, <2>3, <2>5 DEF Typed, ReaderTyped, Constrained
<1>12. CASE Purge(w)
  <2>1. write[w].stage = "purge" /\ Quiet
    BY <1>12 DEF Purge, Quiet
  <2>2. {"done", "replace"} \subseteq Stages(Kind(w))
    BY <2>1, KindAt DEF Stages
  <2>3. DOMAIN write' = Writers /\ \A x \in Writers : WriterTyped(x)'
    <3>1. CASE write[w].job.threshold = Null
      BY <1>12, <2>1, <2>2, <3>1, Steered DEF Purge
    <3>2. CASE write[w].job.threshold # Null
      BY <1>12, <2>1, <2>2, <3>2, Steered DEF Purge
    <3> QED
      BY <3>1, <3>2
  <2> QED
    BY <2>1, <2>3 DEF Typed, Quiet, ReaderTyped, Constrained
<1>13. CASE Replace(w)
  <2>1. write[w].stage = "replace" /\ Quiet
    BY <1>13 DEF Replace, Quiet
  <2>2. "done" \in Stages(Kind(w))
    BY <2>1, KindAt DEF Stages
  <2>3. DOMAIN write' = Writers /\ \A x \in Writers : WriterTyped(x)'
    BY <1>13, <2>1, <2>2, Steered DEF Replace
  <2> QED
    BY <2>1, <2>3 DEF Typed, Quiet, ReaderTyped, Constrained
<1>14. CASE Fail(w)
  <2>1. write[w].stage \notin {"idle", "done", "failed"} /\ Quiet
    BY <1>14 DEF Fail, Quiet
  <2>2. "failed" \in Stages(Kind(w))
    BY <2>1, KindAt DEF Stages
  <2>3. DOMAIN write' = Writers /\ \A x \in Writers : WriterTyped(x)'
    BY <1>14, <2>1, <2>2, Steered DEF Fail
  <2> QED
    BY <2>1, <2>3 DEF Typed, Quiet, ReaderTyped, Constrained
<1> QED
  BY <1>1, <1>2, <1>3, <1>4, <1>5, <1>6, <1>7, <1>8, <1>9, <1>10, <1>11, <1>12, <1>13, <1>14 DEF Handler

\* Readers change an account, their own record, and publish one event.
Reading(q) ==
    \/ \E plan \in Plans, blueprint \in Blueprints : StartRead(q, plan, blueprint)
    \/ ReadAccount(q) \/ ReadOpensAccount(q) \/ ReadNext(q)

\* Whatever a reader does, the rows, the definitions and the writers stay.
LEMMA ReadingKeeps ==
    ASSUME Typed, NEW q \in Readers, Reading(q)
    PROVE  /\ UNCHANGED <<ledger, defs, runs, link, month, write>> /\ account' \in BOOLEAN
           /\ UNCHANGED events \/ Publish(q, "replay.simulated", 0)
           /\ DOMAIN read' = Readers /\ \A x \in Readers : ReaderTyped(x)'
<1>0. \A x \in Readers : ReaderTyped(x)
  BY DEF Typed
<1>1. CASE \E plan \in Plans, blueprint \in Blueprints : StartRead(q, plan, blueprint)
  BY <1>0, <1>1 DEF StartRead, Typed, ReaderTyped
<1>2. CASE ReadAccount(q)
  BY <1>0, <1>2 DEF ReadAccount, Typed, ReaderTyped
<1>3. CASE ReadOpensAccount(q)
  BY <1>0, <1>3 DEF ReadOpensAccount, Typed, ReaderTyped
<1>4. CASE ReadNext(q)
  <2>1. UNCHANGED <<account, ledger, defs, runs, link, month, write>>
    BY <1>4 DEF ReadNext
  <2>2. UNCHANGED events \/ Publish(q, "replay.simulated", 0)
    BY <1>4 DEF ReadNext
  <2>3. DOMAIN read' = Readers /\ \A x \in Readers : ReaderTyped(x)'
    BY <1>0, <1>4 DEF ReadNext, Typed, ReaderTyped
  <2> QED
    BY <2>1, <2>2, <2>3 DEF Typed
<1> QED
  BY <1>1, <1>2, <1>3, <1>4 DEF Reading

\* A step is a request that arrives, a handler's, a reader's, or a month.
LEMMA Steps ==
    ASSUME Next
    PROVE  \/ \E w \in Writers, job \in Jobs : Begin(w, job)
           \/ \E w \in Writers : Handler(w)
           \/ \E q \in Readers : Reading(q)
           \/ MonthPasses
BY DEF Next, Handler, Reading

\* The types are inductive by themselves.
LEMMA TypedStep ==
    ASSUME Typed, [Next]_vars
    PROVE  Typed'
<1>1. CASE Next
  <2>1. CASE \E w \in Writers, job \in Jobs : Begin(w, job)
    BY <2>1, TypedBegin
  <2>2. CASE \E w \in Writers : Handler(w)
    BY <2>2, TypedHandler
  <2>3. CASE \E q \in Readers : Reading(q)
    <3>1. PICK q \in Readers : Reading(q)
      BY <2>3
    <3>2. /\ UNCHANGED <<ledger, defs, runs, link, month, write>> /\ account' \in BOOLEAN
          /\ UNCHANGED events \/ Publish(q, "replay.simulated", 0)
          /\ DOMAIN read' = Readers /\ \A x \in Readers : ReaderTyped(x)'
      BY <3>1, ReadingKeeps
    <3>3. IsList(events') /\ \A i \in DOMAIN events' : events'[i][2] \in Writers \cup Readers
      <4>1. CASE UNCHANGED events
        BY <4>1 DEF Typed
      <4>2. CASE Publish(q, "replay.simulated", 0)
        BY <4>2, PublishTyped
      <4> QED
        BY <3>2, <4>1, <4>2
    <3> QED
      BY <3>2, <3>3 DEF Typed, WriterTyped, Constrained, At, Kind
  <2>4. CASE MonthPasses
    <3>1. /\ month \in 0 .. MaxMonths /\ month < MaxMonths /\ month' = month + 1
          /\ UNCHANGED <<account, ledger, defs, runs, events, link, write, read>>
      BY <2>4 DEF MonthPasses, Typed
    <3>2. month' \in 0 .. MaxMonths
      BY <3>1, BooksAssumption
    <3>3. \A i \in DOMAIN ledger : ledger[i].at <= month'
      <4> SUFFICES ASSUME NEW i \in DOMAIN ledger PROVE ledger[i].at <= month'
        OBVIOUS
      <4>1. ledger[i].at \in 0 .. MaxMonths /\ ledger[i].at <= month
        BY DEF Typed, Constrained
      <4> QED
        BY <3>1, <4>1, BooksAssumption
    <3> QED
      BY <3>1, <3>2, <3>3 DEF Typed, WriterTyped, ReaderTyped, Constrained, At, Kind
  <2> QED
    BY <1>1, <2>1, <2>2, <2>3, <2>4, Steps
<1>2. CASE UNCHANGED vars
  BY <1>2 DEF vars, Typed, WriterTyped, ReaderTyped, Constrained, At, Kind
<1> QED
  BY <1>1, <1>2

-----------------------------------------------------------------------------
(* Proofs: imports.                                                        *)

\* A row that is recorded is its writer's last; nobody else's rows change.
LEMMA RowsKept ==
    ASSUME UNCHANGED ledger
    PROVE  \A x : RowsOf(x)' = RowsOf(x) /\ Current(x)' = Current(x) /\ \A i : Place(x, i)' = Place(x, i)
BY DEF RowsOf, Current, Place

\* The rows of a writer are finitely many, each with its place.
LEMMA RowsFinite ==
    ASSUME Typed, NEW x
    PROVE  /\ Len(ledger) \in Nat /\ DOMAIN ledger = 1 .. Len(ledger)
           /\ RowsOf(x) \in SUBSET (1 .. Len(ledger)) /\ IsFiniteSet(RowsOf(x)) /\ Cardinality(RowsOf(x)) \in Nat
           /\ \A i \in RowsOf(x) : Place(x, i) \in 1 .. Cardinality(RowsOf(x))
<1>1. Len(ledger) \in Nat /\ DOMAIN ledger = 1 .. Len(ledger)
  BY Lists DEF Typed
<1>2. RowsOf(x) \in SUBSET (1 .. Len(ledger))
  BY <1>1 DEF RowsOf
<1>3. \A i \in RowsOf(x) : Place(x, i) \in 1 .. Cardinality(RowsOf(x))
  BY <1>1, <1>2, Ranks DEF Place, Rank
<1> QED
  BY <1>1, <1>2, <1>3, SomeFinite

\* A row that is added is its writer's last, and nobody else's rows change.
LEMMA RowAdded ==
    ASSUME Typed, NEW row, ledger' = Append(ledger, row)
    PROVE  LET n == Len(ledger) + 1
           IN  /\ n \in Nat /\ DOMAIN ledger = 1 .. Len(ledger) /\ DOMAIN ledger' = 1 .. n
               /\ ledger'[n] = row /\ \A i \in DOMAIN ledger : ledger'[i] = ledger[i]
               /\ \A x : x # row.by => RowsOf(x)' = RowsOf(x)
               /\ RowsOf(row.by)' = RowsOf(row.by) \cup {n} /\ n \notin RowsOf(row.by)
               /\ Cardinality(RowsOf(row.by)') = Cardinality(RowsOf(row.by)) + 1
               /\ Current(row.by)' = n /\ \A i : i = n => Place(row.by, i)' = Cardinality(RowsOf(row.by)) + 1
               /\ \A x : \A i \in RowsOf(x) : Place(x, i)' = Place(x, i)
<1> DEFINE n == Len(ledger) + 1
           w == row.by
<1>1. /\ Len(ledger) \in Nat /\ n \in Nat /\ DOMAIN ledger = 1 .. Len(ledger)
  BY RowsFinite
<1>2. DOMAIN ledger' = 1 .. n /\ ledger'[n] = row /\ \A i \in DOMAIN ledger : ledger'[i] = ledger[i]
  BY Appending DEF Typed
<1>3. \A i \in 1 .. n : i \in DOMAIN ledger \/ i = n
  BY <1>1
<1>4. n \notin DOMAIN ledger /\ n \in 1 .. n
  BY <1>1
<1>5. \A x : x # w => RowsOf(x)' = RowsOf(x)
  BY <1>1, <1>2, <1>3, <1>4 DEF RowsOf
<1>6. RowsOf(w)' = RowsOf(w) \cup {n} /\ n \notin RowsOf(w)
  BY <1>1, <1>2, <1>3, <1>4 DEF RowsOf
<1>7. Cardinality(RowsOf(w)') = Cardinality(RowsOf(w)) + 1
  BY <1>6, RowsFinite, FS_AddElement
<1>8. Current(w)' = n
  <2>1. RowsOf(w)' \in SUBSET (1 .. n) /\ RowsOf(w)' # {} /\ n \in RowsOf(w)'
    BY <1>1, <1>4, <1>6, RowsFinite
  <2>2. PICK S : S = RowsOf(w)'
    OBVIOUS
  <2>3. Max(S) \in S /\ \A y \in S : Max(S) >= y
    BY <1>1, <2>1, <2>2, Greatest
  <2>4. Max(S) = n
    BY <1>1, <2>1, <2>2, <2>3
  <2> QED
    BY <2>2, <2>4 DEF Current
<1>9. \A i : i = n => Place(w, i)' = Cardinality(RowsOf(w)) + 1
  <2>1. RowsOf(w)' \cap 1 .. n = RowsOf(w)'
    BY <1>1, <1>4, <1>6, RowsFinite
  <2>2. PICK k : k = n
    OBVIOUS
  <2>3. Place(w, k)' = Cardinality(RowsOf(w)' \cap 1 .. k)
    BY DEF Place
  <2> QED
    BY <1>7, <2>1, <2>2, <2>3
<1>10. ASSUME NEW x, NEW i \in RowsOf(x) PROVE Place(x, i)' = Place(x, i)
  <2>1. RowsOf(x)' \cap 1 .. i = RowsOf(x) \cap 1 .. i
    <3>1. i \in 1 .. Len(ledger)
      BY RowsFinite
    <3>2. n \notin 1 .. i
      BY <1>1, <3>1
    <3> QED
      BY <1>5, <1>6, <3>2
  <2> QED
    BY <2>1 DEF Place
<1> QED
  BY <1>1, <1>2, <1>5, <1>6, <1>7, <1>8, <1>9, <1>10

\* The rows of a writer stay as they were.
Still(x) == /\ RowsOf(x)' = RowsOf(x) /\ Current(x)' = Current(x)
            /\ \A i \in RowsOf(x) : ledger'[i] = ledger[i] /\ Place(x, i)' = Place(x, i)

\* Nothing recorded, nobody's rows change.
LEMMA Kept ==
    ASSUME Typed, UNCHANGED ledger
    PROVE  \A x : Still(x)
BY RowsKept DEF Still

\* A row of another writer does not change one's own.
LEMMA KeptOfOthers ==
    ASSUME Typed, NEW row, ledger' = Append(ledger, row), NEW x, x # row.by
    PROVE  Still(x)
<1>1. RowsOf(x)' = RowsOf(x) /\ \A i \in RowsOf(x) : Place(x, i)' = Place(x, i)
  BY RowAdded
<1>2. \A i \in RowsOf(x) : ledger'[i] = ledger[i]
  <2>1. RowsOf(x) \subseteq DOMAIN ledger
    BY DEF RowsOf
  <2> QED
    BY <2>1, RowAdded
<1> QED
  BY <1>1, <1>2 DEF Still, Current

\* What is recorded agrees with the books of whoever does not step.
LEMMA PrefixKept ==
    ASSUME NEW x \in Writers, Still(x), write'[x].job = write[x].job, Prefix(x)
    PROVE  Prefix(x)'
BY DEF Prefix, Still

\* The books of whoever does not step stay.
LEMMA BookedElsewhere ==
    ASSUME NEW x \in Writers, Still(x), write'[x] = write[x], Booked(x)
    PROVE  Booked(x)'
<1>1. Prefix(x) => Prefix(x)'
  BY PrefixKept
<1>2. Rest(x) => Rest(x)'
  BY DEF Rest, Still, InHand
<1> QED
  BY <1>1, <1>2 DEF Booked, Still, At, Kind

\* A writer that has nothing left is through with its source.
LEMMA AllBooked ==
    ASSUME Typed, NEW w \in Writers, ~InHand(w), Rest(w), write[w].left = <<>>, Prefix(w)
    PROVE  Cardinality(RowsOf(w)) = Len(Source(write[w].job))
<1>1. Cardinality(RowsOf(w)) \in Nat
  BY RowsFinite
<1>2. Len(write[w].left) = 0
  BY EmptySeq
<1>3. Cardinality(RowsOf(w)) - 0 \in Nat /\ Len(write[w].left) = Len(Source(write[w].job)) - (Cardinality(RowsOf(w)) - 0)
  BY DEF Rest
<1>4. Cardinality(RowsOf(w)) <= Len(Source(write[w].job))
  BY DEF Prefix
<1> QED
  BY <1>1, <1>2, <1>3, <1>4

\* A writer that goes on, its rows as they were, is booked as before.
LEMMA BookedOn ==
    ASSUME NEW w \in Writers, Booked(w), Turned(w), Still(w), ~At(w, "idle"), write'[w].stage # "idle",
           write'[w].count = write[w].count, write'[w].left = write[w].left,
           write'[w].stage \in {"account", "open", "link"} => write[w].stage \in {"account", "open", "link"},
           \/ write'[w].stage \in {"stamp", "announce", "done", "failed"}
           \/ write[w].stage \notin {"stamp", "announce", "done", "failed"} /\ (InHand(w)' <=> InHand(w)),
           write'[w].stage \in {"stamp", "announce", "done"} /\ Kind(w) \in Recording
               => Cardinality(RowsOf(w)) = Len(Source(write[w].job))
    PROVE  Booked(w)'
<1>1. Kind(w)' = Kind(w) /\ RowsOf(w)' = RowsOf(w) /\ write'[w].job = write[w].job
  BY DEF Kind, Turned, Still
<1>2. CASE Kind(w) \notin Recording
  BY <1>1, <1>2 DEF Booked
<1>3. CASE Kind(w) \in Recording
  <2>1. Prefix(w)' /\ write'[w].count = Cardinality(RowsOf(w)')
    BY <1>1, <1>3, PrefixKept DEF Booked
  <2>2. write'[w].stage \notin {"stamp", "announce", "done", "failed"} => Rest(w)'
    <3> SUFFICES ASSUME write'[w].stage \notin {"stamp", "announce", "done", "failed"} PROVE Rest(w)'
      OBVIOUS
    <3>1. Rest(w) /\ (InHand(w)' <=> InHand(w))
      BY <1>3 DEF Booked
    <3> QED
      BY <1>1, <3>1 DEF Rest
  <2>3. write'[w].stage \in {"account", "open", "link"} => RowsOf(w)' = {}
    BY <1>1, <1>3 DEF Booked
  <2> QED
    BY <1>1, <1>3, <2>1, <2>2, <2>3 DEF Booked, At
<1> QED
  BY <1>2, <1>3

\* ... and so is one that leaves the row in hand for the next, or for the end.
LEMMA BookedPast ==
    ASSUME Typed, NEW w \in Writers, Booked(w), Turned(w), Still(w), write[w].stage \in {"list", "run"},
           write'[w].stage = NextRow(w), write'[w].count = write[w].count,
           write'[w].left = Tail(write[w].left)
    PROVE  Booked(w)'
<1> DEFINE all == Source(write[w].job)
           c == Cardinality(RowsOf(w))
<1>1. Kind(w)' = Kind(w) /\ RowsOf(w)' = RowsOf(w) /\ write'[w].job = write[w].job
  BY DEF Kind, Turned, Still
<1>2. /\ Kind(w) \in Recording /\ WriterTyped(w) /\ write[w].left # <<>> /\ IsList(write[w].left)
  BY KindAt DEF Recording, At, WriterTyped, Entries
<1>3. Prefix(w) /\ Rest(w) /\ write[w].count = c /\ InHand(w)
  BY <1>2 DEF Booked, At, InHand
<1>4. NextRow(w) \in {"average", "done", "stamp", "announce"} /\ (NextRow(w) = "average" <=> Tail(write[w].left) # <<>>)
  BY NextTyped
<1>5. ~InHand(w)'
  BY <1>4 DEF InHand
<1>6. /\ Len(write[w].left) \in Nat \ {0} /\ Len(Tail(write[w].left)) = Len(write[w].left) - 1
      /\ DOMAIN Tail(write[w].left) = 1 .. Len(write[w].left) - 1 /\ DOMAIN write[w].left = 1 .. Len(write[w].left)
      /\ \A i \in DOMAIN Tail(write[w].left) : Tail(write[w].left)[i] = write[w].left[i + 1]
      /\ Tail(write[w].left) # <<>> <=> Len(write[w].left) > 1
  BY <1>2, Shortening
<1>7. c \in Nat /\ c - 1 \in Nat /\ Len(write[w].left) = Len(all) - (c - 1) /\ c <= Len(all)
      /\ \A k \in DOMAIN write[w].left : write[w].left[k] = all[(c - 1) + k]
  BY <1>3, RowsFinite DEF Rest, Prefix
<1>8. Len(all) \in Nat
  <2>1. IsList(all)
    BY <1>2, KindAt, SourceTyped DEF Entries, At
  <2> QED
    BY <2>1, Lists
<1>9. /\ Len(Tail(write[w].left)) = Len(all) - c
      /\ \A k \in DOMAIN Tail(write[w].left) : Tail(write[w].left)[k] = all[c + k]
  <2>1. Len(Tail(write[w].left)) = Len(all) - c
    BY <1>6, <1>7, <1>8
  <2>2. ASSUME NEW k \in DOMAIN Tail(write[w].left) PROVE Tail(write[w].left)[k] = all[c + k]
    <3>1. k \in Int /\ k + 1 \in DOMAIN write[w].left
      BY <1>6
    <3>2. (c - 1) + (k + 1) = c + k
      BY <1>7, <3>1
    <3>3. Tail(write[w].left)[k] = all[(c - 1) + (k + 1)]
      BY <1>6, <1>7, <3>1
    <3> QED
      BY <3>2, <3>3
  <2> QED
    BY <2>1, <2>2
<1>10. Rest(w)'
  <2>1. c - 0 = c
    BY <1>7
  <2> QED
    BY <1>1, <1>5, <1>7, <1>9, <2>1 DEF Rest
<1>11. write'[w].stage # "average" => c = Len(all)
  <2>1. ASSUME write'[w].stage # "average" PROVE Len(write[w].left) = 1
    <3>1. Tail(write[w].left) = <<>>
      BY <1>4, <2>1
    <3>2. PICK k \in Nat \ {0} : k = Len(write[w].left)
      BY <1>6
    <3>3. ~(k > 1)
      BY <1>6, <3>1, <3>2
    <3>4. k = 1
      BY <3>3
    <3> QED
      BY <3>2, <3>4
  <2> QED
    BY <1>7, <1>8, <2>1
<1>12. Prefix(w)' /\ write'[w].count = Cardinality(RowsOf(w)')
  BY <1>1, <1>3, PrefixKept
<1> QED
  BY <1>1, <1>2, <1>4, <1>10, <1>11, <1>12 DEF Booked, At

\* The row that is inserted is the first of those that were left.
LEMMA BookedInsert ==
    ASSUME Typed, NEW w \in Writers, Booked(w), At(w, "insert"), Recorded(w).amount > 0,
           ledger' = Append(ledger, Recorded(w)), Turned(w),
           write'[w].stage = IF Kind(w) = "create" THEN "publish" ELSE "list",
           write'[w].left = write[w].left, write'[w].count = write[w].count + 1
    PROVE  Booked(w)'
<1> DEFINE all == Source(write[w].job)
           c == Cardinality(RowsOf(w))
           n == Len(ledger) + 1
           row == Recorded(w)
<1>1. Kind(w)' = Kind(w) /\ write'[w].job = write[w].job /\ Kind(w) \in Recording
  BY KindAt DEF Kind, Turned, At, Recording
<1>2. /\ row.by = w /\ row.direction = Head(write[w].left).direction
      /\ row.amount = Head(write[w].left).amount
  BY RecordedTyped
<1>3. write[w].left # <<>> /\ IsList(write[w].left)
  BY KindAt DEF At, WriterTyped, Entries
<1>4. /\ Len(write[w].left) \in Nat \ {0} /\ DOMAIN write[w].left = 1 .. Len(write[w].left)
      /\ Head(write[w].left) = write[w].left[1]
  BY <1>3, Shortening
<1>5. Prefix(w) /\ Rest(w) /\ write[w].count = c /\ ~InHand(w)
  BY <1>1 DEF Booked, At, InHand
<1>6. /\ c \in Nat /\ Len(write[w].left) = Len(all) - c /\ c <= Len(all)
      /\ \A k \in DOMAIN write[w].left : write[w].left[k] = all[c + k]
  <2>1. c \in Nat /\ c - 0 = c
    BY RowsFinite
  <2> QED
    BY <1>5, <2>1 DEF Rest, Prefix
<1>7. Len(all) \in Nat
  <2>1. IsList(all)
    BY KindAt, SourceTyped DEF Entries, At
  <2> QED
    BY <2>1, Lists
<1>8. row.direction = all[c + 1].direction /\ row.amount = all[c + 1].amount /\ c + 1 <= Len(all)
  <2>1. 1 \in DOMAIN write[w].left
    BY <1>4
  <2>2. write[w].left[1] = all[c + 1]
    BY <1>6, <2>1
  <2> QED
    BY <1>2, <1>4, <1>6, <1>7, <2>2
<1>9. PICK r : r = row
  OBVIOUS
<1>10. PICK m : m = n
  OBVIOUS
<1>11. /\ RowsOf(w)' = RowsOf(w) \cup {m} /\ Cardinality(RowsOf(w)') = c + 1
       /\ ledger'[m] = r /\ \A i \in RowsOf(w) : ledger'[i] = ledger[i]
       /\ Place(w, m)' = c + 1 /\ \A i \in RowsOf(w) : Place(w, i)' = Place(w, i)
  <2>1. ledger' = Append(ledger, r) /\ r.by = w
    BY <1>2, <1>9
  <2>2. RowsOf(w) \subseteq DOMAIN ledger
    BY DEF RowsOf
  <2> HIDE DEF row
  <2> QED
    BY <1>10, <2>1, <2>2, RowAdded
<1>12. Prefix(w)'
  <2>1. \A i \in RowsOf(w)' : /\ ledger'[i].direction = all[Place(w, i)'].direction
                             /\ ledger'[i].amount = all[Place(w, i)'].amount
    BY <1>5, <1>8, <1>9, <1>11 DEF Prefix
  <2> QED
    BY <1>1, <1>8, <1>11, <2>1 DEF Prefix
<1>13. InHand(w)'
  BY DEF InHand
<1>14. Rest(w)'
  <2>1. (c + 1) - 1 = c
    BY <1>6
  <2> QED
    BY <1>1, <1>6, <1>11, <1>13, <2>1 DEF Rest
<1>15. write'[w].count = Cardinality(RowsOf(w)')
  BY <1>5, <1>11
<1> QED
  BY <1>1, <1>12, <1>14, <1>15 DEF Booked, At

\* A request that arrives has recorded nothing.
LEMMA BookedBegin ==
    ASSUME Typed, NEW w \in Writers, NEW job \in Jobs, Begin(w, job), Booked(w)
    PROVE  Booked(w)'
<1> DEFINE all == Source(job)
<1>1. /\ Own(w) /\ write'[w].job = job /\ write'[w].left = all /\ write'[w].count = 0
      /\ write'[w].stage = IF job.kind = "import" /\ Parse(job.file).raises THEN "failed"
                           ELSE CASE job.kind \in {"create", "import", "connect"} -> "account"
                                  [] job.kind = "define"   -> "define"
                                  [] job.kind = "automate" -> "purge"
  BY DEF Begin, Own, Typed
<1>2. job.kind \in {"create", "import", "connect", "define", "automate"}
  BY JobsAssumption
<1>3. \/ write'[w].stage \in {"account", "failed"}
      \/ job.kind \notin Recording /\ write'[w].stage # "idle"
  BY <1>1, <1>2 DEF Recording
<1>4. RowsOf(w) = {} /\ UNCHANGED ledger
  BY DEF Begin, Booked
<1>5. RowsOf(w)' = {} /\ Cardinality(RowsOf(w)') = 0
  BY <1>4, RowsKept, FS_EmptySet
<1>6. Len(all) \in Nat
  <2>1. IsList(all)
    BY SourceTyped DEF Entries
  <2> QED
    BY <2>1, Lists
<1>7. Prefix(w)'
  BY <1>1, <1>5, <1>6 DEF Prefix
<1>8. write'[w].stage = "account" => Rest(w)'
  <2> SUFFICES ASSUME write'[w].stage = "account" PROVE Rest(w)'
    OBVIOUS
  <2>1. ~InHand(w)'
    BY DEF InHand
  <2>2. \A k \in DOMAIN all : 0 + k = k
    <3>1. IsList(all)
      BY SourceTyped DEF Entries
    <3>2. DOMAIN all = 1 .. Len(all)
      BY <3>1, Lists
    <3> QED
      BY <1>6, <3>2
  <2>3. 0 - 0 = 0 /\ 0 \in Nat /\ Len(all) = Len(all) - 0
    BY <1>6
  <2> QED
    BY <1>1, <1>5, <2>1, <2>2, <2>3 DEF Rest
<1>9. Kind(w)' = job.kind
  BY <1>1 DEF Kind
<1> QED
  BY <1>1, <1>3, <1>5, <1>7, <1>8, <1>9 DEF Booked, At

\* Each statement of a handler keeps its books.
LEMMA BookedHandler ==
    ASSUME Typed, NEW w \in Writers, Handler(w), Booked(w)
    PROVE  Booked(w)'
<1> USE DEF At
<1>0. Turned(w) /\ WriterTyped(w)
  BY Turning DEF Typed
<1>1. CASE FindAccount(w) \/ OpenAccount(w)
  <2>1. /\ write[w].stage \in {"account", "open"} /\ UNCHANGED ledger
        /\ Go(w, "open") \/ Go(w, "failed") \/ Go(w, Accounted(w))
    BY <1>1 DEF FindAccount, OpenAccount
  <2>2. Still(w) /\ Kind(w) \in Recording
    BY <2>1, Kept, KindAt DEF Recording
  <2>3. CASE Go(w, "open") \/ Go(w, "failed")
    BY <2>1, <2>2, <2>3, <1>0, Going, BookedOn DEF InHand
  <2>4. CASE Go(w, Accounted(w))
    <3>1. /\ write'[w].stage = Accounted(w) /\ write'[w].left = write[w].left
          /\ write'[w].count = write[w].count
      BY <2>4, Going
    <3>2. Accounted(w) \in {"link", "announce", "average"} /\ (Accounted(w) = "announce" => write[w].left = <<>>)
      BY <2>1, AccountedTyped DEF Accounted
    <3>3. Accounted(w) = "announce" => Cardinality(RowsOf(w)) = Len(Source(write[w].job))
      BY <2>1, <2>2, <3>2, AllBooked DEF Booked, InHand
    <3> QED
      BY <1>0, <2>1, <2>2, <3>1, <3>2, <3>3, BookedOn DEF InHand
  <2> QED
    BY <2>1, <2>3, <2>4
<1>2. CASE Link(w)
  <2>1. write[w].stage = "link" /\ UNCHANGED ledger /\ Kind(w) = "connect"
    BY <1>2, KindAt DEF Link
  <2>2. Still(w) /\ Kind(w) \in Recording /\ write[w].left = History
    BY <1>0, <2>1, Kept DEF Recording, WriterTyped, Source, Kind
  <2>3. /\ write'[w].stage = IF History = <<>> THEN "stamp" ELSE "average"
        /\ write'[w].left = write[w].left /\ write'[w].count = write[w].count
    BY <1>2, Going DEF Link
  <2>4. write'[w].stage = "stamp" => Cardinality(RowsOf(w)) = Len(Source(write[w].job))
    BY <2>1, <2>2, <2>3, AllBooked DEF Booked, InHand
  <2> QED
    BY <1>0, <2>1, <2>2, <2>3, <2>4, BookedOn DEF InHand
<1>3. CASE Average(w)
  <2>1. write[w].stage = "average" /\ UNCHANGED ledger
    BY <1>3 DEF Average
  <2>2. Still(w)
    BY <2>1, Kept
  <2>3. /\ write'[w].stage \in {"insert", "failed"}
        /\ write'[w].left = write[w].left /\ write'[w].count = write[w].count
    <3>1. CASE Head(write[w].left).direction \in {"inflow", "outflow"}
      BY <1>0, <1>3, <3>1 DEF Average, Typed, WriterTyped
    <3>2. CASE Head(write[w].left).direction \notin {"inflow", "outflow"}
      BY <1>3, <3>2, Going DEF Average
    <3> QED
      BY <3>1, <3>2
  <2> QED
    BY <1>0, <2>1, <2>2, <2>3, BookedOn DEF InHand
<1>4. CASE Insert(w)
  <2>1. write[w].stage = "insert"
    BY <1>4 DEF Insert
  <2>2. CASE Recorded(w).amount > 0
    <3>1. /\ ledger' = Append(ledger, Recorded(w))
          /\ write'[w].stage = (IF Kind(w) = "create" THEN "publish" ELSE "list")
          /\ write'[w].left = write[w].left /\ write'[w].count = write[w].count + 1
      BY <1>4, <2>2, <1>0 DEF Insert, Typed, WriterTyped
    <3> QED
      BY <1>0, <2>1, <2>2, <3>1, BookedInsert
  <2>3. CASE ~(Recorded(w).amount > 0)
    <3>1. Go(w, "failed") /\ UNCHANGED ledger
      BY <1>4, <2>3 DEF Insert
    <3> QED
      BY <1>0, <2>1, <3>1, Kept, Going, BookedOn
  <2> QED
    BY <2>2, <2>3
<1>5. CASE PublishRow(w)
  <2>1. write[w].stage = "publish" /\ UNCHANGED ledger /\ Go(w, "list")
    BY <1>5 DEF PublishRow
  <2> QED
    BY <1>0, <2>1, Kept, Going, BookedOn DEF InHand
<1>6. CASE ListDefinitions(w)
  <2>1. write[w].stage = "list" /\ UNCHANGED ledger
    BY <1>6 DEF ListDefinitions
  <2>2. Still(w)
    BY <2>1, Kept
  <2>3. CASE Applicable(ledger[Current(w)]) = <<>>
    <3>1. /\ write'[w].stage = NextRow(w) /\ write'[w].count = write[w].count
          /\ write'[w].left = Tail(write[w].left)
      BY <1>0, <1>6, <2>3 DEF ListDefinitions, Typed, WriterTyped
    <3> QED
      BY <1>0, <2>1, <2>2, <3>1, BookedPast
  <2>4. CASE Applicable(ledger[Current(w)]) # <<>>
    <3>1. /\ write'[w].stage = "run" /\ write'[w].count = write[w].count
          /\ write'[w].left = write[w].left
      BY <1>0, <1>6, <2>4 DEF ListDefinitions, Typed, WriterTyped
    <3> QED
      BY <1>0, <2>1, <2>2, <3>1, BookedOn DEF InHand
  <2> QED
    BY <2>3, <2>4
<1>7. CASE Run(w)
  <2>1. write[w].stage = "run" /\ UNCHANGED ledger
    BY <1>7 DEF Run
  <2>2. Still(w)
    BY <2>1, Kept
  <2>3. CASE Head(write[w].pending).id \in Ids /\ Len(write[w].pending) = 1
    <3>1. write'[w].stage = NextRow(w) /\ write'[w].left = Tail(write[w].left)
      BY <1>0, <1>7, <2>3 DEF Run, Typed, WriterTyped
    <3>2. write'[w].count = write[w].count
      BY <1>0, <1>7, <2>3 DEF Run, Typed, WriterTyped
    <3> QED
      BY <1>0, <2>1, <2>2, <3>1, <3>2, BookedPast
  <2>4. CASE Head(write[w].pending).id \in Ids /\ Len(write[w].pending) # 1
    <3>1. /\ write'[w].stage = "run" /\ write'[w].count = write[w].count
          /\ write'[w].left = write[w].left
      BY <1>0, <1>7, <2>4 DEF Run, Typed, WriterTyped
    <3> QED
      BY <1>0, <2>1, <2>2, <3>1, BookedOn DEF InHand
  <2>5. CASE Head(write[w].pending).id \notin Ids
    <3>1. Go(w, "failed")
      BY <1>7, <2>5 DEF Run
    <3> QED
      BY <1>0, <2>1, <2>2, <3>1, Going, BookedOn
  <2> QED
    BY <2>3, <2>4, <2>5
<1>8. CASE Stamp(w)
  <2>1. write[w].stage = "stamp" /\ UNCHANGED ledger /\ Go(w, "announce")
    BY <1>8 DEF Stamp
  <2> QED
    BY <1>0, <2>1, Kept, Going, BookedOn DEF Booked
<1>9. CASE Define(w) \/ Purge(w) \/ Replace(w)
  <2>1. /\ write[w].stage \in {"define", "purge", "replace"} /\ UNCHANGED ledger
        /\ Go(w, "announce") \/ Go(w, "done") \/ Go(w, "replace")
    BY <1>9 DEF Define, Purge, Replace
  <2>2. Kind(w) \notin Recording
    BY <2>1, KindAt DEF Recording
  <2> QED
    BY <1>0, <2>1, <2>2, Kept, Going, BookedOn DEF InHand
<1>10. CASE Announce(w)
  <2>1. write[w].stage = "announce" /\ UNCHANGED ledger /\ Go(w, "done")
    BY <1>10 DEF Announce
  <2> QED
    BY <1>0, <2>1, Kept, Going, BookedOn DEF Booked
<1>11. CASE Fail(w)
  <2>1. write[w].stage \notin {"idle", "done", "failed"} /\ UNCHANGED ledger /\ Go(w, "failed")
    BY <1>11 DEF Fail
  <2> QED
    BY <1>0, <2>1, Kept, Going, BookedOn
<1> QED
  BY <1>1, <1>2, <1>3, <1>4, <1>5, <1>6, <1>7, <1>8, <1>9, <1>10, <1>11 DEF Handler

\* A handler is under way; its rows change only when it inserts.
LEMMA UnderWay ==
    ASSUME Typed, NEW w \in Writers, Handler(w)
    PROVE  /\ write[w].stage \notin {"idle", "done", "failed"} /\ write'[w].stage # "idle"
           /\ \/ UNCHANGED ledger
              \/ Insert(w) /\ ledger' = Append(ledger, Recorded(w)) /\ Recorded(w).by = w
           /\ write[w].stage = "announce" => write'[w].stage \in {"done", "failed"} /\ UNCHANGED ledger
<1>1. CASE FindAccount(w) \/ OpenAccount(w) \/ Link(w) \/ PublishRow(w) \/ Stamp(w) \/ Define(w) \/ Announce(w)
           \/ Purge(w) \/ Replace(w) \/ Fail(w)
  <2>1. /\ write[w].stage \notin {"idle", "done", "failed"} /\ UNCHANGED ledger
        /\ \E stage : Go(w, stage) /\ stage # "idle" /\ (write[w].stage = "announce" => stage \in {"done", "failed"})
    BY <1>1 DEF FindAccount, OpenAccount, Link, PublishRow, Stamp, Define, Announce, Purge, Replace, Fail, At, Accounted
  <2> QED
    BY <2>1, Going
<1>2. CASE Average(w)
  BY <1>2, Going DEF Average, Typed, WriterTyped, At
<1>3. CASE Insert(w)
  BY <1>3, Going, RecordedTyped DEF Insert, Typed, WriterTyped, At
<1>4. CASE ListDefinitions(w)
  <2>1. At(w, "list") /\ UNCHANGED ledger
    BY <1>4 DEF ListDefinitions
  <2>2. write'[w].stage \in {NextRow(w), "run"}
    BY <1>4 DEF ListDefinitions, Typed, WriterTyped
  <2>3. NextRow(w) # "idle"
    BY <2>1, NextTyped DEF At
  <2> QED
    BY <2>1, <2>2, <2>3 DEF At
<1>5. CASE Run(w)
  <2>1. At(w, "run") /\ UNCHANGED ledger
    BY <1>5 DEF Run
  <2>2. write'[w].stage \in {NextRow(w), "run", "failed"}
    <3>1. CASE Head(write[w].pending).id \in Ids
      BY <1>5, <3>1 DEF Run, Typed, WriterTyped
    <3>2. CASE Head(write[w].pending).id \notin Ids
      BY <1>5, <3>2, Going DEF Run
    <3> QED
      BY <3>1, <3>2
  <2>3. NextRow(w) # "idle"
    BY <2>1, NextTyped DEF At
  <2> QED
    BY <2>1, <2>2, <2>3 DEF At
<1> QED
  BY <1>1, <1>2, <1>3, <1>4, <1>5 DEF Handler

\* A handler's step is nothing to the rows of another.
LEMMA StillElsewhere ==
    ASSUME Typed, NEW w \in Writers, Handler(w), NEW x \in Writers, x # w
    PROVE  Still(x) /\ write'[x] = write[x]
<1>1. Still(x)
  BY UnderWay, Kept, KeptOfOthers
<1> QED
  BY <1>1, Turning DEF Turned, Own

\* Nothing is recorded, published or synced.
LEMMA BooksInit == Init => Books
<1> SUFFICES ASSUME Init PROVE Books
  OBVIOUS
<1>1. ledger = <<>> /\ events = <<>> /\ DOMAIN ledger = {} /\ DOMAIN events = {}
  BY DEF Init
<1>2. \A w \in Writers : RowsOf(w) = {} /\ At(w, "idle")
  BY <1>1 DEF RowsOf, Init, IdleWriter, At
<1> QED
  BY <1>1, <1>2 DEF Books, Booked, Published, Synced, Init

\* What an event of a writer says of it.
PublishedBy(i) ==
    events[i][2] \in Writers =>
        LET w == events[i][2]
        IN  /\ ~At(w, "idle")
            /\ Kind(w) \in {"import", "connect"} => At(w, "done") /\ events[i][3] = Len(Source(write[w].job))

\* The events of a handler that steps are of a row recorded by hand, before it, and
\* what it publishes last counts its rows.
LEMMA PublishedHandler ==
    ASSUME Typed, Books, NEW w \in Writers, Handler(w)
    PROVE  Published'
<1>0. /\ Turned(w) /\ write[w].stage \notin {"idle", "done", "failed"} /\ write'[w].stage # "idle"
      /\ Kind(w)' = Kind(w)
  BY Turning, UnderWay DEF Turned, Kind
<1>1. ASSUME NEW i \in DOMAIN events, events'[i] = events[i] PROVE PublishedBy(i)'
  <2>1. PublishedBy(i)
    BY DEF Books, Published, PublishedBy
  <2>2. CASE events[i][2] = w
    <3>1. Kind(w) \notin {"import", "connect"}
      BY <1>0, <2>1, <2>2 DEF PublishedBy, At
    <3> QED
      BY <1>0, <1>1, <2>2, <3>1 DEF PublishedBy, At
  <2>3. CASE events[i][2] # w
    BY <1>0, <1>1, <2>1, <2>3 DEF PublishedBy, At, Kind, Turned, Own
  <2> QED
    BY <2>2, <2>3
<1>2. CASE UNCHANGED events
  <2>1. \A i \in DOMAIN events' : PublishedBy(i)'
    BY <1>1, <1>2
  <2> QED
    BY <2>1 DEF Published, PublishedBy
<1>3. ASSUME NEW name, NEW number, Publish(w, name, number),
             Kind(w) \in {"import", "connect"}
                 => write'[w].stage = "done" /\ number = Len(Source(write[w].job))
      PROVE  Published'
  <2>1. /\ DOMAIN events' = 1 .. Len(events) + 1 /\ Len(events) \in Nat /\ DOMAIN events = 1 .. Len(events)
        /\ \A i \in DOMAIN events : events'[i] = events[i]
        /\ events'[Len(events) + 1] = <<name, w, number>>
    BY <1>3, PublishTyped
  <2>2. PICK n : n = Len(events) + 1 /\ events'[n] = <<name, w, number>>
    BY <2>1
  <2>3. events'[n][2] = w /\ events'[n][3] = number
    BY <2>2
  <2>4. PublishedBy(n)'
    BY <1>0, <1>3, <2>3 DEF PublishedBy, At, Turned
  <2>5. \A i \in DOMAIN events' : i \in DOMAIN events \/ i = n
    BY <2>1, <2>2
  <2>6. \A i \in DOMAIN events' : PublishedBy(i)'
    BY <1>1, <2>1, <2>4, <2>5
  <2> QED
    BY <2>6 DEF Published, PublishedBy
<1>4. CASE PublishRow(w)
  <2>1. Publish(w, "transaction.recorded", Len(ledger)) /\ Kind(w) = "create"
    BY <1>4, KindAt DEF PublishRow, At
  <2> QED
    BY <1>3, <2>1
<1>5. CASE Announce(w)
  <2>1. At(w, "announce") /\ Go(w, "done") /\ Booked(w)
    BY <1>5 DEF Announce, Books
  <2>2. write'[w].stage = "done" /\ Kind(w) \in {"define", "import", "connect"}
    BY <2>1, Going, KindAt DEF At
  <2>3. CASE Kind(w) = "define"
    <3>1. Publish(w, "workflow.created", 0)
      BY <1>5, <2>3 DEF Announce
    <3> QED
      BY <1>3, <2>3, <3>1
  <2>4. CASE Kind(w) \in {"import", "connect"}
    <3>1. write[w].count = Len(Source(write[w].job))
      BY <2>1, <2>4 DEF Booked, At, Recording
    <3>2. \E name : Publish(w, name, write[w].count)
      BY <1>5, <2>4 DEF Announce
    <3> QED
      BY <1>3, <2>2, <3>1, <3>2
  <2> QED
    BY <2>2, <2>3, <2>4
<1>6. CASE FindAccount(w) \/ OpenAccount(w) \/ Link(w) \/ Average(w) \/ Insert(w) \/ ListDefinitions(w) \/ Run(w)
           \/ Stamp(w) \/ Define(w) \/ Purge(w) \/ Replace(w) \/ Fail(w)
  <2>1. UNCHANGED events
    BY <1>6 DEF FindAccount, OpenAccount, Link, Average, Insert, ListDefinitions, Run, Stamp, Define, Purge, Replace, Fail
  <2> QED
    BY <2>1, <1>2
<1> QED
  BY <1>4, <1>5, <1>6 DEF Handler

\* The connection whose history is in stays past it.
LEMMA SyncedHandler ==
    ASSUME Typed, Books, NEW w \in Writers, Handler(w)
    PROVE  Synced'
<1>0. Turned(w) /\ Kind(w)' = Kind(w)
  BY Turning DEF Turned, Kind
<1>1. CASE Stamp(w)
  <2>1. /\ write[w].stage = "stamp" /\ Kind(w) = "connect" /\ write'[w].stage = "announce" /\ UNCHANGED ledger
    BY <1>1, KindAt, Going DEF Stamp, At
  <2>2. Cardinality(RowsOf(w)) = Len(History)
    BY <2>1 DEF Books, Booked, At, Recording, Source, Kind
  <2>3. RowsOf(w)' = RowsOf(w)
    BY <2>1, RowsKept
  <2> QED
    BY <1>0, <2>1, <2>2, <2>3 DEF Synced
<1>2. CASE link'.synced = link.synced
  <2> SUFFICES ASSUME link.synced
               PROVE  \E x \in Writers : /\ write'[x].stage \in {"announce", "done", "failed"} /\ Kind(x)' = "connect"
                                         /\ Cardinality(RowsOf(x)') = Len(History)
    BY <1>2 DEF Synced
  <2>1. PICK x \in Writers : /\ write[x].stage \in {"announce", "done", "failed"} /\ Kind(x) = "connect"
                             /\ Cardinality(RowsOf(x)) = Len(History)
    BY DEF Books, Synced
  <2>2. CASE x = w
    <3>1. write'[w].stage \in {"done", "failed"} /\ UNCHANGED ledger
      BY <2>1, <2>2, UnderWay
    <3>2. RowsOf(w)' = RowsOf(w)
      BY <3>1, RowsKept
    <3> QED
      BY <1>0, <2>1, <2>2, <3>1, <3>2
  <2>3. CASE x # w
    <3>1. RowsOf(x)' = RowsOf(x) /\ write'[x] = write[x]
      BY <2>3, StillElsewhere DEF Still
    <3> QED
      BY <2>1, <3>1 DEF Kind
  <2> QED
    BY <2>2, <2>3
<1>3. Stamp(w) \/ link'.synced = link.synced
  <2>1. link'.synced = link.synced \/ Stamp(w) \/ Link(w)
    BY DEF Handler, FindAccount, OpenAccount, Average, Insert, PublishRow, ListDefinitions, Run, Define, Announce,
           Purge, Replace, Fail
  <2>2. Link(w) => link'.synced = link.synced
    BY DEF Link, Typed
  <2> QED
    BY <2>1, <2>2
<1> QED
  BY <1>1, <1>2, <1>3

\* The books are inductive, given the types.
LEMMA BooksStep ==
    ASSUME Typed, Books, [Next]_vars
    PROVE  Books'
<1>1. ASSUME NEW w \in Writers, NEW job \in Jobs, Begin(w, job) PROVE Books'
  <2>1. Own(w) /\ UNCHANGED <<ledger, events, link>> /\ At(w, "idle") /\ write'[w].stage # "idle"
    <3>1. /\ Own(w)
          /\ write'[w].stage = IF job.kind = "import" /\ Parse(job.file).raises THEN "failed"
                               ELSE CASE job.kind \in {"create", "import", "connect"} -> "account"
                                      [] job.kind = "define"   -> "define"
                                      [] job.kind = "automate" -> "purge"
      BY <1>1 DEF Begin, Own, Typed
    <3> QED
      BY <1>1, <3>1, JobsAssumption DEF Begin
  <2>2. \A x \in Writers : Booked(x)'
    <3> SUFFICES ASSUME NEW x \in Writers PROVE Booked(x)'
      OBVIOUS
    <3>1. Booked(x) /\ Still(x)
      BY <2>1, Kept DEF Books
    <3> QED
      BY <1>1, <2>1, <3>1, BookedBegin, BookedElsewhere DEF Own
  <2>3. Published'
    <3>1. ASSUME NEW i \in DOMAIN events PROVE PublishedBy(i)'
      <4>1. PublishedBy(i)
        BY DEF Books, Published, PublishedBy
      <4>2. events[i][2] \in Writers => events[i][2] # w
        BY <2>1, <4>1 DEF PublishedBy
      <4> QED
        BY <2>1, <4>1, <4>2 DEF PublishedBy, Own, At, Kind
    <3> QED
      BY <2>1, <3>1 DEF Published, PublishedBy
  <2>4. Synced'
    <3>1. ASSUME NEW x \in Writers, write[x].stage \in {"announce", "done", "failed"}
          PROVE  write'[x] = write[x] /\ RowsOf(x)' = RowsOf(x)
      BY <2>1, <3>1, RowsKept DEF Own, At
    <3> QED
      BY <2>1, <3>1 DEF Books, Synced, Kind
  <2> QED
    BY <2>2, <2>3, <2>4 DEF Books
<1>2. ASSUME NEW w \in Writers, Handler(w) PROVE Books'
  <2>1. \A x \in Writers : Booked(x)'
    <3> SUFFICES ASSUME NEW x \in Writers PROVE Booked(x)'
      OBVIOUS
    <3>1. Booked(x)
      BY DEF Books
    <3> QED
      BY <1>2, <3>1, BookedHandler, BookedElsewhere, StillElsewhere
  <2> QED
    BY <1>2, <2>1, PublishedHandler, SyncedHandler DEF Books
<1>3. ASSUME UNCHANGED <<ledger, link, write>>,
             \/ UNCHANGED events
             \/ \E q \in Readers : Publish(q, "replay.simulated", 0)
      PROVE  Books'
  <2>1. \A x \in Writers : Booked(x)'
    BY <1>3, Kept, BookedElsewhere DEF Books
  <2>2. \A i \in DOMAIN events' : PublishedBy(i)'
    <3>1. ASSUME NEW i \in DOMAIN events, events'[i] = events[i] PROVE PublishedBy(i)'
      BY <1>3, <3>1 DEF PublishedBy, Books, Published, At, Kind
    <3>2. CASE UNCHANGED events
      BY <3>1, <3>2
    <3>3. ASSUME NEW q \in Readers, Publish(q, "replay.simulated", 0) PROVE \A i \in DOMAIN events' : PublishedBy(i)'
      <4>1. /\ DOMAIN events' = 1 .. Len(events) + 1 /\ Len(events) \in Nat /\ DOMAIN events = 1 .. Len(events)
            /\ \A i \in DOMAIN events : events'[i] = events[i]
            /\ events'[Len(events) + 1] = <<"replay.simulated", q, 0>>
        BY <3>3, PublishTyped
      <4>2. PICK n : n = Len(events) + 1 /\ events'[n] = <<"replay.simulated", q, 0>>
        BY <4>1
      <4>3. events'[n][2] \notin Writers
        BY <4>2, BooksAssumption
      <4>4. \A i \in DOMAIN events' : i \in DOMAIN events \/ i = n
        BY <4>1, <4>2
      <4>5. PublishedBy(n)'
        BY <4>3 DEF PublishedBy
      <4> QED
        BY <3>1, <4>1, <4>4, <4>5
    <3> QED
      BY <1>3, <3>2, <3>3
  <2>3. Published'
    BY <2>2 DEF Published, PublishedBy
  <2>4. Synced'
    BY <1>3, RowsKept DEF Books, Synced, Kind
  <2> QED
    BY <2>1, <2>3, <2>4 DEF Books
<1>4. CASE \E q \in Readers : Reading(q)
  BY <1>3, <1>4, ReadingKeeps
<1>5. CASE MonthPasses \/ UNCHANGED vars
  BY <1>3, <1>5 DEF MonthPasses, vars
<1> QED
  BY <1>1, <1>2, <1>4, <1>5, Steps

-----------------------------------------------------------------------------
(* Proofs: automations.                                                    *)

\* A run is of a definition on a row.
LEMMA RunAdded ==
    ASSUME RunsBacked, NEW x, x \notin DOMAIN runs, runs' = runs (+) SetToBag({x})
    PROVE  /\ DOMAIN runs' = DOMAIN runs \cup {x} /\ runs'[x] = 1
           /\ \A k \in DOMAIN runs : runs'[k] = runs[k]
<1>1. /\ DOMAIN SetToBag({x}) = {x} /\ SetToBag({x})[x] = 1
  BY DEF SetToBag
<1>2. PICK one : one = SetToBag({x})
  OBVIOUS
<1>3. runs' = [e \in DOMAIN runs \cup {x} |->
                 (IF e \in DOMAIN runs THEN runs[e] ELSE 0) + (IF e \in {x} THEN one[e] ELSE 0)]
  BY <1>1, <1>2 DEF (+)
<1>4. \A k \in DOMAIN runs : runs[k] = 1 /\ k # x
  BY DEF RunsBacked
<1>5. \A k \in DOMAIN runs : runs'[k] = 1
  BY <1>3, <1>4
<1> QED
  BY <1>1, <1>2, <1>3, <1>4, <1>5

\* A definition that is made stays made.
LEMMA MadeKept ==
    ASSUME Typed, [Next]_vars, NEW id, Made(id)
    PROVE  Made(id)'
<1> SUFFICES ASSUME id \in Writers, write[id].stage \in {"announce", "done", "failed"}
             PROVE  write'[id].stage \in {"announce", "done", "failed"}
  BY DEF Made
<1>1. ASSUME NEW w \in Writers, NEW job \in Jobs, Begin(w, job) PROVE write'[id] = write[id]
  BY <1>1 DEF Begin, At, Typed
<1>2. ASSUME NEW w \in Writers, Handler(w) PROVE write'[id].stage \in {"announce", "done", "failed"}
  <2>1. id # w => write'[id] = write[id]
    BY <1>2, Turning DEF Turned, Own
  <2>2. id = w => write'[id].stage \in {"announce", "done", "failed"}
    BY <1>2, UnderWay
  <2> QED
    BY <2>1, <2>2
<1>3. CASE \E q \in Readers : Reading(q)
  BY <1>3, ReadingKeeps
<1>4. CASE MonthPasses \/ UNCHANGED vars
  BY <1>4 DEF MonthPasses, vars
<1> QED
  BY <1>1, <1>2, <1>3, <1>4, Steps

\* The row a writer is at is one of its rows.
LEMMA CurrentRow ==
    ASSUME Typed, NEW x, RowsOf(x) # {}
    PROVE  Current(x) \in RowsOf(x)
BY RowsFinite, Greatest DEF Current

\* Whoever neither lists nor runs: nothing it knows of changes with its rows.
LEMMA KnownKept ==
    ASSUME NEW x \in Writers, Known(x), UNCHANGED defs, \A id : Made(id) => Made(id)',
           write'[x].pending = write[x].pending, write'[x].before = write[x].before
    PROVE  Known(x)'
BY DEF Known, Ids

\* A writer whose rows stay owes no definition a run that it did not owe before.
LEMMA AutomatedKept ==
    ASSUME Typed, NEW x \in Writers, Automated(x), Still(x), UNCHANGED <<defs, runs>>, \A id : Made(id) => Made(id)',
           write'[x].pending = write[x].pending, write'[x].before = write[x].before,
           Settled(x)' \subseteq Settled(x),
           InHand(x)' => InHand(x) /\ (At(x, "run")' <=> At(x, "run"))
    PROVE  Automated(x)'
<1>1. Known(x)'
  BY KnownKept DEF Automated
<1>2. Settled(x) \subseteq RowsOf(x)
  BY DEF Settled
<1>3. \A i \in Settled(x)' : Ran(x, i)'
  <2> SUFFICES ASSUME NEW i \in Settled(x)' PROVE Ran(x, i)'
    OBVIOUS
  <2>1. i \in RowsOf(x) /\ Ran(x, i) /\ ledger'[i] = ledger[i]
    BY <1>2 DEF Automated, Still
  <2> QED
    BY <2>1 DEF Ran
<1>4. InHand(x)' => Running(x)'
  <2> SUFFICES ASSUME InHand(x)' PROVE Running(x)'
    OBVIOUS
  <2>1. Running(x) /\ (At(x, "run")' <=> At(x, "run"))
    BY DEF Automated
  <2>2. RowsOf(x) # {} /\ RowsOf(x)' = RowsOf(x) /\ Current(x)' = Current(x)
    BY <2>1 DEF Running, Still
  <2>3. ledger'[Current(x)] = ledger[Current(x)]
    BY <2>2, CurrentRow DEF Still
  <2> QED
    BY <2>1, <2>2, <2>3 DEF Running
<1> QED
  BY <1>1, <1>3, <1>4 DEF Automated

\* A definition is stored in front of the others, and nobody knows it yet.
LEMMA DefinitionAdded ==
    ASSUME Typed, Runs, NEW w \in Writers, ~Made(w), NEW d, d.id = w, defs' = <<d>> \o defs,
           UNCHANGED <<ledger, runs>>, Turned(w), write'[w].pending = write[w].pending,
           write'[w].stage \in {"announce", "done"}, ~InHand(w), \A id : Made(id) => Made(id)'
    PROVE  Runs'
<1>1. IsList(defs) /\ \A i \in DOMAIN defs : Made(defs[i].id) /\ defs[i].id # w
  BY DEF Runs, Definitions
<1>2. /\ IsList(defs') /\ DOMAIN defs' = 1 .. Len(defs) + 1 /\ DOMAIN defs = 1 .. Len(defs) /\ Len(defs) \in Nat
      /\ defs'[1] = d /\ \A i \in DOMAIN defs : defs'[i + 1] = defs[i]
  <2>1. DOMAIN defs = 1 .. Len(defs) /\ Len(defs) \in Nat
    BY <1>1, Lists
  <2>2. /\ IsList(defs') /\ DOMAIN defs' = 1 .. Len(defs) + 1
        /\ defs'[1] = d /\ \A i \in DOMAIN defs : defs'[i + 1] = defs[i]
    BY <1>1, Prepending
  <2> QED
    BY <2>1, <2>2
<1>3. \A n \in DOMAIN defs' : n = 1 \/ (n - 1 \in DOMAIN defs /\ defs'[n] = defs[n - 1])
  <2> SUFFICES ASSUME NEW n \in DOMAIN defs', n # 1 PROVE (n - 1 \in DOMAIN defs /\ defs'[n] = defs[n - 1])
    OBVIOUS
  <2>1. n - 1 \in DOMAIN defs /\ (n - 1) + 1 = n
    BY <1>2
  <2> QED
    BY <1>2, <2>1
<1>4. \A i \in DOMAIN defs : \E n \in DOMAIN defs' : defs'[n] = defs[i]
  <2> SUFFICES ASSUME NEW i \in DOMAIN defs PROVE \E n \in DOMAIN defs' : defs'[n] = defs[i]
    OBVIOUS
  <2>1. i + 1 \in DOMAIN defs'
    BY <1>2
  <2> QED
    BY <1>2, <2>1
<1>5. Made(w)'
  BY DEF Made
<1>6. Definitions'
  <2>1. \A i, j \in DOMAIN defs' : defs'[i].id = defs'[j].id => i = j
    <3> SUFFICES ASSUME NEW i \in DOMAIN defs', NEW j \in DOMAIN defs', defs'[i].id = defs'[j].id PROVE i = j
      OBVIOUS
    <3>1. \A a, b \in DOMAIN defs : defs[a].id = defs[b].id => a = b
      BY DEF Runs, Definitions
    <3>2. i = 1 <=> j = 1
      BY <1>1, <1>2, <1>3
    <3>3. CASE i # 1 /\ j # 1
      <4>1. i - 1 = j - 1
        BY <1>3, <3>1, <3>3
      <4> QED
        BY <4>1, <1>2
    <3> QED
      BY <3>2, <3>3
  <2>2. \A i \in DOMAIN defs' : Made(defs[i].id)'
    <3> SUFFICES ASSUME NEW i \in DOMAIN defs' PROVE Made(defs[i].id)'
      OBVIOUS
    <3>1. CASE i = 1
      BY <1>2, <1>5, <3>1
    <3>2. CASE i # 1
      <4>1. PICK k \in DOMAIN defs : defs'[i] = defs[k]
        BY <1>3, <3>2
      <4> QED
        BY <1>1, <4>1
    <3> QED
      BY <3>1, <3>2
  <2> QED
    BY <1>2, <2>1, <2>2 DEF Definitions
<1>7. RunsBacked'
  <2> SUFFICES ASSUME NEW k \in DOMAIN runs
               PROVE  /\ runs[k] = 1 /\ k[2] \in DOMAIN ledger
                      /\ \E n \in DOMAIN defs' : defs'[n].id = k[1] /\ Applies(defs'[n], ledger[k[2]])
    BY DEF RunsBacked
  <2>1. PICK n \in DOMAIN defs : defs[n].id = k[1] /\ Applies(defs[n], ledger[k[2]])
    BY DEF Runs, RunsBacked
  <2>2. PICK m \in DOMAIN defs' : defs'[m] = defs[n]
    BY <1>4
  <2> QED
    BY <2>1, <2>2 DEF Runs, RunsBacked
<1>8. ASSUME NEW x \in Writers PROVE Automated(x)'
  <2>0. /\ Automated(x) /\ write'[x].pending = write[x].pending /\ write'[x].before = write[x].before
        /\ Still(x) /\ (x # w => write'[x] = write[x])
    BY Kept DEF Runs, Turned, Own
  <2>1. w \notin write[x].before /\ \A j \in DOMAIN write[x].pending : write[x].pending[j].id # w
    BY <2>0 DEF Automated, Known
  <2>2. Known(x)'
    <3>1. ASSUME NEW id \in Ids' PROVE id = w \/ id \in Ids
      BY <1>2, <1>3 DEF Ids
    <3>2. ASSUME NEW j \in DOMAIN write[x].pending, write[x].pending[j].id \in Ids'
          PROVE  \E n \in DOMAIN defs' : defs'[n] = write[x].pending[j]
      <4>1. PICK n \in DOMAIN defs : defs[n] = write[x].pending[j]
        BY <2>0, <2>1, <3>1, <3>2 DEF Automated, Known
      <4> QED
        BY <1>4, <4>1
    <3> QED
      BY <2>0, <3>2 DEF Automated, Known
  <2>3. ASSUME NEW n \in DOMAIN defs', defs'[n].id \in write[x].before PROVE \E m \in DOMAIN defs : defs[m] = defs'[n]
    BY <1>2, <1>3, <2>1, <2>3
  <2>4. ASSUME NEW i \in Settled(x)' PROVE Ran(x, i)'
    <3>1. i \in Settled(x)
      <4>1. CASE x = w
        BY <2>0, <2>4, <4>1 DEF Settled, Still, InHand, Made
      <4>2. CASE x # w
        BY <2>0, <2>4, <4>2 DEF Settled, Still
      <4> QED
        BY <4>1, <4>2
    <3>2. Ran(x, i)
      BY <2>0, <3>1 DEF Automated
    <3> QED
      BY <2>0, <2>3, <3>2 DEF Ran
  <2>5. ASSUME InHand(x)' PROVE Running(x)'
    <3>1. x # w /\ InHand(x)
      BY <2>0, <2>5 DEF InHand
    <3>2. Running(x) /\ write'[x] = write[x] /\ RowsOf(x)' = RowsOf(x) /\ Current(x)' = Current(x)
      BY <2>0, <3>1 DEF Automated, Still
    <3>3. write'[x].stage = "run" =>
             \A n \in DOMAIN defs' : defs'[n].id \in write'[x].before /\ Applies(defs'[n], ledger[Current(x)])
                 => \/ BagIn(<<defs'[n].id, Current(x)>>, runs)
                    \/ \E j \in DOMAIN write'[x].pending : write'[x].pending[j] = defs'[n]
      <4> SUFFICES ASSUME write[x].stage = "run", NEW n \in DOMAIN defs', defs'[n].id \in write[x].before,
                          Applies(defs'[n], ledger[Current(x)])
                   PROVE  \/ BagIn(<<defs'[n].id, Current(x)>>, runs)
                          \/ \E j \in DOMAIN write[x].pending : write[x].pending[j] = defs'[n]
        BY <3>2
      <4>1. PICK m \in DOMAIN defs : defs[m] = defs'[n]
        BY <2>3
      <4>2. \/ BagIn(<<defs[m].id, Current(x)>>, runs)
            \/ \E j \in DOMAIN write[x].pending : write[x].pending[j] = defs[m]
        BY <3>2, <4>1 DEF Running, At
      <4> QED
        BY <4>1, <4>2
    <3> QED
      BY <3>2, <3>3 DEF Running, At
  <2> QED
    BY <2>2, <2>4, <2>5 DEF Automated
<1> QED
  BY <1>6, <1>7, <1>8 DEF Runs

\* The Blueprint's definitions go, with their runs, and what stays is as it was.
LEMMA DefinitionsPurged ==
    ASSUME Typed, Runs, NEW w \in Writers, Purge(w), \A id : Made(id) => Made(id)'
    PROVE  Runs'
<1> DEFINE at == {i \in DOMAIN defs : ~defs[i].blueprint}
           gone == {defs[i].id : i \in {j \in DOMAIN defs : defs[j].blueprint}}
<1>1. /\ defs' = Picked(defs, at) /\ runs' = [k \in {x \in DOMAIN runs : x[1] \notin gone} |-> runs[k]]
      /\ UNCHANGED ledger /\ At(w, "purge")
      /\ \/ Go(w, "done")
         \/ Go(w, "replace")
  BY DEF Purge
<1>2. /\ Turned(w) /\ write'[w].stage \in {"done", "replace"} /\ write'[w].pending = write[w].pending
  BY <1>1, Going
<1>3. IsList(defs) /\ at \in SUBSET DOMAIN defs /\ \A i, j \in DOMAIN defs : defs[i].id = defs[j].id => i = j
  BY DEF Runs, Definitions
<1> HIDE DEF at
<1>4. /\ IsList(defs')
      /\ \A n \in DOMAIN defs' : \E i \in at : defs'[n] = defs[i]
      /\ \A i \in at : \E n \in DOMAIN defs' : defs'[n] = defs[i]
      /\ \A m, n \in DOMAIN defs' : defs'[m].id = defs'[n].id => m = n
  BY <1>1, <1>3, PickedFrom
<1>5. \A i \in DOMAIN defs : defs[i].id \notin gone <=> i \in at
  BY <1>3 DEF at
<1>6. \A k \in DOMAIN runs : k[1] \notin gone => k \in DOMAIN runs' /\ runs'[k] = runs[k]
  BY <1>1
<1>7. \A k \in DOMAIN runs' : k \in DOMAIN runs /\ k[1] \notin gone /\ runs'[k] = runs[k]
  BY <1>1
<1> HIDE DEF gone
<1>8. Definitions'
  <2>1. ASSUME NEW n \in DOMAIN defs' PROVE Made(defs[n].id)'
    <3>1. PICK i \in at : defs'[n] = defs[i]
      BY <1>4
    <3>2. PICK id : id = defs[i].id
      OBVIOUS
    <3>3. Made(id)'
      BY <1>3, <3>2 DEF Runs, Definitions
    <3> QED
      BY <3>1, <3>2, <3>3
  <2> QED
    BY <1>4, <2>1 DEF Definitions
<1>9. RunsBacked'
  <2> SUFFICES ASSUME NEW k \in DOMAIN runs'
               PROVE  /\ runs'[k] = 1 /\ k[2] \in DOMAIN ledger
                      /\ \E n \in DOMAIN defs' : defs'[n].id = k[1] /\ Applies(defs'[n], ledger[k[2]])
    BY <1>1 DEF RunsBacked
  <2>1. k \in DOMAIN runs /\ k[1] \notin gone /\ runs'[k] = runs[k]
    BY <1>7
  <2>2. PICK i \in DOMAIN defs : defs[i].id = k[1] /\ Applies(defs[i], ledger[k[2]])
    BY <2>1 DEF Runs, RunsBacked
  <2>3. PICK n \in DOMAIN defs' : defs'[n] = defs[i]
    BY <1>4, <1>5, <2>1, <2>2
  <2> QED
    BY <2>1, <2>2, <2>3 DEF Runs, RunsBacked
<1>10. ASSUME NEW x \in Writers PROVE Automated(x)'
  <2>0. /\ Automated(x) /\ write'[x].pending = write[x].pending /\ write'[x].before = write[x].before
        /\ Still(x) /\ (x # w => write'[x] = write[x])
    BY <1>1, <1>2, Kept DEF Runs, Turned, Own
  <2>1. Known(x)'
    <3>1. ASSUME NEW j \in DOMAIN write[x].pending, write[x].pending[j].id \in Ids'
          PROVE  \E n \in DOMAIN defs' : defs'[n] = write[x].pending[j]
      <4>1. PICK i \in at : defs[i].id = write[x].pending[j].id
        BY <1>4, <3>1 DEF Ids
      <4>2. i \in DOMAIN defs
        BY <1>3
      <4>3. PICK m \in DOMAIN defs : defs[m] = write[x].pending[j]
        BY <2>0, <4>1, <4>2 DEF Automated, Known, Ids
      <4>4. m = i
        BY <1>3, <4>1, <4>2, <4>3
      <4> QED
        BY <1>4, <4>3, <4>4
    <3> QED
      BY <2>0, <3>1 DEF Automated, Known
  <2>2. ASSUME NEW n \in DOMAIN defs', NEW i, BagIn(<<defs'[n].id, i>>, runs) PROVE BagIn(<<defs'[n].id, i>>, runs')
    <3>1. defs'[n].id \notin gone
      BY <1>3, <1>4, <1>5
    <3>2. PICK k : k = <<defs'[n].id, i>>
      OBVIOUS
    <3>3. k \in DOMAIN runs /\ k[1] \notin gone
      BY <2>2, <3>1, <3>2 DEF BagIn, BagToSet
    <3>4. k \in DOMAIN runs'
      BY <1>6, <3>3
    <3> QED
      BY <3>2, <3>4 DEF BagIn, BagToSet
  <2>3. ASSUME NEW n \in DOMAIN defs' PROVE \E m \in DOMAIN defs : defs[m] = defs'[n]
    BY <1>3, <1>4
  <2>4. ASSUME NEW i \in Settled(x)' PROVE Ran(x, i)'
    <3>1. i \in Settled(x)
      <4>1. CASE x = w
        BY <1>1, <1>2, <2>0, <2>4, <4>1 DEF Settled, Still, At
      <4>2. CASE x # w
        BY <2>0, <2>4, <4>2 DEF Settled, Still
      <4> QED
        BY <4>1, <4>2
    <3>2. Ran(x, i)
      BY <2>0, <3>1 DEF Automated
    <3>3. ASSUME NEW n \in DOMAIN defs', defs'[n].id \in write[x].before, Applies(defs'[n], ledger[i])
          PROVE  BagIn(<<defs'[n].id, i>>, runs')
      <4>1. PICK m \in DOMAIN defs : defs[m] = defs'[n]
        BY <2>3
      <4>2. BagIn(<<defs'[n].id, i>>, runs)
        BY <3>2, <3>3, <4>1 DEF Ran
      <4> QED
        BY <2>2, <4>2
    <3> QED
      BY <1>1, <2>0, <3>3 DEF Ran
  <2>5. ASSUME InHand(x)' PROVE Running(x)'
    <3>1. x # w /\ InHand(x)
      BY <1>2, <2>0, <2>5 DEF InHand
    <3>2. Running(x) /\ write'[x] = write[x] /\ RowsOf(x)' = RowsOf(x) /\ Current(x)' = Current(x)
      BY <2>0, <3>1 DEF Automated, Still
    <3>3. write'[x].stage = "run" =>
             \A n \in DOMAIN defs' : defs'[n].id \in write'[x].before /\ Applies(defs'[n], ledger[Current(x)])
                 => \/ BagIn(<<defs'[n].id, Current(x)>>, runs')
                    \/ \E j \in DOMAIN write'[x].pending : write'[x].pending[j] = defs'[n]
      <4> SUFFICES ASSUME write[x].stage = "run", NEW n \in DOMAIN defs', defs'[n].id \in write[x].before,
                          Applies(defs'[n], ledger[Current(x)])
                   PROVE  \/ BagIn(<<defs'[n].id, Current(x)>>, runs')
                          \/ \E j \in DOMAIN write[x].pending : write[x].pending[j] = defs'[n]
        BY <3>2
      <4>1. PICK m \in DOMAIN defs : defs[m] = defs'[n]
        BY <2>3
      <4>2. \/ BagIn(<<defs'[n].id, Current(x)>>, runs)
            \/ \E j \in DOMAIN write[x].pending : write[x].pending[j] = defs[m]
        BY <3>2, <4>1 DEF Running, At
      <4> QED
        BY <2>2, <4>1, <4>2
    <3>4. \A k \in DOMAIN runs' : k \in DOMAIN runs
      BY <1>7
    <3>5. \A e : BagIn(e, runs') => BagIn(e, runs)
      BY <3>4 DEF BagIn, BagToSet
    <3> QED
      BY <1>1, <3>2, <3>3, <3>4, <3>5 DEF Running, At
  <2> QED
    BY <2>1, <2>4, <2>5 DEF Automated
<1> QED
  BY <1>8, <1>9, <1>10 DEF Runs

\* A run on the row of one writer is nothing to another.
LEMMA RunElsewhere ==
    ASSUME Typed, NEW x \in Writers, Automated(x), Still(x), write'[x] = write[x], UNCHANGED <<ledger, defs>>,
           \A id : Made(id) => Made(id)', NEW new, new[2] \notin RowsOf(x),
           DOMAIN runs' = DOMAIN runs \cup {new}
    PROVE  Automated(x)'
<1>1. Known(x)'
  BY KnownKept DEF Automated
<1>2. Settled(x)' = Settled(x)
  BY DEF Settled, Still
<1>3. \A e : BagIn(e, runs) => BagIn(e, runs')
  BY DEF BagIn, BagToSet
<1>4. \A i \in Settled(x)' : Ran(x, i)'
  BY <1>2, <1>3 DEF Automated, Ran
<1>5. InHand(x)' => Running(x)'
  <2> SUFFICES ASSUME InHand(x) PROVE Running(x)'
    BY DEF InHand
  <2>1. Running(x) /\ RowsOf(x)' = RowsOf(x) /\ Current(x)' = Current(x)
    BY DEF Automated, Still
  <2>2. PICK i : i = Current(x)
    OBVIOUS
  <2>3. i \in RowsOf(x)
    BY <2>1, <2>2, CurrentRow DEF Running
  <2>4. ASSUME NEW e, e[2] = i, BagIn(e, runs') PROVE BagIn(e, runs)
    BY <2>3, <2>4 DEF BagIn, BagToSet
  <2>5. ASSUME NEW id, BagIn(<<id, i>>, runs') PROVE BagIn(<<id, i>>, runs)
    <3>1. PICK e : e = <<id, i>>
      OBVIOUS
    <3>2. e[2] = i
      BY <3>1
    <3> QED
      BY <2>4, <2>5, <3>1, <3>2
  <2>6. ASSUME ~At(x, "run") PROVE \A k \in DOMAIN runs' : k[2] # i
    BY <2>1, <2>2, <2>3, <2>6 DEF Running
  <2>7. ASSUME At(x, "run")
        PROVE  /\ write[x].pending # <<>>
               /\ \A j \in DOMAIN write[x].pending :
                     Applies(write[x].pending[j], ledger[i]) /\ ~BagIn(<<write[x].pending[j].id, i>>, runs')
               /\ \A n \in DOMAIN defs : defs[n].id \in write[x].before /\ Applies(defs[n], ledger[i])
                     => BagIn(<<defs[n].id, i>>, runs') \/ \E j \in DOMAIN write[x].pending : write[x].pending[j] = defs[n]
    BY <1>3, <2>1, <2>2, <2>5, <2>7 DEF Running
  <2> QED
    BY <2>1, <2>2, <2>6, <2>7 DEF Running, At
<1> QED
  BY <1>1, <1>4, <1>5 DEF Automated

\* A definition runs on the row in hand: the first of those that are pending.
LEMMA RunStored ==
    ASSUME Typed, Runs, NEW w \in Writers, Run(w), Head(write[w].pending).id \in Ids,
           \A id : Made(id) => Made(id)'
    PROVE  Runs'
<1> DEFINE pending == write[w].pending
           d == Head(pending)
<1>a. PICK i : i = Current(w)
  OBVIOUS
<1>0. /\ At(w, "run") /\ InHand(w) /\ Running(w) /\ Automated(w) /\ Known(w)
      /\ UNCHANGED <<ledger, defs>> /\ WriterTyped(w)
  BY DEF Run, At, InHand, Runs, Automated, Typed
<1>1. /\ runs' = runs (+) SetToBag({<<d.id, i>>})
      /\ Turned(w) /\ write'[w].pending = Tail(pending)
      /\ write'[w].stage = IF Len(pending) = 1 THEN NextRow(w) ELSE "run"
  <2>1. Turned(w)
    BY Turning DEF Handler
  <2>2. runs' = runs (+) SetToBag({<<d.id, i>>})
    BY <1>a DEF Run
  <2>3. write'[w].pending = Tail(pending) /\ write'[w].stage = IF Len(pending) = 1 THEN NextRow(w) ELSE "run"
    <3>1. write' = [write EXCEPT ![w].pending = Tail(@),
                                ![w].stage = IF Len(pending) = 1 THEN NextRow(w) ELSE "run",
                                ![w].left  = IF Len(pending) = 1 THEN Tail(@) ELSE @]
      BY DEF Run
    <3>2. CASE Len(pending) = 1
      BY <1>0, <3>1, <3>2 DEF Typed, WriterTyped
    <3>3. CASE Len(pending) # 1
      BY <1>0, <3>1, <3>3 DEF Typed, WriterTyped
    <3> QED
      BY <3>2, <3>3
  <2> QED
    BY <2>1, <2>2, <2>3
<1>2. /\ pending # <<>> /\ IsList(pending) /\ i \in RowsOf(w) /\ i \in DOMAIN ledger
      /\ \A j \in DOMAIN pending : Applies(pending[j], ledger[i]) /\ ~BagIn(<<pending[j].id, i>>, runs)
      /\ \A n \in DOMAIN defs : defs[n].id \in write[w].before /\ Applies(defs[n], ledger[i])
             => BagIn(<<defs[n].id, i>>, runs) \/ \E j \in DOMAIN pending : pending[j] = defs[n]
  BY <1>0, <1>a, CurrentRow DEF Running, Known, RowsOf
<1>3. /\ Len(pending) \in Nat \ {0} /\ DOMAIN pending = 1 .. Len(pending) /\ d = pending[1] /\ IsList(Tail(pending))
      /\ DOMAIN Tail(pending) = 1 .. Len(pending) - 1
      /\ \A j \in DOMAIN Tail(pending) : Tail(pending)[j] = pending[j + 1]
      /\ Tail(pending) # <<>> <=> Len(pending) > 1
  BY <1>2, Shortening
<1>4. PICK size : size = Len(pending)
  OBVIOUS
<1>5. 1 \in DOMAIN pending /\ \A j \in DOMAIN Tail(pending) : j + 1 \in DOMAIN pending /\ j + 1 # 1
  BY <1>3, <1>4
<1>6. \A j \in DOMAIN pending : j = 1 \/ j - 1 \in DOMAIN Tail(pending)
  BY <1>3, <1>4
<1>7. \A j \in DOMAIN pending : j = 1 \/ \E k \in DOMAIN Tail(pending) : Tail(pending)[k] = pending[j]
  <2> SUFFICES ASSUME NEW j \in DOMAIN pending, j # 1 PROVE \E k \in DOMAIN Tail(pending) : Tail(pending)[k] = pending[j]
    OBVIOUS
  <2>1. j - 1 \in DOMAIN Tail(pending) /\ (j - 1) + 1 = j
    BY <1>3, <1>6
  <2> QED
    BY <1>3, <2>1
<1>8. PICK new : new = <<d.id, i>>
  OBVIOUS
<1>9. new[1] = d.id /\ new[2] = i /\ new \notin DOMAIN runs
  BY <1>2, <1>3, <1>5, <1>8 DEF BagIn, BagToSet
<1>10. DOMAIN runs' = DOMAIN runs \cup {new} /\ runs'[new] = 1 /\ \A k \in DOMAIN runs : runs'[k] = runs[k]
  BY <1>1, <1>8, <1>9, RunAdded DEF Runs
<1>11. PICK n0 \in DOMAIN defs : defs[n0] = d
  BY <1>0, <1>3, <1>5 DEF Known
<1>12. Definitions'
  <2>1. ASSUME NEW n \in DOMAIN defs' PROVE Made(defs[n].id)'
    <3>1. PICK id : id = defs[n].id
      OBVIOUS
    <3>2. Made(id)'
      BY <1>0, <3>1 DEF Runs, Definitions
    <3> QED
      BY <1>0, <3>1, <3>2
  <2> QED
    BY <1>0, <2>1 DEF Runs, Definitions
<1>13. RunsBacked'
  <2> SUFFICES ASSUME NEW k \in DOMAIN runs'
               PROVE  /\ runs'[k] = 1 /\ k[2] \in DOMAIN ledger
                      /\ \E n \in DOMAIN defs : defs[n].id = k[1] /\ Applies(defs[n], ledger[k[2]])
    BY <1>0 DEF RunsBacked
  <2>1. CASE k \in DOMAIN runs
    BY <1>10, <2>1 DEF Runs, RunsBacked
  <2>2. CASE k = new
    BY <1>2, <1>3, <1>5, <1>9, <1>10, <1>11, <2>2
  <2> QED
    BY <1>10, <2>1, <2>2
<1>14. ASSUME NEW x \in Writers, x # w PROVE Automated(x)'
  <2>1. Still(x) /\ write'[x] = write[x] /\ Automated(x)
    BY <1>0, <1>1, <1>14, Kept DEF Runs, Turned, Own
  <2>2. new[2] \notin RowsOf(x)
    BY <1>2, <1>9, <1>14 DEF RowsOf
  <2> QED
    BY <1>0, <1>10, <2>1, <2>2, RunElsewhere
<1>15. Known(w)'
  <2>1. \A j \in DOMAIN Tail(pending) :
           /\ Made(Tail(pending)[j].id)
           /\ Tail(pending)[j].id \in Ids => \E n \in DOMAIN defs : defs[n] = Tail(pending)[j]
    BY <1>0, <1>3, <1>5 DEF Known
  <2>2. ASSUME NEW j \in DOMAIN Tail(pending), NEW k \in DOMAIN Tail(pending), Tail(pending)[j].id = Tail(pending)[k].id
        PROVE  j = k
    <3>1. j + 1 = k + 1
      BY <1>0, <1>3, <1>5, <2>2 DEF Known
    <3> QED
      BY <3>1, <1>3
  <2>3. write'[w].before = write[w].before
    BY <1>1 DEF Turned
  <2>4. PICK rest : rest = Tail(pending)
    OBVIOUS
  <2>5. write'[w].pending = rest /\ IsList(rest)
    BY <1>1, <1>3, <2>4
  <2> HIDE DEF pending
  <2> QED
    BY <1>0, <2>1, <2>2, <2>3, <2>4, <2>5 DEF Known, Ids
<1>16. RowsOf(w)' = RowsOf(w) /\ Current(w)' = i /\ \A e : BagIn(e, runs) => BagIn(e, runs')
  BY <1>0, <1>a, <1>10, RowsKept DEF BagIn, BagToSet
<1>17. BagIn(<<d.id, i>>, runs')
  BY <1>8, <1>10 DEF BagIn, BagToSet
<1>18. ASSUME NEW n \in DOMAIN defs, defs[n].id \in write[w].before, Applies(defs[n], ledger[i])
       PROVE  BagIn(<<defs[n].id, i>>, runs') \/ \E k \in DOMAIN Tail(pending) : Tail(pending)[k] = defs[n]
  <2>1. CASE BagIn(<<defs[n].id, i>>, runs)
    BY <1>16, <2>1
  <2>2. CASE \E j \in DOMAIN pending : pending[j] = defs[n]
    BY <1>3, <1>7, <1>17, <2>2
  <2> QED
    BY <1>2, <1>18, <2>1, <2>2
<1>19. ASSUME NEW e \in RowsOf(w), e # i PROVE Ran(w, e)'
  <2>1. e \in Settled(w)
    BY <1>0, <1>a, <1>19 DEF Settled, At
  <2>2. Ran(w, e)
    BY <1>0, <2>1 DEF Automated
  <2>3. write'[w].before = write[w].before
    BY <1>1 DEF Turned
  <2> QED
    BY <1>0, <1>16, <2>2, <2>3 DEF Ran
<1>20. Automated(w)'
  <2>1. CASE Len(pending) = 1
    <3>1. write'[w].stage \in {"average", "done", "stamp", "announce"}
      BY <1>0, <1>1, <2>1, NextTyped DEF At
    <3>2. Settled(w)' = RowsOf(w) /\ ~InHand(w)'
      BY <1>16, <3>1 DEF Settled, InHand
    <3>3. Ran(w, i)'
      <4>1. DOMAIN Tail(pending) = {}
        BY <1>3, <2>1
      <4>2. write'[w].before = write[w].before
        BY <1>1 DEF Turned
      <4>3. \A n \in DOMAIN defs : defs[n].id \in write[w].before /\ Applies(defs[n], ledger[i])
                => BagIn(<<defs[n].id, i>>, runs')
        BY <1>18, <4>1
      <4> QED
        BY <1>0, <4>2, <4>3 DEF Ran
    <3>4. \A e \in Settled(w)' : Ran(w, e)'
      BY <1>19, <3>2, <3>3
    <3> QED
      BY <1>15, <3>2, <3>4 DEF Automated
  <2>2. CASE Len(pending) # 1
    <3>1. write'[w].stage = "run" /\ Tail(pending) # <<>>
      <4>1. PICK k \in Nat \ {0} : k = Len(pending)
        BY <1>3
      <4>2. k > 1
        <5>1. k # 1
          BY <2>2, <4>1
        <5> QED
          BY <5>1
      <4>3. Len(pending) > 1
        BY <4>1, <4>2
      <4> QED
        BY <1>1, <1>3, <2>2, <4>3
    <3>2. Settled(w)' = RowsOf(w) \ {i} /\ InHand(w)'
      BY <1>16, <1>2, <3>1 DEF Settled, InHand
    <3>3. ASSUME NEW j \in DOMAIN Tail(pending)
          PROVE  Applies(Tail(pending)[j], ledger[i]) /\ ~BagIn(<<Tail(pending)[j].id, i>>, runs')
      <4>1. Tail(pending)[j] = pending[j + 1] /\ j + 1 \in DOMAIN pending /\ pending[j + 1].id # d.id
        BY <1>0, <1>3, <1>5 DEF Known
      <4>2. PICK e : e = <<pending[j + 1].id, i>>
        OBVIOUS
      <4>3. e # new /\ e \notin DOMAIN runs
        <5>1. e[1] # new[1]
          BY <1>9, <4>1, <4>2
        <5> QED
          BY <1>2, <4>1, <4>2, <5>1 DEF BagIn, BagToSet
      <4>4. e \notin DOMAIN runs'
        BY <1>10, <4>3
      <4> QED
        BY <1>2, <4>1, <4>2, <4>4 DEF BagIn, BagToSet
    <3>4. Running(w)'
      <4>1. write'[w].before = write[w].before
        BY <1>1 DEF Turned
      <4>2. PICK rest : rest = Tail(pending)
        OBVIOUS
      <4>3. write'[w].pending = rest
        BY <1>1, <4>2
      <4>4. RowsOf(w)' # {}
        BY <1>2, <1>16
      <4> HIDE DEF pending
      <4> QED
        BY <1>0, <1>16, <1>18, <3>1, <3>3, <4>1, <4>2, <4>3, <4>4 DEF Running, At
    <3> QED
      BY <1>15, <1>19, <3>2, <3>4 DEF Automated
  <2> QED
    BY <2>1, <2>2
<1> QED
  BY <1>12, <1>13, <1>14, <1>20 DEF Runs

\* The definitions that apply to the row in hand are listed: from now on they run, and
\* no other has to.
LEMMA RunsListed ==
    ASSUME Typed, Runs, NEW w \in Writers, ListDefinitions(w), \A id : Made(id) => Made(id)'
    PROVE  Automated(w)'
<1>a. PICK i : i = Current(w)
  OBVIOUS
<1>b. PICK listed : listed = Applicable(ledger[i])
  OBVIOUS
<1>0. /\ At(w, "list") /\ InHand(w) /\ Running(w) /\ Automated(w) /\ WriterTyped(w)
      /\ UNCHANGED <<ledger, defs, runs>>
  BY DEF ListDefinitions, At, InHand, Runs, Automated, Typed
<1>1. Turned(w) /\ write'[w].pending = listed /\ (write'[w].stage = IF listed = <<>> THEN NextRow(w) ELSE "run")
  <2>1. Turned(w)
    BY Turning DEF Handler
  <2>2. write' = [write EXCEPT ![w].pending = listed,
                              ![w].stage = IF listed = <<>> THEN NextRow(w) ELSE "run",
                              ![w].left  = IF listed = <<>> THEN Tail(@) ELSE @]
    BY <1>a, <1>b DEF ListDefinitions
  <2> QED
    BY <1>0, <2>1, <2>2 DEF Typed, WriterTyped
<1>2. PICK at : at = {n \in DOMAIN defs : Applies(defs[n], ledger[i])}
  OBVIOUS
<1>3. IsList(defs) /\ (\A m, n \in DOMAIN defs : defs[m].id = defs[n].id => m = n) /\ at \in SUBSET DOMAIN defs
  BY <1>2 DEF Runs, Definitions
<1>4. listed = Picked(defs, at)
  BY <1>b, <1>2 DEF Applicable
<1>5. /\ IsList(listed)
      /\ \A n \in DOMAIN listed : \E m \in at : listed[n] = defs[m]
      /\ \A m \in at : \E n \in DOMAIN listed : listed[n] = defs[m]
      /\ \A m, n \in DOMAIN listed : listed[m].id = listed[n].id => m = n
  BY <1>3, <1>4, PickedFrom
<1>6. \A n \in DOMAIN listed : \E m \in DOMAIN defs : listed[n] = defs[m] /\ Applies(defs[m], ledger[i])
  BY <1>2, <1>5
<1>7. Known(w)'
  <2>1. \A n \in DOMAIN listed : Made(listed[n].id) /\ \E m \in DOMAIN defs : defs[m] = listed[n]
    BY <1>6 DEF Runs, Definitions
  <2>2. write'[w].before = write[w].before
    BY <1>1 DEF Turned
  <2> QED
    BY <1>0, <1>1, <1>5, <2>1, <2>2 DEF Automated, Known
<1>8. RowsOf(w)' = RowsOf(w) /\ Current(w)' = i /\ i \in RowsOf(w) /\ RowsOf(w) # {}
  BY <1>0, <1>a, RowsKept, CurrentRow DEF Running
<1>9. ASSUME NEW e \in RowsOf(w), e # i PROVE Ran(w, e)'
  <2>1. e \in Settled(w)
    BY <1>0, <1>a, <1>9 DEF Settled, At
  <2>2. Ran(w, e)
    BY <1>0, <2>1 DEF Automated
  <2> QED
    BY <1>0, <1>1, <2>2 DEF Ran, Turned
<1>10. CASE listed = <<>>
  <2>1. at = {}
    BY <1>5, <1>10
  <2>2. Ran(w, i)'
    BY <1>0, <1>2, <2>1 DEF Ran
  <2>3. \A e \in RowsOf(w) : Ran(w, e)'
    BY <1>9, <2>2
  <2>4. write'[w].stage \in {"average", "done", "stamp", "announce"}
    BY <1>0, <1>1, <1>10, NextTyped DEF At
  <2>5. Settled(w)' = RowsOf(w) /\ ~InHand(w)'
    BY <1>8, <2>4 DEF Settled, InHand
  <2> QED
    BY <1>7, <2>3, <2>5 DEF Automated
<1>11. CASE listed # <<>>
  <2>1. write'[w].stage = "run"
    BY <1>1, <1>11
  <2>2. Settled(w)' = RowsOf(w) \ {i} /\ InHand(w)'
    BY <1>8, <2>1 DEF Settled, InHand
  <2>3. \A k \in DOMAIN runs : k[2] # i
    BY <1>0, <1>a DEF Running, At
  <2>4. ASSUME NEW n \in DOMAIN listed PROVE Applies(listed[n], ledger[i]) /\ ~BagIn(<<listed[n].id, i>>, runs)
    <3>1. PICK e : e = <<listed[n].id, i>>
      OBVIOUS
    <3>2. e[2] = i
      BY <3>1
    <3>3. e \notin DOMAIN runs
      BY <2>3, <3>2
    <3> QED
      BY <1>6, <3>1, <3>3 DEF BagIn, BagToSet
  <2>5. \A n \in DOMAIN defs : Applies(defs[n], ledger[i]) => \E j \in DOMAIN listed : listed[j] = defs[n]
    BY <1>2, <1>5
  <2>6. Running(w)'
    BY <1>0, <1>1, <1>8, <1>11, <2>1, <2>4, <2>5 DEF Running, At
  <2>7. \A e \in Settled(w)' : Ran(w, e)'
    BY <1>9, <2>2
  <2> QED
    BY <1>7, <2>6, <2>7 DEF Automated
<1> QED
  BY <1>10, <1>11

\* A row that is recorded is one no definition has run on.
LEMMA RunsInserted ==
    ASSUME Typed, Runs, NEW w \in Writers, At(w, "insert"), Recorded(w).amount > 0,
           ledger' = Append(ledger, Recorded(w)), Turned(w), UNCHANGED <<defs, runs>>,
           write'[w].pending = write[w].pending, write'[w].stage \in {"publish", "list"},
           \A id : Made(id) => Made(id)'
    PROVE  Automated(w)'
<1>1. PICK row : row = Recorded(w)
  OBVIOUS
<1>2. row.by = w /\ ledger' = Append(ledger, row)
  BY <1>1, RecordedTyped
<1>3. PICK n : n = Len(ledger) + 1
  OBVIOUS
<1>4. /\ Len(ledger) \in Nat /\ DOMAIN ledger = 1 .. Len(ledger) /\ \A i \in DOMAIN ledger : ledger'[i] = ledger[i]
      /\ RowsOf(w)' = RowsOf(w) \cup {n} /\ n \notin RowsOf(w) /\ Current(w)' = n
  BY <1>2, <1>3, RowAdded
<1>5. Known(w)'
  BY KnownKept DEF Runs, Automated, Turned
<1>6. Settled(w)' = RowsOf(w) /\ Settled(w) = RowsOf(w)
  BY <1>4 DEF Settled, At
<1>7. \A i \in Settled(w)' : Ran(w, i)'
  <2> SUFFICES ASSUME NEW i \in RowsOf(w) PROVE Ran(w, i)'
    BY <1>6
  <2>1. Ran(w, i) /\ ledger'[i] = ledger[i]
    BY <1>4, <1>6 DEF Runs, Automated, RowsOf
  <2> QED
    BY <2>1 DEF Ran, Turned
<1>8. Running(w)'
  <2>1. \A k \in DOMAIN runs : k[2] # n
    BY <1>3, <1>4 DEF Runs, RunsBacked
  <2> QED
    BY <1>4, <2>1 DEF Running, At
<1> QED
  BY <1>5, <1>7, <1>8 DEF Automated

\* What ran stays with its definition and its row.
LEMMA BackedKept ==
    ASSUME Typed, Runs, UNCHANGED <<defs, runs>>, \A i \in DOMAIN ledger : i \in DOMAIN ledger' /\ ledger'[i] = ledger[i],
           \A id : Made(id) => Made(id)'
    PROVE  Definitions' /\ RunsBacked'
<1>1. Definitions'
  <2>1. ASSUME NEW n \in DOMAIN defs PROVE Made(defs[n].id)'
    <3>1. PICK id : id = defs[n].id
      OBVIOUS
    <3>2. Made(id)'
      BY <3>1 DEF Runs, Definitions
    <3> QED
      BY <3>1, <3>2
  <2> QED
    BY <2>1 DEF Runs, Definitions
<1>2. RunsBacked'
  BY DEF Runs, RunsBacked
<1> QED
  BY <1>1, <1>2

\* The steps of a handler that leave the definitions and the runs alone.
LEMMA RunsHandler ==
    ASSUME Typed, Runs, NEW w \in Writers, Handler(w), \A id : Made(id) => Made(id)'
    PROVE  Runs'
<1> USE DEF At
<1>0. Turned(w) /\ WriterTyped(w) /\ Automated(w) /\ \A x \in Writers : Automated(x)
  BY Turning DEF Typed, Runs
<1>1. CASE Define(w)
  <2>1. /\ At(w, "define") /\ UNCHANGED <<ledger, runs>> /\ Go(w, "announce")
        /\ \E d : d.id = w /\ defs' = <<d>> \o defs
    BY <1>1 DEF Define
  <2> QED
    BY <1>0, <2>1, Going, DefinitionAdded DEF Made, InHand
<1>2. CASE Replace(w)
  <2>1. /\ At(w, "replace") /\ UNCHANGED <<ledger, runs>> /\ Go(w, "done")
        /\ \E d : d.id = w /\ defs' = <<d>> \o defs
    BY <1>2 DEF Replace
  <2> QED
    BY <1>0, <2>1, Going, DefinitionAdded DEF Made, InHand
<1>3. CASE Purge(w)
  BY <1>3, DefinitionsPurged
<1>4. CASE Run(w) /\ Head(write[w].pending).id \in Ids
  BY <1>4, RunStored
<1>5. ASSUME UNCHANGED <<defs, runs>>, Automated(w)' PROVE Runs'
  <2>1. \A x \in Writers : Automated(x)'
    <3> SUFFICES ASSUME NEW x \in Writers, x # w PROVE Automated(x)'
      BY <1>5
    <3>1. Still(x) /\ write'[x] = write[x] /\ Automated(x)
      BY <1>0, StillElsewhere
    <3> QED
      BY <1>5, <3>1, AutomatedKept DEF Settled, Still, InHand
  <2>2. \A i \in DOMAIN ledger : i \in DOMAIN ledger' /\ ledger'[i] = ledger[i]
    <3>1. CASE UNCHANGED ledger
      BY <3>1
    <3>2. CASE Insert(w) /\ ledger' = Append(ledger, Recorded(w)) /\ Recorded(w).by = w
      BY <3>2, RowAdded
    <3> QED
      BY <3>1, <3>2, UnderWay
  <2> QED
    BY <1>5, <2>1, <2>2, BackedKept DEF Runs
<1>6. CASE ListDefinitions(w)
  <2>1. UNCHANGED <<defs, runs>>
    BY <1>6 DEF ListDefinitions
  <2> QED
    BY <1>5, <1>6, <2>1, RunsListed
<1>7. CASE Insert(w)
  <2>1. At(w, "insert") /\ UNCHANGED <<defs, runs>>
    BY <1>7 DEF Insert
  <2>2. CASE Recorded(w).amount > 0
    <3>1. /\ ledger' = Append(ledger, Recorded(w))
          /\ write'[w].stage \in {"publish", "list"} /\ write'[w].pending = write[w].pending
      BY <1>0, <1>7, <2>2 DEF Insert, Typed, WriterTyped
    <3> QED
      BY <1>0, <1>5, <2>1, <2>2, <3>1, RunsInserted
  <2>3. CASE ~(Recorded(w).amount > 0)
    <3>1. UNCHANGED ledger /\ Go(w, "failed")
      BY <1>7, <2>3 DEF Insert
    <3>2. Still(w) /\ write'[w].stage = "failed" /\ write'[w].pending = write[w].pending
      BY <3>1, Kept, Going
    <3> QED
      BY <1>0, <1>5, <2>1, <3>2, AutomatedKept DEF Settled, Still, InHand, Turned
  <2> QED
    BY <2>2, <2>3
<1>8. CASE Average(w)
  <2>1. At(w, "average") /\ UNCHANGED <<ledger, defs, runs>>
    BY <1>8 DEF Average
  <2>2. write'[w].stage \in {"insert", "failed"} /\ write'[w].pending = write[w].pending
    <3>1. CASE Head(write[w].left).direction \in {"inflow", "outflow"}
      BY <1>0, <1>8, <3>1 DEF Average, Typed, WriterTyped
    <3>2. CASE Head(write[w].left).direction \notin {"inflow", "outflow"}
      BY <1>8, <3>2, Going DEF Average
    <3> QED
      BY <3>1, <3>2
  <2> QED
    BY <1>0, <1>5, <2>1, <2>2, Kept, AutomatedKept DEF Settled, Still, InHand, Turned
<1>9. CASE \/ FindAccount(w) \/ OpenAccount(w) \/ Link(w) \/ PublishRow(w) \/ Stamp(w) \/ Announce(w) \/ Fail(w)
           \/ Run(w) /\ Head(write[w].pending).id \notin Ids
  <2>1. /\ UNCHANGED <<ledger, defs, runs>>
        /\ \E stage :
              /\ Go(w, stage)
              /\ \/ stage = "failed"
                 \/ At(w, "publish") /\ stage = "list"
                 \/ ~InHand(w) /\ write[w].stage # "failed" /\ stage \notin {"publish", "list", "run", "failed"}
    <3>1. CASE FindAccount(w)
      BY <3>1 DEF FindAccount, Accounted, InHand
    <3>2. CASE OpenAccount(w)
      BY <3>2 DEF OpenAccount, Accounted, InHand
    <3>3. CASE Link(w)
      BY <3>3 DEF Link, InHand
    <3>4. CASE PublishRow(w)
      BY <3>4 DEF PublishRow
    <3>5. CASE Stamp(w) \/ Announce(w)
      <4>1. /\ UNCHANGED <<ledger, defs, runs>> /\ write[w].stage \in {"stamp", "announce"}
            /\ Go(w, "announce") \/ Go(w, "done")
        BY <3>5 DEF Stamp, Announce
      <4>2. ~InHand(w) /\ write[w].stage # "failed"
        BY <4>1 DEF InHand
      <4>3. \A stage \in {"announce", "done"} : stage \notin {"publish", "list", "run", "failed"}
        OBVIOUS
      <4> QED
        BY <4>1, <4>2, <4>3
    <3>6. CASE Fail(w)
      BY <3>6 DEF Fail
    <3>7. CASE Run(w) /\ Head(write[w].pending).id \notin Ids
      BY <3>7 DEF Run
    <3> QED
      BY <1>9, <3>1, <3>2, <3>3, <3>4, <3>5, <3>6, <3>7
  <2>2. /\ Still(w) /\ write'[w].pending = write[w].pending
        /\ \/ write'[w].stage = "failed"
           \/ At(w, "publish") /\ write'[w].stage = "list"
           \/ ~InHand(w) /\ write[w].stage # "failed" /\ write'[w].stage \notin {"publish", "list", "run", "failed"}
    BY <2>1, Kept, Going
  <2>3. Settled(w)' \subseteq Settled(w)
    BY <2>2 DEF Settled, Still, InHand
  <2>4. InHand(w)' => InHand(w) /\ (At(w, "run")' <=> At(w, "run"))
    BY <2>2 DEF InHand
  <2> QED
    BY <1>0, <1>5, <2>1, <2>2, <2>3, <2>4, AutomatedKept DEF Turned
<1> QED
  BY <1>1, <1>2, <1>3, <1>4, <1>6, <1>7, <1>8, <1>9 DEF Handler

\* A request that arrives knows the definitions that stand, and has no row.
LEMMA RunsBegin ==
    ASSUME Typed, Books, Runs, NEW w \in Writers, NEW job \in Jobs, Begin(w, job), \A id : Made(id) => Made(id)'
    PROVE  Runs'
<1>1. /\ Own(w) /\ write'[w].pending = <<>> /\ write'[w].before = Ids
      /\ write'[w].stage = IF job.kind = "import" /\ Parse(job.file).raises THEN "failed"
                           ELSE CASE job.kind \in {"create", "import", "connect"} -> "account"
                                  [] job.kind = "define"   -> "define"
                                  [] job.kind = "automate" -> "purge"
  BY DEF Begin, Own, Typed
<1>2. UNCHANGED <<ledger, defs, runs>> /\ At(w, "idle")
  BY DEF Begin
<1>3. RowsOf(w) = {} /\ RowsOf(w)' = {}
  BY <1>2, RowsKept DEF Books, Booked
<1>4. write'[w].stage \notin {"publish", "list", "run"}
  BY <1>1, JobsAssumption
<1>5. Known(w)'
  <2>1. IsList(<<>>) /\ DOMAIN <<>> = {}
    BY EmptySeq DEF IsList
  <2>2. \A id \in Ids : Made(id)'
    BY DEF Runs, Definitions, Ids
  <2> QED
    BY <1>1, <2>1, <2>2 DEF Known
<1>6. Automated(w)'
  <2>1. Settled(w)' = {} /\ ~InHand(w)'
    BY <1>3, <1>4 DEF Settled, InHand
  <2> QED
    BY <1>5, <2>1 DEF Automated
<1>7. \A x \in Writers : Automated(x)'
  <2> SUFFICES ASSUME NEW x \in Writers, x # w PROVE Automated(x)'
    BY <1>6
  <2>1. Still(x) /\ write'[x] = write[x] /\ Automated(x)
    BY <1>1, <1>2, Kept DEF Runs, Own
  <2> QED
    BY <1>2, <2>1, AutomatedKept DEF Settled, Still, InHand, At
<1> QED
  BY <1>2, <1>7, BackedKept DEF Runs

\* Nothing has run.
LEMMA RunsInit == Init => Runs
<1> SUFFICES ASSUME Init PROVE Runs
  OBVIOUS
<1>1. ledger = <<>> /\ defs = Standing /\ runs = EmptyBag /\ DOMAIN ledger = {} /\ DOMAIN runs = {}
  BY DEF Init, EmptyBag, SetToBag
<1>2. Definitions
  BY <1>1, StandingAssumption DEF Definitions, Made
<1>3. RunsBacked
  BY <1>1 DEF RunsBacked
<1>4. ASSUME NEW w \in Writers PROVE Automated(w)
  <2>1. RowsOf(w) = {}
    BY <1>1 DEF RowsOf
  <2>2. /\ write[w].stage = "idle" /\ write[w].pending = <<>> /\ write[w].before = {}
        /\ IsList(<<>>) /\ DOMAIN <<>> = {}
    BY EmptySeq DEF Init, IdleWriter, IsList
  <2> QED
    BY <2>1, <2>2 DEF Automated, Known, Settled, InHand
<1> QED
  BY <1>2, <1>3, <1>4 DEF Runs

\* The automations are inductive, given the types and the books.
LEMMA RunsStep ==
    ASSUME Typed, Books, Runs, [Next]_vars
    PROVE  Runs'
<1>0. \A id : Made(id) => Made(id)'
  BY MadeKept
<1>1. CASE \E w \in Writers, job \in Jobs : Begin(w, job)
  BY <1>0, <1>1, RunsBegin
<1>2. CASE \E w \in Writers : Handler(w)
  BY <1>0, <1>2, RunsHandler
<1>3. ASSUME UNCHANGED <<ledger, defs, runs, write>> PROVE Runs'
  <2>1. ASSUME NEW x \in Writers PROVE Automated(x)'
    <3>1. Automated(x) /\ Still(x)
      BY <1>3, Kept DEF Runs
    <3> QED
      BY <1>0, <1>3, <3>1, AutomatedKept DEF Settled, Still, InHand, At
  <2> QED
    BY <1>0, <1>3, <2>1, BackedKept DEF Runs
<1>4. CASE \E q \in Readers : Reading(q)
  BY <1>3, <1>4, ReadingKeeps
<1>5. CASE MonthPasses \/ UNCHANGED vars
  BY <1>3, <1>5 DEF MonthPasses, vars
<1> QED
  BY <1>1, <1>2, <1>4, <1>5, Steps

-----------------------------------------------------------------------------
(* Proofs: flags.                                                          *)

\* The beginning of a ledger is the same when rows are added to it.
LEMMA Beginnings ==
    ASSUME NEW s, IsList(s), NEW e, NEW k \in 0 .. Len(s)
    PROVE  /\ SubSeq(Append(s, e), 1, k) = SubSeq(s, 1, k)
           /\ SubSeq(s, 1, Len(s)) = s
<1>1. Len(s) \in Nat /\ DOMAIN s = 1 .. Len(s) /\ \A i \in DOMAIN s : Append(s, e)[i] = s[i]
  BY Lists, Appending
<1>2. SubSeq(s, 1, k) = [i \in 1 .. k |-> s[i]] /\ SubSeq(Append(s, e), 1, k) = [i \in 1 .. k |-> Append(s, e)[i]]
  BY <1>1
<1>3. \A i \in 1 .. k : Append(s, e)[i] = s[i]
  BY <1>1
<1>4. [i \in 1 .. k |-> Append(s, e)[i]] = [i \in 1 .. k |-> s[i]]
  BY <1>3
<1>5. SubSeq(s, 1, Len(s)) = s
  BY SubSeqFull DEF IsList
<1> QED
  BY <1>2, <1>4, <1>5

\* FlagsHonest of one row.
Earlier(i) == {j \in 1 .. i - 1 : ledger[j].by = ledger[i].by}
Honest(i) ==
    \E k \in Base(Earlier(i)) .. i - 1, m \in Then(Earlier(i)) .. ledger[i].at :
        ledger[i].anomaly = Flagged(ledger[i].direction, ledger[i].amount, RecentAverage(SubSeq(ledger, 1, k), m))

\* The property, row by row.
LEMMA HonestIs == FlagsHonest <=> \A i \in DOMAIN ledger : Honest(i)
BY DEF FlagsHonest, Honest, Earlier, Base, Then

\* The last of some rows is one of the ledger's, as long as it only grows.
LEMMA BaseTyped ==
    ASSUME Typed, NEW rows \in SUBSET DOMAIN ledger
    PROVE  /\ Base(rows) \in 0 .. Len(ledger) /\ Then(rows) \in 0 .. month
           /\ rows # {} => Max(rows) \in rows
<1>1. Len(ledger) \in Nat /\ DOMAIN ledger = 1 .. Len(ledger) /\ month \in 0 .. MaxMonths
  BY RowsFinite DEF Typed
<1>2. \A i \in DOMAIN ledger : ledger[i].at \in 0 .. month
  <2> SUFFICES ASSUME NEW i \in DOMAIN ledger PROVE ledger[i].at \in 0 .. month
    OBVIOUS
  <2>1. ledger[i].at \in 0 .. MaxMonths /\ ledger[i].at <= month
    BY DEF Typed, Constrained
  <2> QED
    BY <2>1, <1>1, BooksAssumption
<1>3. CASE rows = {}
  BY <1>1, <1>3, BooksAssumption DEF Base, Then
<1>4. CASE rows # {}
  <2>1. PICK max : max = Max(rows)
    OBVIOUS
  <2>2. max \in rows
    BY <1>1, <1>4, <2>1, Greatest
  <2>3. Base(rows) = max /\ Then(rows) = ledger[max].at
    BY <1>4, <2>1 DEF Base, Then
  <2> QED
    BY <1>1, <1>2, <2>1, <2>2, <2>3
<1> QED
  BY <1>3, <1>4

\* A row's flag is as honest as it was, whatever is recorded behind it.
LEMMA HonestKept ==
    ASSUME Typed, NEW row, ledger' = Append(ledger, row), NEW i \in DOMAIN ledger, Honest(i)
    PROVE  Honest(i)'
<1>1. /\ Len(ledger) \in Nat /\ DOMAIN ledger = 1 .. Len(ledger) /\ i \in 1 .. Len(ledger) /\ IsList(ledger)
      /\ \A j \in DOMAIN ledger : ledger'[j] = ledger[j]
  BY RowAdded DEF Typed
<1>2. Earlier(i)' = Earlier(i) /\ Earlier(i) \in SUBSET DOMAIN ledger
  <2>1. \A j \in 1 .. i - 1 : j \in DOMAIN ledger
    BY <1>1
  <2> QED
    BY <1>1, <2>1 DEF Earlier
<1>3. Base(Earlier(i))' = Base(Earlier(i)) /\ Then(Earlier(i))' = Then(Earlier(i))
  <2>1. Earlier(i) # {} => ledger'[Max(Earlier(i))] = ledger[Max(Earlier(i))]
    BY <1>1, <1>2, BaseTyped
  <2> QED
    BY <1>2, <2>1 DEF Base, Then
<1>4. \A k \in Base(Earlier(i)) .. i - 1 : SubSeq(ledger', 1, k) = SubSeq(ledger, 1, k)
  <2> SUFFICES ASSUME NEW k \in Base(Earlier(i)) .. i - 1 PROVE SubSeq(ledger', 1, k) = SubSeq(ledger, 1, k)
    OBVIOUS
  <2>1. Base(Earlier(i)) \in Nat
    BY <1>1, <1>2, BaseTyped
  <2>2. k \in 0 .. Len(ledger)
    BY <1>1, <2>1
  <2> QED
    BY <1>1, <2>2, Beginnings
<1>5. ledger'[i] = ledger[i]
  BY <1>1
<1>6. PICK k \in Base(Earlier(i)) .. i - 1, m \in Then(Earlier(i)) .. ledger[i].at :
         ledger[i].anomaly = Flagged(ledger[i].direction, ledger[i].amount, RecentAverage(SubSeq(ledger, 1, k), m))
  BY DEF Honest
<1>7. ledger'[i].anomaly = Flagged(ledger'[i].direction, ledger'[i].amount, RecentAverage(SubSeq(ledger', 1, k), m))
  BY <1>4, <1>5, <1>6
<1> QED
  BY <1>3, <1>5, <1>6, <1>7 DEF Honest

\* What a writer holds is as old as it was.
LEMMA AveragedKept ==
    ASSUME Typed, NEW x \in Writers, Averaged(x), Still(x), write'[x] = write[x],
           \/ UNCHANGED ledger
           \/ \E row : ledger' = Append(ledger, row),
           month' \in Nat, month' >= month
    PROVE  Averaged(x)'
<1> SUFFICES ASSUME At(x, "insert")
             PROVE  \E k \in Base(RowsOf(x))' .. Len(ledger'), m \in Then(RowsOf(x))' .. month' :
                        write[x].average = RecentAverage(SubSeq(ledger', 1, k), m)
  BY DEF Averaged, At
<1>1. PICK k \in Base(RowsOf(x)) .. Len(ledger), m \in Then(RowsOf(x)) .. month :
         write[x].average = RecentAverage(SubSeq(ledger, 1, k), m)
  BY DEF Averaged
<1>2. Len(ledger) \in Nat /\ IsList(ledger) /\ RowsOf(x) \in SUBSET DOMAIN ledger
  BY RowsFinite DEF Typed
<1>3. Base(RowsOf(x)) \in Nat /\ Then(RowsOf(x)) \in Nat /\ month \in Nat /\ (RowsOf(x) # {} => Max(RowsOf(x)) \in RowsOf(x))
  <2>1. month \in Nat
    BY BooksAssumption DEF Typed
  <2> QED
    BY <1>2, <2>1, BaseTyped
<1>4. Base(RowsOf(x))' = Base(RowsOf(x)) /\ Then(RowsOf(x))' = Then(RowsOf(x))
  BY <1>3 DEF Still, Base, Then
<1>5. SubSeq(ledger', 1, k) = SubSeq(ledger, 1, k) /\ Len(ledger') \in Nat /\ Len(ledger') >= Len(ledger)
  <2>1. k \in 0 .. Len(ledger)
    BY <1>1, <1>2, <1>3
  <2>2. CASE UNCHANGED ledger
    BY <1>2, <2>2
  <2>3. CASE \E row : ledger' = Append(ledger, row)
    <3>1. PICK row : ledger' = Append(ledger, row)
      BY <2>3
    <3>2. Len(ledger') = Len(ledger) + 1
      BY <1>2, <3>1, Appending
    <3>3. SubSeq(ledger', 1, k) = SubSeq(ledger, 1, k)
      BY <1>2, <2>1, <3>1, Beginnings
    <3> QED
      BY <1>2, <3>2, <3>3
  <2> QED
    BY <2>2, <2>3
<1>6. k \in Base(RowsOf(x))' .. Len(ledger') /\ m \in Then(RowsOf(x))' .. month'
  <2>1. PICK size \in Nat : size = Len(ledger)
    BY <1>2
  <2>2. PICK grown \in Nat : grown = Len(ledger')
    BY <1>5
  <2>3. k \in Base(RowsOf(x)) .. grown
    BY <1>1, <1>3, <1>5, <2>1, <2>2
  <2>4. m \in Then(RowsOf(x)) .. month'
    BY <1>1, <1>3
  <2> QED
    BY <1>4, <2>2, <2>3, <2>4
<1> QED
  BY <1>1, <1>5, <1>6

\* Each statement of a handler keeps the flags honest.
LEMMA FlagsHandler ==
    ASSUME Typed, Flags, NEW w \in Writers, Handler(w)
    PROVE  Flags'
<1> USE DEF At
<1>0. /\ Turned(w) /\ WriterTyped(w) /\ Averaged(w) /\ month \in Nat /\ IsList(ledger)
      /\ Len(ledger) \in Nat /\ DOMAIN ledger = 1 .. Len(ledger)
      /\ \A i \in DOMAIN ledger : Honest(i)
  BY Turning, RowsFinite, HonestIs, BooksAssumption DEF Typed, Flags
<1>1. UNCHANGED month
  BY DEF Handler, FindAccount, OpenAccount, Link, Average, Insert, PublishRow, ListDefinitions, Run, Stamp, Define,
         Announce, Purge, Replace, Fail
<1>2. ASSUME NEW x \in Writers, x # w PROVE Averaged(x)'
  <2>1. \/ UNCHANGED ledger
        \/ \E row : ledger' = Append(ledger, row)
    BY UnderWay
  <2>2. Averaged(x) /\ Still(x) /\ write'[x] = write[x]
    BY <1>2, StillElsewhere DEF Flags
  <2>3. month' \in Nat /\ month' >= month
    BY <1>0, <1>1
  <2> QED
    BY <2>1, <2>2, <2>3, AveragedKept
<1>3. CASE Insert(w) /\ Recorded(w).amount > 0
  <2>1. PICK r : r = Recorded(w)
    OBVIOUS
  <2>2. /\ At(w, "insert") /\ ledger' = Append(ledger, r) /\ write'[w].stage \in {"publish", "list"}
    BY <1>0, <1>3, <2>1 DEF Insert, Typed, WriterTyped
  <2>3. r.by = w /\ r.at = month /\ r.direction = Head(write[w].left).direction
        /\ r.amount = Head(write[w].left).amount
    BY <1>3, <2>1, <2>2, RecordedTyped
  <2>4. r.anomaly = Flagged(r.direction, r.amount, write[w].average)
    BY <2>1, <2>3 DEF Recorded
  <2>5. PICK n : n = Len(ledger) + 1
    OBVIOUS
  <2>6. /\ DOMAIN ledger' = 1 .. n /\ ledger'[n] = r /\ \A i \in DOMAIN ledger : ledger'[i] = ledger[i]
    BY <2>2, <2>5, RowAdded
  <2>7. PICK k \in Base(RowsOf(w)) .. Len(ledger), m \in Then(RowsOf(w)) .. month :
           write[w].average = RecentAverage(SubSeq(ledger, 1, k), m)
    BY <1>0, <2>2 DEF Averaged
  <2>8. RowsOf(w) \in SUBSET DOMAIN ledger
    BY DEF RowsOf
  <2>9. Base(RowsOf(w)) \in Nat /\ Then(RowsOf(w)) \in Nat /\ (RowsOf(w) # {} => Max(RowsOf(w)) \in RowsOf(w))
    BY <1>0, <2>8, BaseTyped
  <2>10. Earlier(n)' = RowsOf(w)
    <3>1. \A j \in 1 .. n - 1 : j \in DOMAIN ledger /\ ledger'[j] = ledger[j]
      BY <1>0, <2>5, <2>6
    <3>2. 1 .. n - 1 = DOMAIN ledger
      BY <1>0, <2>5
    <3> QED
      BY <2>3, <2>6, <3>1, <3>2 DEF Earlier, RowsOf
  <2>11. Base(Earlier(n))' = Base(RowsOf(w)) /\ Then(Earlier(n))' = Then(RowsOf(w))
    BY <2>6, <2>8, <2>9, <2>10 DEF Base, Then
  <2>12. SubSeq(ledger', 1, k) = SubSeq(ledger, 1, k)
    <3>1. k \in 0 .. Len(ledger)
      BY <1>0, <2>7, <2>9
    <3> QED
      BY <1>0, <2>2, <3>1, Beginnings
  <2>13. Honest(n)'
    <3>1. k \in Base(Earlier(n))' .. n - 1 /\ m \in Then(Earlier(n))' .. ledger'[n].at
      BY <1>0, <2>3, <2>5, <2>6, <2>7, <2>11
    <3>2. ledger'[n].anomaly = Flagged(ledger'[n].direction, ledger'[n].amount, RecentAverage(SubSeq(ledger', 1, k), m))
      BY <2>4, <2>6, <2>7, <2>12
    <3> QED
      BY <3>1, <3>2 DEF Honest
  <2>14. \A i \in DOMAIN ledger' : Honest(i)'
    <3> SUFFICES ASSUME NEW i \in DOMAIN ledger' PROVE Honest(i)'
      OBVIOUS
    <3>1. i \in DOMAIN ledger \/ i = n
      BY <1>0, <2>5, <2>6
    <3> QED
      BY <1>0, <2>2, <2>13, <3>1, HonestKept
  <2>15. FlagsHonest'
    BY <2>14 DEF FlagsHonest, Honest, Earlier, Base, Then
  <2>16. Averaged(w)'
    BY <2>2 DEF Averaged
  <2> QED
    BY <1>2, <2>15, <2>16 DEF Flags
<1>4. ASSUME UNCHANGED ledger, Averaged(w)' PROVE Flags'
  <2>1. FlagsHonest'
    BY <1>4 DEF Flags, FlagsHonest
  <2> QED
    BY <1>2, <1>4, <2>1 DEF Flags
<1>5. CASE Average(w)
  <2>1. At(w, "average") /\ UNCHANGED ledger
    BY <1>5 DEF Average
  <2>2. \/ write'[w].stage = "failed"
        \/ write'[w].stage = "insert" /\ write'[w].average = RecentAverage(ledger, month)
    <3>1. CASE Head(write[w].left).direction \in {"inflow", "outflow"}
      BY <1>0, <1>5, <3>1 DEF Average, Typed, WriterTyped
    <3>2. CASE Head(write[w].left).direction \notin {"inflow", "outflow"}
      BY <1>5, <3>2, Going DEF Average
    <3> QED
      BY <3>1, <3>2
  <2>3. CASE write'[w].stage = "insert" /\ write'[w].average = RecentAverage(ledger, month)
    <3>1. PICK k : k = Len(ledger)
      OBVIOUS
    <3>2. PICK m : m = month
      OBVIOUS
    <3>3. RowsOf(w) \in SUBSET DOMAIN ledger /\ RowsOf(w)' = RowsOf(w)
      BY <2>1, RowsKept DEF RowsOf
    <3>4. Base(RowsOf(w))' = Base(RowsOf(w)) /\ Then(RowsOf(w))' = Then(RowsOf(w))
      BY <2>1, <3>3 DEF Base, Then
    <3>5. Base(RowsOf(w)) \in 0 .. Len(ledger) /\ Then(RowsOf(w)) \in 0 .. month
      BY <3>3, BaseTyped
    <3>6. k \in Base(RowsOf(w))' .. Len(ledger') /\ m \in Then(RowsOf(w))' .. month'
      BY <1>0, <1>1, <2>1, <3>1, <3>2, <3>4, <3>5
    <3>7. k \in 0 .. Len(ledger)
      BY <1>0, <3>1
    <3>8. SubSeq(ledger', 1, k) = ledger
      BY <1>0, <2>1, <3>1, <3>7, Beginnings
    <3>9. write'[w].average = RecentAverage(SubSeq(ledger', 1, k), m)
      BY <2>3, <3>2, <3>8
    <3>10. Averaged(w)'
      BY <3>6, <3>9 DEF Averaged
    <3> QED
      BY <1>4, <2>1, <3>10
  <2>4. CASE write'[w].stage = "failed"
    BY <1>4, <2>1, <2>4 DEF Averaged
  <2> QED
    BY <2>2, <2>3, <2>4
<1>6. CASE ~Average(w) /\ ~(Insert(w) /\ Recorded(w).amount > 0)
  <2>1. UNCHANGED ledger /\ write'[w].stage # "insert"
    <3>1. CASE Insert(w)
      BY <1>6, <3>1, Going DEF Insert
    <3>2. CASE ListDefinitions(w)
      <4>1. write'[w].stage \in {NextRow(w), "run"} /\ UNCHANGED ledger /\ At(w, "list")
        BY <1>0, <3>2 DEF ListDefinitions, Typed, WriterTyped
      <4>2. NextRow(w) # "insert"
        BY <4>1, NextTyped
      <4> QED
        BY <4>1, <4>2
    <3>3. CASE Run(w)
      <4>1. write'[w].stage \in {NextRow(w), "run", "failed"}
        <5>1. CASE Head(write[w].pending).id \in Ids
          BY <1>0, <3>3, <5>1 DEF Run, Typed, WriterTyped
        <5>2. CASE Head(write[w].pending).id \notin Ids
          BY <3>3, <5>2, Going DEF Run
        <5> QED
          BY <5>1, <5>2
      <4>2. UNCHANGED ledger /\ At(w, "run")
        BY <3>3 DEF Run
      <4>3. NextRow(w) # "insert"
        BY <4>2, NextTyped
      <4> QED
        BY <4>1, <4>2, <4>3
    <3>4. CASE FindAccount(w) \/ OpenAccount(w) \/ Link(w) \/ PublishRow(w) \/ Stamp(w) \/ Define(w) \/ Announce(w)
               \/ Purge(w) \/ Replace(w) \/ Fail(w)
      <4>1. Accounted(w) # "insert"
        BY DEF Accounted
      <4>2. CASE FindAccount(w) \/ OpenAccount(w) \/ Link(w) \/ PublishRow(w)
        <5>1. UNCHANGED ledger /\ \E stage : Go(w, stage) /\ stage # "insert"
          BY <4>1, <4>2 DEF FindAccount, OpenAccount, Link, PublishRow
        <5> QED
          BY <5>1, Going
      <4>3. CASE Stamp(w) \/ Define(w) \/ Announce(w) \/ Purge(w) \/ Replace(w) \/ Fail(w)
        <5>1. /\ UNCHANGED ledger
              /\ Go(w, "announce") \/ Go(w, "done") \/ Go(w, "replace") \/ Go(w, "failed")
          BY <4>3 DEF Stamp, Define, Announce, Purge, Replace, Fail
        <5> QED
          BY <5>1, Going
      <4> QED
        BY <3>4, <4>2, <4>3
    <3> QED
      BY <1>6, <3>1, <3>2, <3>3, <3>4 DEF Handler
  <2> QED
    BY <1>4, <2>1 DEF Averaged
<1> QED
  BY <1>3, <1>5, <1>6

\* The flags are inductive, given the types.
LEMMA FlagsStep ==
    ASSUME Typed, Flags, [Next]_vars
    PROVE  Flags'
<1>0. month \in Nat
  BY BooksAssumption DEF Typed
<1>1. ASSUME UNCHANGED ledger, month' \in Nat, month' >= month,
             \A x \in Writers : write'[x] = write[x] \/ write'[x].stage # "insert"
      PROVE  Flags'
  <2>1. FlagsHonest'
    BY <1>1 DEF Flags, FlagsHonest
  <2>2. ASSUME NEW x \in Writers PROVE Averaged(x)'
    <3>1. Averaged(x) /\ Still(x)
      BY <1>1, Kept DEF Flags
    <3>2. CASE write'[x] = write[x]
      BY <1>1, <3>1, <3>2, AveragedKept
    <3>3. CASE write'[x].stage # "insert"
      BY <3>3 DEF Averaged, At
    <3> QED
      BY <1>1, <3>2, <3>3
  <2> QED
    BY <2>1, <2>2 DEF Flags
<1>2. ASSUME NEW w \in Writers, NEW job \in Jobs, Begin(w, job) PROVE Flags'
  <2>1. /\ Own(w) /\ UNCHANGED <<ledger, month>>
        /\ write'[w].stage = IF job.kind = "import" /\ Parse(job.file).raises THEN "failed"
                             ELSE CASE job.kind \in {"create", "import", "connect"} -> "account"
                                    [] job.kind = "define"   -> "define"
                                    [] job.kind = "automate" -> "purge"
    BY <1>2 DEF Begin, Own, Typed
  <2>2. write'[w].stage # "insert"
    BY <2>1, JobsAssumption
  <2>3. \A x \in Writers : write'[x] = write[x] \/ write'[x].stage # "insert"
    BY <2>1, <2>2 DEF Own
  <2>4. month' \in Nat /\ month' >= month
    BY <1>0, <2>1
  <2> QED
    BY <1>1, <2>1, <2>3, <2>4
<1>3. CASE \E w \in Writers : Handler(w)
  BY <1>3, FlagsHandler
<1>4. CASE \E q \in Readers : Reading(q)
  <2>1. UNCHANGED <<ledger, write, month>>
    BY <1>4, ReadingKeeps
  <2> QED
    BY <1>0, <1>1, <2>1
<1>5. CASE MonthPasses
  <2>1. UNCHANGED <<ledger, write>> /\ month' = month + 1
    BY <1>5 DEF MonthPasses
  <2> QED
    BY <1>0, <1>1, <2>1
<1>6. CASE UNCHANGED vars
  <2>1. UNCHANGED <<ledger, write, month>>
    BY <1>6 DEF vars
  <2> QED
    BY <1>0, <1>1, <2>1
<1> QED
  BY <1>2, <1>3, <1>4, <1>5, <1>6, Steps

\* Nothing is flagged.
LEMMA FlagsInit == Init => Flags
<1> SUFFICES ASSUME Init PROVE Flags
  OBVIOUS
<1>1. DOMAIN ledger = {} /\ \A w \in Writers : ~At(w, "insert")
  BY DEF Init, IdleWriter, At
<1> QED
  BY <1>1 DEF Flags, FlagsHonest, Averaged

-----------------------------------------------------------------------------
(* Sums.                                                                   *)

\* What a sum takes first.
Taken(s) == CHOOSE x \in s : TRUE

\* The sums of the subsets of a set.
Sums(f, S, iter) == iter = [s \in SUBSET S |-> IF s = {} THEN 0 ELSE f[Taken(s)] + iter[s \ {Taken(s)}]]

\* A sum is one of them.
LEMMA SumIs ==
    ASSUME NEW f, NEW S
    PROVE  SumFunctionOnSet(f, S) = (CHOOSE iter : Sums(f, S, iter))[S]
BY Zenon DEF SumFunctionOnSet, FoldFunctionOnSet, MapThenFoldSet, Sums, Taken

\* Of the subsets with so many elements at most there are sums, whatever the number.
Small(S, n) == {s \in SUBSET S : Cardinality(s) <= n}
SumsTo(f, S, n) ==
    \E g : g = [s \in Small(S, n) |-> IF s = {} THEN 0 ELSE f[Taken(s)] + g[s \ {Taken(s)}]]

LEMMA SumsNext ==
    ASSUME NEW f, NEW S, IsFiniteSet(S), NEW n \in Nat, SumsTo(f, S, n)
    PROVE  SumsTo(f, S, n + 1)
<1>1. PICK g : g = [s \in Small(S, n) |-> IF s = {} THEN 0 ELSE f[Taken(s)] + g[s \ {Taken(s)}]]
  BY DEF SumsTo
<1>2. PICK h : h = [s \in Small(S, n + 1) |-> IF s \in Small(S, n) THEN g[s] ELSE f[Taken(s)] + g[s \ {Taken(s)}]]
  OBVIOUS
<1>3. Small(S, n) \subseteq Small(S, n + 1)
  <2> SUFFICES ASSUME NEW s \in SUBSET S, Cardinality(s) <= n PROVE Cardinality(s) <= n + 1
    BY DEF Small
  <2> QED
    BY FS_Subset, FS_CardinalityType
<1>4. ASSUME NEW s \in Small(S, n + 1), s # {} PROVE s \ {Taken(s)} \in Small(S, n)
  <2>1. s \in SUBSET S /\ Taken(s) \in s /\ IsFiniteSet(s) /\ Cardinality(s) \in Nat
    BY <1>4, FS_Subset, FS_CardinalityType DEF Small, Taken
  <2>2. Cardinality(s \ {Taken(s)}) = Cardinality(s) - 1
    BY <2>1, FS_RemoveElement
  <2> QED
    BY <2>1, <2>2 DEF Small
<1>5. ASSUME NEW s \in Small(S, n + 1)
      PROVE  h[s] = IF s = {} THEN 0 ELSE f[Taken(s)] + h[s \ {Taken(s)}]
  <2>1. CASE s = {}
    <3>1. s \in Small(S, n)
      BY <2>1, FS_EmptySet DEF Small
    <3> QED
      BY <1>1, <1>2, <2>1, <3>1
  <2>2. CASE s # {}
    <3>1. s \ {Taken(s)} \in Small(S, n)
      BY <1>4, <2>2
    <3>2. h[s \ {Taken(s)}] = g[s \ {Taken(s)}]
      BY <1>2, <1>3, <3>1
    <3>3. h[s] = f[Taken(s)] + g[s \ {Taken(s)}]
      BY <1>1, <1>2, <2>2
    <3> QED
      BY <2>2, <3>2, <3>3
  <2> QED
    BY <2>1, <2>2
<1>6. h = [s \in Small(S, n + 1) |-> IF s = {} THEN 0 ELSE f[Taken(s)] + h[s \ {Taken(s)}]]
  BY <1>2, <1>5
<1> QED
  BY <1>6 DEF SumsTo

\* So a finite set has its sums.
LEMMA SumsExist ==
    ASSUME NEW f, NEW S, IsFiniteSet(S)
    PROVE  \E iter : Sums(f, S, iter)
<1>0. Cardinality(S) \in Nat
  BY FS_CardinalityType
<1>1. SumsTo(f, S, 0)
  <2>1. Small(S, 0) = {{}}
    <3>1. ASSUME NEW s \in Small(S, 0) PROVE s = {}
      <4>1. s \in SUBSET S /\ IsFiniteSet(s) /\ Cardinality(s) \in Nat /\ Cardinality(s) <= 0
        BY FS_Subset, FS_CardinalityType DEF Small
      <4> QED
        BY <4>1, FS_EmptySet
    <3>2. {} \in Small(S, 0)
      BY FS_EmptySet DEF Small
    <3> QED
      BY <3>1, <3>2
  <2>2. PICK g : g = [s \in Small(S, 0) |-> 0]
    OBVIOUS
  <2>3. g = [s \in Small(S, 0) |-> IF s = {} THEN 0 ELSE f[Taken(s)] + g[s \ {Taken(s)}]]
    BY <2>1, <2>2
  <2> QED
    BY <2>3 DEF SumsTo
<1>2. SumsTo(f, S, Cardinality(S))
  <2> SUFFICES ASSUME ~SumsTo(f, S, Cardinality(S)) PROVE FALSE
    OBVIOUS
  <2> DEFINE Bad == {n \in 1 .. Cardinality(S) : ~SumsTo(f, S, n)}
  <2>1. Bad # {}
    BY <1>0, <1>1
  <2>2. Min(Bad) \in Bad /\ \A y \in Bad : Min(Bad) <= y
    <3>1. Bad \in SUBSET (1 .. Cardinality(S))
      OBVIOUS
    <3> HIDE DEF Bad
    <3> QED
      BY <1>0, <2>1, <3>1, Least
  <2>3. PICK n \in 1 .. Cardinality(S) : n = Min(Bad) /\ ~SumsTo(f, S, n)
    BY <2>2
  <2>4. SumsTo(f, S, n - 1)
    <3>1. n - 1 \notin Bad
      <4> HIDE DEF Bad
      <4> QED
        BY <1>0, <2>2, <2>3
    <3> QED
      BY <1>0, <1>1, <3>1
  <2>5. n - 1 \in Nat /\ (n - 1) + 1 = n
    BY <1>0
  <2> QED
    BY <2>3, <2>4, <2>5, SumsNext
<1>3. Small(S, Cardinality(S)) = SUBSET S
  BY FS_Subset DEF Small
<1> QED
  BY <1>2, <1>3 DEF SumsTo, Sums

\* Sums of the same numbers are the same.
LEMMA SumsSame ==
    ASSUME NEW f, NEW S, NEW i, Sums(f, S, i), NEW g, NEW R, NEW j, Sums(g, R, j),
           NEW A, A \subseteq S, A \subseteq R, IsFiniteSet(A), \A x \in A : f[x] = g[x]
    PROVE  i[A] = j[A]
<1> SUFFICES ASSUME i[A] # j[A] PROVE FALSE
  OBVIOUS
<1> DEFINE Bad == {B \in SUBSET A : i[B] # j[B]}
<1>1. PICK B \in Bad : Innermost(B, Bad)
  <2>1. Bad \subseteq SUBSET A /\ Bad # {}
    OBVIOUS
  <2> HIDE DEF Bad
  <2> QED
    BY <2>1, Smallest
<1>2. /\ i[B] = IF B = {} THEN 0 ELSE f[Taken(B)] + i[B \ {Taken(B)}]
      /\ j[B] = IF B = {} THEN 0 ELSE g[Taken(B)] + j[B \ {Taken(B)}]
  <2>1. B \in SUBSET S /\ B \in SUBSET R
    OBVIOUS
  <2> HIDE DEF Bad
  <2> QED
    BY <2>1 DEF Sums
<1>3. B # {}
  BY <1>2
<1>4. Taken(B) \in B
  BY <1>3 DEF Taken
<1>5. B \ {Taken(B)} \notin Bad
  <2> HIDE DEF Bad
  <2> QED
    BY <1>1, <1>4 DEF Innermost
<1>6. i[B \ {Taken(B)}] = j[B \ {Taken(B)}]
  BY <1>5
<1>7. f[Taken(B)] = g[Taken(B)]
  BY <1>4
<1> QED
  BY <1>2, <1>6, <1>7

\* A sum takes one number after the other.
LEMMA SumStep ==
    ASSUME NEW f, NEW S, IsFiniteSet(S)
    PROVE  SumFunctionOnSet(f, S) = IF S = {} THEN 0 ELSE f[Taken(S)] + SumFunctionOnSet(f, S \ {Taken(S)})
<1> DEFINE R == S \ {Taken(S)}
<1>1. PICK i : Sums(f, S, i) /\ i[S] = SumFunctionOnSet(f, S)
  BY SumIs, SumsExist
<1>2. IsFiniteSet(R)
  BY FS_Subset
<1>3. PICK j : Sums(f, R, j) /\ j[R] = SumFunctionOnSet(f, R)
  <2> HIDE DEF R
  <2> QED
    BY <1>2, SumIs, SumsExist
<1>4. i[R] = j[R]
  <2>1. R \subseteq S
    OBVIOUS
  <2> HIDE DEF R
  <2> QED
    BY <1>1, <1>2, <1>3, <2>1, SumsSame
<1>5. i[S] = IF S = {} THEN 0 ELSE f[Taken(S)] + i[S \ {Taken(S)}]
  <2>1. S \in SUBSET S
    OBVIOUS
  <2> QED
    BY <1>1, <2>1 DEF Sums
<1> QED
  BY <1>1, <1>3, <1>4, <1>5

\* The sum of the same numbers is the same.
LEMMA SumSame ==
    ASSUME NEW f, NEW g, NEW S, IsFiniteSet(S), \A x \in S : f[x] = g[x]
    PROVE  SumFunctionOnSet(f, S) = SumFunctionOnSet(g, S)
<1>1. PICK i : Sums(f, S, i) /\ i[S] = SumFunctionOnSet(f, S)
  BY SumIs, SumsExist
<1>2. PICK j : Sums(g, S, j) /\ j[S] = SumFunctionOnSet(g, S)
  BY SumIs, SumsExist
<1> QED
  BY <1>1, <1>2, SumsSame

\* Whole numbers have a whole sum.
LEMMA SumTyped ==
    ASSUME NEW f, NEW S, IsFiniteSet(S), \A x \in S : f[x] \in Int
    PROVE  SumFunctionOnSet(f, S) \in Int
<1> SUFFICES ASSUME SumFunctionOnSet(f, S) \notin Int PROVE FALSE
  OBVIOUS
<1> DEFINE Bad == {B \in SUBSET S : SumFunctionOnSet(f, B) \notin Int}
<1>1. PICK B \in Bad : Innermost(B, Bad)
  <2>1. Bad \subseteq SUBSET S /\ Bad # {}
    OBVIOUS
  <2> HIDE DEF Bad
  <2> QED
    BY <2>1, Smallest
<1>2. B \in SUBSET S /\ SumFunctionOnSet(f, B) \notin Int /\ IsFiniteSet(B)
  BY FS_Subset
<1>3. SumFunctionOnSet(f, B) = IF B = {} THEN 0 ELSE f[Taken(B)] + SumFunctionOnSet(f, B \ {Taken(B)})
  BY <1>2, SumStep
<1>4. B # {}
  BY <1>2, <1>3
<1>5. Taken(B) \in B
  BY <1>4 DEF Taken
<1>6. B \ {Taken(B)} \notin Bad
  <2> HIDE DEF Bad
  <2> QED
    BY <1>1, <1>5 DEF Innermost
<1>7. SumFunctionOnSet(f, B \ {Taken(B)}) \in Int /\ f[Taken(B)] \in Int
  BY <1>2, <1>5, <1>6
<1> QED
  BY <1>2, <1>3, <1>4, <1>7

\* A sum is any of its numbers and the sum of the others.
LEMMA SumWithout ==
    ASSUME NEW f, NEW S, IsFiniteSet(S), \A x \in S : f[x] \in Int, NEW x \in S
    PROVE  SumFunctionOnSet(f, S) = f[x] + SumFunctionOnSet(f, S \ {x})
<1> DEFINE Sum(B) == SumFunctionOnSet(f, B)
           Bad == {B \in SUBSET S : \E y \in B : Sum(B) # f[y] + Sum(B \ {y})}
<1> SUFFICES ASSUME Bad # {} PROVE FALSE
  <2> HIDE DEF Sum
  <2> QED
    BY DEF Sum
<1>1. PICK B \in Bad : Innermost(B, Bad)
  <2>1. Bad \subseteq SUBSET S
    OBVIOUS
  <2> HIDE DEF Bad
  <2> QED
    BY <2>1, Smallest
<1>2. PICK y \in B : B \in SUBSET S /\ Sum(B) # f[y] + Sum(B \ {y})
  OBVIOUS
<1>3. ASSUME NEW C \in SUBSET S
      PROVE  Sum(C) \in Int /\ Sum(C) = IF C = {} THEN 0 ELSE f[Taken(C)] + Sum(C \ {Taken(C)})
  <2>1. IsFiniteSet(C) /\ \A c \in C : f[c] \in Int
    BY FS_Subset
  <2> QED
    BY <2>1, SumStep, SumTyped
<1>4. PICK z \in B : Sum(B) = f[z] + Sum(B \ {z})
  <2>1. B # {} /\ Taken(B) \in B
    BY <1>2 DEF Taken
  <2> HIDE DEF Sum
  <2> QED
    BY <1>2, <1>3, <2>1
<1>5. z # y
  BY <1>2, <1>4
<1>6. B \ {z} \notin Bad /\ B \ {y} \notin Bad
  <2>1. /\ B \ {z} \subseteq B /\ B \ {z} # B
        /\ B \ {y} \subseteq B /\ B \ {y} # B
    BY <1>2, <1>4
  <2> HIDE DEF Bad
  <2> QED
    BY <1>1, <2>1 DEF Innermost
<1>7. /\ Sum(B \ {z}) = f[y] + Sum((B \ {z}) \ {y})
      /\ Sum(B \ {y}) = f[z] + Sum((B \ {y}) \ {z})
  <2>1. y \in B \ {z} /\ z \in B \ {y} /\ B \ {z} \in SUBSET S /\ B \ {y} \in SUBSET S
    BY <1>2, <1>5
  <2> HIDE DEF Sum
  <2> QED
    BY <1>6, <2>1
<1>8. (B \ {z}) \ {y} = (B \ {y}) \ {z} /\ (B \ {y}) \ {z} \in SUBSET S
  BY <1>2
<1>9. f[y] \in Int /\ f[z] \in Int /\ Sum((B \ {y}) \ {z}) \in Int
  BY <1>2, <1>3, <1>8
<1>10. PICK rest \in Int : Sum((B \ {y}) \ {z}) = rest
  BY <1>9
<1>11. Sum(B \ {z}) = f[y] + rest /\ Sum(B \ {y}) = f[z] + rest
  BY <1>7, <1>8, <1>10
<1> HIDE DEF Sum
<1> QED
  BY <1>2, <1>4, <1>9, <1>11

\* More numbers that are not negative have no smaller sum.
LEMMA SumMore ==
    ASSUME NEW f, NEW S, IsFiniteSet(S), \A x \in S : f[x] \in Nat, NEW A \in SUBSET S
    PROVE  SumFunctionOnSet(f, A) <= SumFunctionOnSet(f, S)
<1> DEFINE Sum(B) == SumFunctionOnSet(f, B)
           Bad == {B \in SUBSET S : A \subseteq B /\ ~(Sum(A) <= Sum(B))}
<1> SUFFICES ASSUME Bad # {} PROVE FALSE
  OBVIOUS
<1>1. PICK B \in Bad : Innermost(B, Bad)
  <2>1. Bad \subseteq SUBSET S
    OBVIOUS
  <2> HIDE DEF Bad
  <2> QED
    BY <2>1, Smallest
<1>2. B \in SUBSET S /\ A \subseteq B /\ ~(Sum(A) <= Sum(B))
  OBVIOUS
<1>3. ASSUME NEW C \in SUBSET S
      PROVE  Sum(C) \in Int /\ IsFiniteSet(C)
  <2>1. IsFiniteSet(C) /\ \A c \in C : f[c] \in Int
    BY FS_Subset
  <2> QED
    BY <2>1, SumTyped
<1>4. PICK x \in B : x \notin A
  <2>1. B # A
    <3>1. Sum(A) \in Int
      BY <1>3
    <3> HIDE DEF Sum
    <3> QED
      BY <1>2, <3>1
  <2> QED
    BY <1>2, <2>1
<1>5. Sum(B) = f[x] + Sum(B \ {x})
  <2>1. IsFiniteSet(B) /\ \A c \in B : f[c] \in Int
    BY <1>2, <1>3
  <2> QED
    BY <2>1, SumWithout
<1>6. B \ {x} \notin Bad
  <2>1. B \ {x} \subseteq B /\ B \ {x} # B
    BY <1>4
  <2> HIDE DEF Bad
  <2> QED
    BY <1>1, <2>1 DEF Innermost
<1>7. Sum(A) <= Sum(B \ {x})
  BY <1>2, <1>4, <1>6
<1>8. Sum(A) \in Int /\ Sum(B \ {x}) \in Int /\ f[x] \in Nat
  BY <1>2, <1>3
<1> HIDE DEF Sum
<1> QED
  BY <1>2, <1>5, <1>7, <1>8

-----------------------------------------------------------------------------
(* Lists of findings.                                                      *)

\* What two lists make together.
LEMMA Joining ==
    ASSUME NEW s, NEW t, IsList(s), IsList(t)
    PROVE  /\ IsList(s \o t) /\ DOMAIN (s \o t) = 1 .. Len(s) + Len(t)
           /\ \A i \in DOMAIN s : (s \o t)[i] = s[i]
           /\ \A i \in DOMAIN (s \o t) : \/ i \in DOMAIN s /\ (s \o t)[i] = s[i]
                                         \/ i - Len(s) \in DOMAIN t /\ (s \o t)[i] = t[i - Len(s)]
<1> DEFINE S == {s[i] : i \in DOMAIN s} \cup {t[i] : i \in DOMAIN t}
<1>1. s \in Seq(S) /\ t \in Seq(S)
  BY SeqMonotonic DEF IsList
<1>2. Len(s) \in Nat /\ DOMAIN s = 1 .. Len(s) /\ Len(t) \in Nat /\ DOMAIN t = 1 .. Len(t)
  BY Lists
<1> HIDE DEF S
<1>3. /\ s \o t \in Seq(S) /\ Len(s \o t) = Len(s) + Len(t)
      /\ \A i \in 1 .. Len(s) + Len(t) : (s \o t)[i] = IF i <= Len(s) THEN s[i] ELSE t[i - Len(s)]
  BY <1>1, ConcatProperties
<1> DEFINE st == s \o t
<1>4. st \in Seq(S) /\ Len(st) = Len(s) + Len(t)
  BY <1>3
<1> HIDE DEF st
<1>5. DOMAIN st = 1 .. Len(s) + Len(t) /\ st = [i \in 1 .. Len(s) + Len(t) |-> st[i]]
  BY <1>4, LenProperties
<1>6. IsList(st)
  <2>1. Len(s) + Len(t) \in Nat
    BY <1>2
  <2> QED
    BY <1>5, <2>1, FunctionLists
<1>7. DOMAIN (s \o t) = 1 .. Len(s) + Len(t)
  BY <1>5 DEF st
<1> QED
  BY <1>2, <1>3, <1>6, <1>7 DEF st

\* What comes first stays first among what is picked.
LEMMA PickedFirst ==
    ASSUME NEW s, IsList(s), NEW at \in SUBSET DOMAIN s, NEW n \in DOMAIN Picked(s, at)
    PROVE  \E i \in at : Picked(s, at)[n] = s[i] /\ (i = 1 => n = 1)
<1>0. at \in SUBSET (1 .. Len(s)) /\ Len(s) \in Nat
  BY Lists
<1>1. n \in 1 .. Cardinality(at)
  BY Picking
<1>2. PICK i : i = (CHOOSE j \in at : Rank(at, j) = n) /\ i \in at /\ Rank(at, i) = n
  <2>1. \E j \in at : Rank(at, j) = n
    BY <1>0, <1>1, Ranks
  <2> QED
    BY <2>1
<1>3. Picked(s, at)[n] = s[i]
  BY <1>1, <1>2 DEF Picked, Rank
<1>4. ASSUME i = 1 PROVE n = 1
  <2>1. at \cap 1 .. 1 = {1}
    BY <1>2, <1>4
  <2>2. Cardinality(at \cap 1 .. 1) = 1
    BY <2>1, FS_Singleton
  <2> QED
    BY <1>2, <1>4, <2>2 DEF Rank
<1> QED
  BY <1>2, <1>3, <1>4

\* Health comes first, if it comes at all.
HealthFirst(found) == \A i \in DOMAIN found : found[i].id = "health-score" => i = 1

\* What is shown are findings that were found, health first.
LEMMA PrioritisedFrom ==
    ASSUME NEW found, IsList(found), NEW priorities
    PROVE  LET shown == Prioritise(found, priorities)
           IN  /\ IsList(shown) /\ \A k \in DOMAIN shown : \E i \in DOMAIN found : shown[k] = found[i]
               /\ HealthFirst(found) => HealthFirst(shown)
<1> DEFINE first == {i \in DOMAIN found : found[i].id = "health-score"}
           asked == {i \in DOMAIN found \ first : found[i].id \in RelevantIds(priorities)}
           other == DOMAIN found \ (first \cup asked)
<1>1. CASE priorities = {}
  BY <1>1 DEF Prioritise
<1>2. CASE priorities # {}
  <2>1. PICK a, b, c : a = Picked(found, first) /\ b = Picked(found, asked) /\ c = Picked(found, other)
    OBVIOUS
  <2>2. Prioritise(found, priorities) = a \o b \o c
    BY <1>2, <2>1 DEF Prioritise
  <2>3. /\ IsList(a) /\ \A k \in DOMAIN a : \E i \in first : a[k] = found[i] /\ (i = 1 => k = 1)
        /\ IsList(b) /\ \A k \in DOMAIN b : \E i \in asked : b[k] = found[i]
        /\ IsList(c) /\ \A k \in DOMAIN c : \E i \in other : c[k] = found[i]
    <3>1. first \in SUBSET DOMAIN found /\ asked \in SUBSET DOMAIN found /\ other \in SUBSET DOMAIN found
      OBVIOUS
    <3> HIDE DEF first, asked, other
    <3> QED
      BY <2>1, <3>1, PickedFirst, PickedFrom
  <2>4. PICK ab : /\ ab = a \o b /\ IsList(ab)
                  /\ \A k \in DOMAIN ab : \/ k \in DOMAIN a /\ ab[k] = a[k]
                                          \/ \E m \in DOMAIN b : ab[k] = b[m]
    <3>1. IsList(a) /\ IsList(b)
      BY <2>3
    <3>2. /\ IsList(a \o b)
          /\ \A k \in DOMAIN (a \o b) : \/ k \in DOMAIN a /\ (a \o b)[k] = a[k]
                                        \/ \E m \in DOMAIN b : (a \o b)[k] = b[m]
      BY <3>1, Joining
    <3> QED
      BY <3>2
  <2>5. PICK abc : /\ abc = ab \o c /\ IsList(abc)
                   /\ \A k \in DOMAIN abc : \/ k \in DOMAIN ab /\ abc[k] = ab[k]
                                            \/ \E m \in DOMAIN c : abc[k] = c[m]
    <3>1. IsList(ab) /\ IsList(c)
      BY <2>3, <2>4
    <3>2. /\ IsList(ab \o c)
          /\ \A k \in DOMAIN (ab \o c) : \/ k \in DOMAIN ab /\ (ab \o c)[k] = ab[k]
                                         \/ \E m \in DOMAIN c : (ab \o c)[k] = c[m]
      BY <3>1, Joining
    <3> QED
      BY <3>2
  <2>6. Prioritise(found, priorities) = abc
    BY <2>2, <2>4, <2>5
  <2>7. \A k \in DOMAIN abc : \/ k \in DOMAIN a /\ abc[k] = a[k]
                              \/ \E i \in asked \cup other : abc[k] = found[i]
    <3> SUFFICES ASSUME NEW k \in DOMAIN abc, ~(k \in DOMAIN a /\ abc[k] = a[k])
                 PROVE  \E i \in asked \cup other : abc[k] = found[i]
      OBVIOUS
    <3> HIDE DEF first, asked, other
    <3>1. CASE \E m \in DOMAIN c : abc[k] = c[m]
      BY <2>3, <3>1
    <3>2. CASE k \in DOMAIN ab /\ abc[k] = ab[k]
      <4>1. \E m \in DOMAIN b : abc[k] = b[m]
        BY <2>4, <3>2
      <4> QED
        BY <2>3, <4>1
    <3> QED
      BY <2>5, <3>1, <3>2
  <2>8. \A k \in DOMAIN abc : \E i \in DOMAIN found : abc[k] = found[i]
    BY <2>3, <2>7
  <2>9. ASSUME HealthFirst(found) PROVE HealthFirst(abc)
    <3> SUFFICES ASSUME NEW k \in DOMAIN abc, abc[k].id = "health-score" PROVE k = 1
      BY DEF HealthFirst
    <3>1. k \in DOMAIN a /\ abc[k] = a[k]
      BY <2>7
    <3>2. PICK i \in first : a[k] = found[i] /\ (i = 1 => k = 1)
      BY <2>3, <3>1
    <3> QED
      BY <2>9, <3>2 DEF HealthFirst
  <2> QED
    BY <2>5, <2>6, <2>8, <2>9
<1> QED
  BY <1>1, <1>2

LEMMA ShownFrom ==
    ASSUME NEW found, IsList(found), NEW plan, NEW blueprint
    PROVE  LET shown == Shown(plan, found, blueprint)
           IN  /\ IsList(shown) /\ \A k \in DOMAIN shown : \E i \in DOMAIN found : shown[k] = found[i]
               /\ HealthFirst(found) => HealthFirst(shown)
<1>1. PICK gated : gated = IF plan = "reasoning" THEN Gate(found, blueprint.enabled) ELSE found
  OBVIOUS
<1>2. /\ IsList(gated) /\ \A k \in DOMAIN gated : \E i \in DOMAIN found : gated[k] = found[i]
      /\ HealthFirst(found) => HealthFirst(gated)
  <2>1. CASE gated = found
    BY <2>1
  <2>2. CASE gated # found
    <3> DEFINE at == {i \in DOMAIN found : found[i].kind \in blueprint.enabled}
    <3>1. gated = Picked(found, at)
      BY <1>1, <2>2 DEF Gate
    <3>2. at \in SUBSET DOMAIN found
      OBVIOUS
    <3> HIDE DEF at
    <3>3. IsList(gated) /\ \A k \in DOMAIN gated : \E i \in at : gated[k] = found[i] /\ (i = 1 => k = 1)
      BY <3>1, <3>2, PickedFrom, PickedFirst
    <3> QED
      BY <3>2, <3>3 DEF HealthFirst
  <2> QED
    BY <2>1, <2>2
<1>3. Shown(plan, found, blueprint) = IF blueprint = Null THEN found ELSE Prioritise(gated, blueprint.priorities)
  BY <1>1 DEF Shown
<1>4. CASE blueprint = Null
  BY <1>3, <1>4
<1>5. CASE blueprint # Null
  <2>1. PICK shown : shown = Prioritise(gated, blueprint.priorities)
    OBVIOUS
  <2>2. /\ IsList(shown) /\ \A k \in DOMAIN shown : \E i \in DOMAIN gated : shown[k] = gated[i]
        /\ HealthFirst(gated) => HealthFirst(shown)
    BY <1>2, <2>1, PrioritisedFrom
  <2> QED
    BY <1>2, <1>3, <1>5, <2>1, <2>2
<1> QED
  BY <1>4, <1>5

-----------------------------------------------------------------------------
(* Moments.                                                                *)

\* The moments a reader has read at, each with the rows of an earlier one and maybe
\* more; who is done has read all of its statements.
InOrder(q) ==
    LET moments == read[q].moments
    IN  /\ IsList(moments)
        /\ \A k \in DOMAIN moments : moments[k].rows \in 0 .. Len(ledger)
        /\ \A j, k \in DOMAIN moments : j <= k => moments[j].rows <= moments[k].rows
        /\ read[q].stage \in {"idle", "account", "open"} => moments = <<>>
        /\ read[q].stage # "idle" => read[q].plan \in Plans
        /\ read[q].stage = "reading" => Len(moments) < Len(Statements(read[q].plan))
        /\ read[q].stage = "done" => Len(moments) = Len(Statements(read[q].plan))
Moments == \A q \in Readers : InOrder(q)

\* Where the elements of two lists are in the list they make together.
LEMMA Places ==
    ASSUME NEW s, NEW t, IsList(s), IsList(t)
    PROVE  /\ IsList(s \o t) /\ Len(s \o t) = Len(s) + Len(t)
           /\ \A i \in 1 .. Len(s) : (s \o t)[i] = s[i]
           /\ \A i \in 1 .. Len(t) : (s \o t)[Len(s) + i] = t[i]
<1>1. PICK m \in Nat, n \in Nat : Len(s) = m /\ Len(t) = n /\ DOMAIN s = 1 .. m /\ DOMAIN t = 1 .. n
  BY Lists
<1>2. PICK st : st = s \o t
  OBVIOUS
<1>3. /\ IsList(st) /\ DOMAIN st = 1 .. m + n
      /\ \A i \in DOMAIN s : st[i] = s[i]
      /\ \A i \in DOMAIN st : \/ i \in DOMAIN s
                              \/ st[i] = t[i - m]
  BY <1>1, <1>2, Joining
<1>4. Len(st) = m + n
  <2>1. PICK k \in Nat : k = Len(st) /\ 1 .. k = 1 .. m + n
    BY <1>3, Lists
  <2> QED
    BY <2>1
<1>5. ASSUME NEW i \in 1 .. n PROVE st[m + i] = t[i]
  <2>1. m + i \in 1 .. m + n /\ m + i \notin 1 .. m /\ (m + i) - m = i
    OBVIOUS
  <2> QED
    BY <1>1, <1>3, <2>1
<1> QED
  BY <1>1, <1>2, <1>3, <1>4, <1>5

\* How many statements a plan has.
LEMMA StatementsOf ==
    ASSUME NEW plan \in Plans
    PROVE  /\ Len(Statements(plan)) \in Nat /\ Len(Statements(plan)) > 0
           /\ plan \in {"insights", "reasoning"} =>
                 /\ Len(Statements(plan)) = 8
                 /\ Statements(plan)[1] = "totals" /\ Statements(plan)[2] = "window"
                 /\ Statements(plan)[3] = "totals" /\ Statements(plan)[4] = "window"
                 /\ Statements(plan)[5] = "flow" /\ Statements(plan)[6] = "top"
                 /\ Statements(plan)[7] = "total_out" /\ Statements(plan)[8] = "flagged"
           /\ plan = "replay.create" => Len(Statements(plan)) = 2
                 /\ Statements(plan)[1] = "totals" /\ Statements(plan)[2] = "window"
<1>1. PICK s : s = <<"totals", "window">>
  OBVIOUS
<1>2. IsList(s) /\ Len(s) = 2 /\ s[1] = "totals" /\ s[2] = "window"
  BY <1>1 DEF IsList
<1>3. PICK ss : /\ ss = s \o s /\ IsList(ss) /\ Len(ss) = 4
                /\ ss[1] = "totals" /\ ss[2] = "window" /\ ss[3] = "totals" /\ ss[4] = "window"
  <2>1. /\ IsList(s \o s) /\ Len(s \o s) = 2 + 2
        /\ \A i \in 1 .. 2 : (s \o s)[i] = s[i]
        /\ \A i \in 1 .. 2 : (s \o s)[2 + i] = s[i]
    <3>1. /\ IsList(s \o s) /\ Len(s \o s) = Len(s) + Len(s)
          /\ \A i \in 1 .. Len(s) : (s \o s)[i] = s[i]
          /\ \A i \in 1 .. Len(s) : (s \o s)[Len(s) + i] = s[i]
      <4>1. IsList(s)
        BY <1>2
      <4> QED
        BY <4>1, Places, Zenon
    <3> QED
      BY <1>2, <3>1
  <2>2. 1 \in 1 .. 2 /\ 2 \in 1 .. 2 /\ 2 + 1 = 3 /\ 2 + 2 = 4
    OBVIOUS
  <2>3. (s \o s)[1] = s[1] /\ (s \o s)[2] = s[2] /\ (s \o s)[3] = s[1] /\ (s \o s)[4] = s[2]
    BY <2>1, <2>2
  <2> QED
    BY <1>2, <2>1, <2>2, <2>3
<1>4. CASE plan \in {"insights", "reasoning"}
  <2>1. PICK t : t = <<"flow", "top", "total_out", "flagged">>
    OBVIOUS
  <2>2. /\ IsList(t) /\ Len(t) = 4
        /\ t[1] = "flow" /\ t[2] = "top" /\ t[3] = "total_out" /\ t[4] = "flagged"
    BY <2>1 DEF IsList
  <2>3. PICK all : all = ss \o t
    OBVIOUS
  <2>4. Statements(plan) = all
    BY <1>1, <1>3, <1>4, <2>1, <2>3 DEF Statements
  <2>5. /\ Len(all) = 4 + 4
        /\ \A i \in 1 .. 4 : all[i] = ss[i]
        /\ \A i \in 1 .. 4 : all[4 + i] = t[i]
    <3>1. /\ Len(ss \o t) = Len(ss) + Len(t)
          /\ \A i \in 1 .. Len(ss) : (ss \o t)[i] = ss[i]
          /\ \A i \in 1 .. Len(t) : (ss \o t)[Len(ss) + i] = t[i]
      <4>1. IsList(ss) /\ IsList(t)
        BY <1>3, <2>2
      <4> QED
        BY <4>1, Places
    <3> QED
      BY <1>3, <2>2, <2>3, <3>1
  <2>6. /\ \A i \in {1, 2, 3, 4} : i \in 1 .. 4
        /\ 4 + 1 = 5 /\ 4 + 2 = 6 /\ 4 + 3 = 7 /\ 4 + 4 = 8
    OBVIOUS
  <2>7. /\ all[1] = ss[1] /\ all[2] = ss[2] /\ all[3] = ss[3] /\ all[4] = ss[4]
        /\ all[5] = t[1] /\ all[6] = t[2] /\ all[7] = t[3] /\ all[8] = t[4]
    BY <2>5, <2>6
  <2> QED
    BY <1>3, <1>4, <2>2, <2>4, <2>5, <2>6, <2>7
<1>5. CASE plan = "dashboard"
  <2>1. PICK t : t = <<"timeline">>
    OBVIOUS
  <2>2. IsList(t) /\ Len(t) = 1
    BY <2>1 DEF IsList
  <2>3. Statements(plan) = ss \o t
    BY <1>1, <1>3, <1>5, <2>1 DEF Statements
  <2>4. Len(Statements(plan)) = 4 + 1
    <3>1. Len(ss \o t) = Len(ss) + Len(t)
      <4>1. IsList(ss) /\ IsList(t)
        BY <1>3, <2>2
      <4> QED
        BY <4>1, Places, Zenon
    <3> QED
      BY <1>3, <2>2, <2>3, <3>1
  <2> QED
    BY <1>5, <2>4
<1>6. CASE plan \in {"replay.list", "replay.create"}
  BY <1>1, <1>2, <1>6 DEF Statements
<1> QED
  BY <1>4, <1>5, <1>6, PlansAssumption

\* Rows are only added.
LEMMA OnlyAdded ==
    ASSUME Typed, [Next]_vars
    PROVE  Len(ledger) \in Nat /\ Len(ledger)' \in Nat /\ Len(ledger) <= Len(ledger)'
<1>1. IsList(ledger) /\ Len(ledger) \in Nat
  BY Lists DEF Typed
<1>2. ledger' = ledger \/ \E row : ledger' = Append(ledger, row)
  BY DEF Next, vars, Begin, FindAccount, OpenAccount, Link, Average, Insert, PublishRow, ListDefinitions, Run, Stamp,
         Define, Announce, Purge, Replace, Fail, StartRead, ReadAccount, ReadOpensAccount, ReadNext, MonthPasses
<1>3. CASE ledger' = ledger
  BY <1>1, <1>3
<1>4. CASE \E row : ledger' = Append(ledger, row)
  BY <1>1, <1>4, Appending
<1> QED
  BY <1>2, <1>3, <1>4

\* Readers that do nothing keep their moments.
LEMMA InOrderKept ==
    ASSUME Typed, [Next]_vars, NEW q \in Readers, InOrder(q), read'[q] = read[q]
    PROVE  InOrder(q)'
<1>1. Len(ledger) \in Nat /\ Len(ledger)' \in Nat /\ Len(ledger) <= Len(ledger)'
  BY OnlyAdded
<1>2. \A n \in 0 .. Len(ledger) : n \in 0 .. Len(ledger)'
  BY <1>1
<1> QED
  BY <1>2 DEF InOrder

\* A statement adds a moment.
LEMMA InOrderNext ==
    ASSUME Typed, NEW q \in Readers, InOrder(q), ReadNext(q)
    PROVE  InOrder(q)'
<1> DEFINE moments == read[q].moments
           now == [rows |-> Len(ledger), month |-> month]
           last == Len(moments) + 1 = Len(Statements(read[q].plan))
<1>1. /\ read[q].stage = "reading" /\ UNCHANGED ledger
      /\ read'[q].moments = Append(moments, now) /\ read'[q].plan = read[q].plan
      /\ read'[q].stage = IF last THEN "done" ELSE "reading"
  BY DEF ReadNext, Typed, ReaderTyped
<1>2. /\ IsList(moments) /\ \A k \in DOMAIN moments : moments[k].rows \in 0 .. Len(ledger)
      /\ \A j, k \in DOMAIN moments : j <= k => moments[j].rows <= moments[k].rows
      /\ Len(moments) < Len(Statements(read[q].plan)) /\ read[q].plan \in Plans
  BY <1>1 DEF InOrder
<1>3. Len(ledger) \in Nat /\ Len(moments) \in Nat /\ Len(Statements(read[q].plan)) \in Nat
  BY <1>2, Lists, StatementsOf DEF Typed
<1>4. PICK more : more = Append(moments, now)
  OBVIOUS
<1>5. /\ IsList(more) /\ Len(more) = Len(moments) + 1 /\ DOMAIN more = 1 .. Len(moments) + 1
      /\ \A i \in DOMAIN moments : more[i] = moments[i]
      /\ more[Len(moments) + 1] = now
      /\ DOMAIN moments = 1 .. Len(moments)
  BY <1>2, <1>4, Appending, Lists
<1>6. now.rows = Len(ledger)
  OBVIOUS
<1> HIDE DEF now
<1>7. \A k \in DOMAIN more : more[k].rows \in 0 .. Len(ledger)
  BY <1>2, <1>3, <1>5, <1>6
<1>8. ASSUME NEW j \in DOMAIN more, NEW k \in DOMAIN more, j <= k PROVE more[j].rows <= more[k].rows
  <2>1. CASE k = Len(moments) + 1
    <3>1. more[k].rows = Len(ledger) /\ more[j].rows \in 0 .. Len(ledger)
      BY <1>5, <1>6, <1>7, <2>1
    <3> QED
      BY <1>3, <3>1
  <2>2. CASE k # Len(moments) + 1
    <3>1. k \in DOMAIN moments /\ j \in DOMAIN moments
      BY <1>3, <1>5, <1>8, <2>2
    <3> QED
      BY <1>2, <1>5, <1>8, <3>1
  <2> QED
    BY <2>1, <2>2
<1>9. /\ read'[q].stage = "reading" => Len(more) < Len(Statements(read[q].plan))
      /\ read'[q].stage = "done" => Len(more) = Len(Statements(read[q].plan))
      /\ read'[q].stage \in {"reading", "done"}
  BY <1>1, <1>2, <1>3, <1>5
<1> QED
  BY <1>1, <1>2, <1>4, <1>5, <1>7, <1>8, <1>9 DEF InOrder

\* Every step keeps the moments of all readers.
LEMMA MomentsStep ==
    ASSUME Typed, Moments, [Next]_vars
    PROVE  Moments'
<1> SUFFICES ASSUME NEW q \in Readers PROVE InOrder(q)'
  BY DEF Moments
<1>0. InOrder(q) /\ ReaderTyped(q) /\ DOMAIN read = Readers
  BY DEF Moments, Typed
<1>1. CASE read'[q] = read[q]
  BY <1>0, <1>1, InOrderKept
<1>2. CASE ReadNext(q)
  BY <1>0, <1>2, InOrderNext
<1>3. CASE \E plan \in Plans, blueprint \in Blueprints : StartRead(q, plan, blueprint)
  <2>1. PICK plan \in Plans : /\ read'[q].stage \in {"account", "reading"} /\ read'[q].plan = plan
                              /\ read'[q].moments = <<>>
    BY <1>0, <1>3 DEF StartRead
  <2>2. Len(Statements(plan)) > 0 /\ Len(<<>>) = 0 /\ IsList(<<>>)
    BY StatementsOf DEF IsList
  <2> QED
    BY <2>1, <2>2 DEF InOrder
<1>4. CASE ReadAccount(q) \/ ReadOpensAccount(q)
  <2>1. /\ read'[q].stage \in {"open", "reading", "failed"} /\ read'[q].plan = read[q].plan
        /\ read'[q].moments = <<>> /\ read[q].plan \in Plans
    BY <1>0, <1>4 DEF ReadAccount, ReadOpensAccount, ReaderTyped, InOrder
  <2>2. Len(Statements(read[q].plan)) > 0 /\ Len(<<>>) = 0 /\ IsList(<<>>)
    BY <2>1, StatementsOf DEF IsList
  <2> QED
    BY <2>1, <2>2 DEF InOrder
<1>5. \/ read'[q] = read[q] \/ ReadNext(q) \/ ReadAccount(q) \/ ReadOpensAccount(q)
      \/ \E plan \in Plans, blueprint \in Blueprints : StartRead(q, plan, blueprint)
  <2>1. CASE \E p \in Readers : Reading(p)
    <3>1. PICK p \in Readers : Reading(p)
      BY <2>1
    <3>2. CASE p = q
      BY <3>1, <3>2 DEF Reading
    <3>3. CASE p # q
      BY <1>0, <3>1, <3>3 DEF Reading, StartRead, ReadAccount, ReadOpensAccount, ReadNext
    <3> QED
      BY <3>2, <3>3
  <2>2. CASE ~ \E p \in Readers : Reading(p)
    <3>1. UNCHANGED read
      BY <2>2 DEF Reading, Next, vars, Begin, FindAccount, OpenAccount, Link, Average, Insert, PublishRow, ListDefinitions, Run,
             Stamp, Define, Announce, Purge, Replace, Fail, MonthPasses
    <3> QED
      BY <3>1
  <2> QED
    BY <2>1, <2>2
<1> QED
  BY <1>1, <1>2, <1>3, <1>4, <1>5

LEMMA MomentsInit == Init => Moments
<1> SUFFICES ASSUME Init, NEW q \in Readers PROVE InOrder(q)
  BY DEF Moments
<1>1. read[q] = IdleReader /\ IsList(<<>>) /\ DOMAIN <<>> = {}
  BY DEF Init, IsList
<1> QED
  BY <1>1 DEF InOrder, IdleReader

-----------------------------------------------------------------------------
(* Pages and their totals.                                                 *)

\* The rows that a statement saw.
Page(n) == SubSeq(ledger, 1, n)

\* They are the ledger's.
LEMMA PageOf ==
    ASSUME Typed, NEW n \in 0 .. Len(ledger)
    PROVE  /\ IsList(Page(n)) /\ DOMAIN Page(n) = 1 .. n /\ n \in Nat
           /\ \A i \in 1 .. n : /\ i \in DOMAIN ledger /\ Page(n)[i] = ledger[i]
                                /\ Constrained(ledger[i])
<1>1. Len(ledger) \in Nat /\ DOMAIN ledger = 1 .. Len(ledger) /\ n \in Nat
  BY Lists DEF Typed
<1>2. Page(n) = [i \in 1 .. n |-> ledger[i]]
  BY <1>1 DEF Page
<1>3. IsList(Page(n)) /\ DOMAIN Page(n) = 1 .. n
  <2>1. PICK s : s = Page(n) /\ s = [i \in 1 .. n |-> ledger[i]]
    BY <1>2
  <2>2. s = [i \in 1 .. n |-> s[i]]
    BY <2>1
  <2> QED
    BY <1>1, <2>1, <2>2, FunctionLists
<1>4. \A i \in 1 .. n : i \in DOMAIN ledger /\ Constrained(ledger[i])
  BY <1>1 DEF Typed
<1> QED
  BY <1>1, <1>2, <1>3, <1>4

\* The total of some rows is the same in whatever page has them, and rows that are
\* among others have no larger one.
LEMMA Totalled ==
    ASSUME Typed, NEW n \in 0 .. Len(ledger), NEW S \in SUBSET (1 .. n)
    PROVE  /\ Total(Page(n), S) = Total(ledger, S) /\ Total(ledger, S) \in Int
           /\ \A A \in SUBSET S : Total(ledger, A) \in Int /\ Total(ledger, A) <= Total(ledger, S)
<1> DEFINE f == [i \in DOMAIN ledger |-> ledger[i].amount]
           g == [i \in DOMAIN Page(n) |-> Page(n)[i].amount]
<1>0. IsFiniteSet(S) /\ n \in Nat
  BY PageOf, SomeFinite
<1>1. \A i \in S : f[i] = g[i] /\ f[i] \in Nat
  <2> SUFFICES ASSUME NEW i \in S PROVE f[i] = g[i] /\ f[i] \in Nat
    OBVIOUS
  <2>1. i \in DOMAIN ledger /\ i \in DOMAIN Page(n) /\ Page(n)[i] = ledger[i] /\ Constrained(ledger[i])
    BY PageOf
  <2> QED
    BY <2>1 DEF Constrained
<1>2. \A s : Total(ledger, s) = SumFunctionOnSet(f, s) /\ Total(Page(n), s) = SumFunctionOnSet(g, s)
  BY DEF Total
<1> HIDE DEF f, g
<1>3. SumFunctionOnSet(f, S) = SumFunctionOnSet(g, S)
  BY <1>0, <1>1, SumSame
<1>4. \A A \in SUBSET S : SumFunctionOnSet(f, A) \in Int
  <2> SUFFICES ASSUME NEW A \in SUBSET S PROVE SumFunctionOnSet(f, A) \in Int
    OBVIOUS
  <2>1. IsFiniteSet(A)
    BY <1>0, FS_Subset
  <2>2. \A i \in A : f[i] \in Int
    BY <1>1
  <2> QED
    BY <2>1, <2>2, SumTyped
<1>5. \A A \in SUBSET S : SumFunctionOnSet(f, A) <= SumFunctionOnSet(f, S)
  BY <1>0, <1>1, SumMore
<1> QED
  BY <1>2, <1>3, <1>4, <1>5

\* Of things that have a number each, finitely many and not none, one has the largest.
LEMMA Largest ==
    ASSUME NEW S, IsFiniteSet(S), S # {}, NEW f, \A x \in S : f[x] \in Int
    PROVE  \E x \in S : \A y \in S : f[x] >= f[y]
<1> DEFINE Above(x) == {y \in S : f[y] > f[x]}
<1>1. PICK T : T = {Above(x) : x \in S}
  OBVIOUS
<1>2. PICK A \in T : Innermost(A, T)
  <2>1. T \subseteq SUBSET S /\ T # {}
    BY <1>1
  <2> QED
    BY <2>1, Smallest
<1>3. PICK x \in S : A = Above(x)
  BY <1>1, <1>2
<1>4. ASSUME NEW y \in S PROVE f[x] >= f[y]
  <2> SUFFICES ASSUME f[y] > f[x] PROVE FALSE
    OBVIOUS
  <2>1. Above(y) \in T /\ y \in Above(x) /\ y \notin Above(y)
    BY <1>1
  <2>2. Above(y) \subseteq Above(x)
    <3> SUFFICES ASSUME NEW z \in S, f[z] > f[y] PROVE f[z] > f[x]
      OBVIOUS
    <3>1. f[x] \in Int /\ f[y] \in Int /\ f[z] \in Int
      OBVIOUS
    <3> QED
      BY <3>1
  <2> QED
    BY <1>2, <1>3, <2>1, <2>2 DEF Innermost
<1> QED
  BY <1>4

\* What the outflow of a page is, and that it does not fall while a month lasts.
Outflows(n, now, allowed) ==
    {i \in 1 .. n : /\ ledger[i].direction = "outflow" /\ ledger[i].month > now - 1
                    /\ Permits(allowed, ledger[i].category)}

LEMMA OutflowOf ==
    ASSUME Typed, NEW n \in 0 .. Len(ledger), NEW now, NEW allowed
    PROVE  /\ Outflows(n, now, allowed) \in SUBSET (1 .. n)
           /\ Outflow(Page(n), now, allowed) = Total(ledger, Outflows(n, now, allowed))
           /\ {i \in Recent(Page(n), "outflow", now) : Permits(allowed, Page(n)[i].category)}
                 = Outflows(n, now, allowed)
<1>1. Outflows(n, now, allowed) \in SUBSET (1 .. n)
  BY DEF Outflows
<1>2. {i \in Recent(Page(n), "outflow", now) : Permits(allowed, Page(n)[i].category)} = Outflows(n, now, allowed)
  <2>1. PICK p : p = Page(n)
    OBVIOUS
  <2>2. DOMAIN p = 1 .. n /\ \A i \in 1 .. n : p[i] = ledger[i]
    BY <2>1, PageOf
  <2>3. {i \in Recent(p, "outflow", now) : Permits(allowed, p[i].category)} = Outflows(n, now, allowed)
    BY <2>2 DEF Recent, Rows, Within, Outflows
  <2> QED
    BY <2>1, <2>3
<1>3. Total(Page(n), Outflows(n, now, allowed)) = Total(ledger, Outflows(n, now, allowed))
  BY <1>1, Totalled
<1> QED
  BY <1>1, <1>2, <1>3 DEF Outflow

\* The largest category of a page is no larger than the outflow of a later one, within
\* the month.
LEMMA TopWithin ==
    ASSUME Typed, NEW m \in 0 .. Len(ledger), NEW n \in 0 .. Len(ledger), m <= n, NEW now, NEW allowed,
           TopCategory(Page(m), now, allowed) # Null
    PROVE  TopCategory(Page(m), now, allowed).total <= Outflow(Page(n), now, allowed)
<1> DEFINE p == Page(m)
           outflow == Recent(p, "outflow", now)
           Spent(c) == Total(p, {i \in outflow : p[i].category = c})
           spends == {c \in {p[i].category : i \in outflow} : Permits(allowed, c)}
           top == CHOOSE c \in spends : \A d \in spends : Spent(c) >= Spent(d)
<1>0. outflow \in SUBSET (1 .. m) /\ m \in Nat /\ n \in Nat /\ m \in 0 .. n
  BY PageOf DEF Recent, Rows
<1>1. spends # {} /\ TopCategory(p, now, allowed).total = Spent(top)
  <2>1. TopCategory(p, now, allowed) = IF spends = {} THEN Null ELSE [category |-> top, total |-> Spent(top)]
    BY DEF TopCategory
  <2> HIDE DEF p, spends, top, Spent
  <2>2. spends # {}
    BY <2>1 DEF p
  <2> QED
    BY <2>1, <2>2
<1>2. \A c : Spent(c) \in Int
  <2> SUFFICES ASSUME NEW c PROVE Spent(c) \in Int
    OBVIOUS
  <2>1. {i \in outflow : p[i].category = c} \in SUBSET (1 .. m)
    BY <1>0
  <2> QED
    BY <2>1, Totalled
<1>3. IsFiniteSet(spends)
  <2>1. IsFiniteSet(outflow)
    BY <1>0, SomeFinite
  <2>2. IsFiniteSet({p[i].category : i \in outflow})
    <3>1. PICK f : f = [i \in outflow |-> p[i].category]
      OBVIOUS
    <3> HIDE DEF p, outflow
    <3>2. f \in Surjection(outflow, {p[i].category : i \in outflow})
      BY <3>1 DEF Surjection
    <3> QED
      BY <2>1, <3>2, FS_Surjection
  <2> QED
    BY <2>2, FS_Subset
<1>4. top \in spends
  <2>1. PICK f : f = [c \in spends |-> Spent(c)]
    OBVIOUS
  <2> HIDE DEF spends, Spent
  <2>2. \A c \in spends : f[c] \in Int /\ f[c] = Spent(c)
    BY <1>2, <2>1
  <2>3. \E c \in spends : \A d \in spends : f[c] >= f[d]
    BY <1>1, <1>3, <2>2, Largest
  <2>4. \E c \in spends : \A d \in spends : Spent(c) >= Spent(d)
    BY <2>2, <2>3
  <2> QED
    BY <2>4
<1>5. PICK c : c = top /\ Permits(allowed, c)
  <2>1. \A x \in spends : Permits(allowed, x)
    OBVIOUS
  <2> HIDE DEF spends, top
  <2> QED
    BY <1>4, <2>1
<1>6. PICK S : S = {i \in outflow : p[i].category = c}
  OBVIOUS
<1>7. S \in SUBSET Outflows(n, now, allowed) /\ S \in SUBSET (1 .. m)
  <2> SUFFICES ASSUME NEW i \in S PROVE i \in Outflows(n, now, allowed) /\ i \in 1 .. m
    OBVIOUS
  <2>1. i \in outflow /\ p[i].category = c
    BY <1>6
  <2>2. i \in {j \in outflow : Permits(allowed, p[j].category)}
    <3> HIDE DEF p, outflow
    <3> QED
      BY <1>5, <2>1
  <2>3. i \in Outflows(m, now, allowed)
    BY <2>2, OutflowOf
  <2> QED
    BY <1>0, <2>3 DEF Outflows
<1>8. TopCategory(p, now, allowed).total = Total(ledger, S)
  <2>1. Spent(c) = Total(p, S)
    BY <1>6
  <2>2. Total(p, S) = Total(ledger, S)
    BY <1>7, Totalled
  <2> HIDE DEF p, top, Spent
  <2> QED
    BY <1>1, <1>5, <2>1, <2>2
<1>9. Total(ledger, S) <= Total(ledger, Outflows(n, now, allowed))
  BY <1>7, OutflowOf, Totalled
<1> QED
  BY <1>8, <1>9, OutflowOf

-----------------------------------------------------------------------------
(* Findings.                                                               *)

\* What the insights are: those of five that are not NULL, health first.
LEMMA InsightsAre ==
    ASSUME NEW summary, NEW health, NEW flow, NEW top, NEW total_out, NEW flagged
    PROVE  LET found == Insights(summary, health, flow, top, total_out, flagged)
           IN  /\ IsList(found) /\ HealthFirst(found)
               /\ \A k \in DOMAIN found :
                     /\ found[k] # Null
                     /\ found[k] \in {HealthFinding(health), TrendFinding(flow), SpendFinding(top, total_out),
                                      AnomalyFinding(flagged), ForecastFinding(summary)}
<1>1. PICK a, b, c, d, e : /\ a = HealthFinding(health) /\ b = TrendFinding(flow) /\ c = SpendFinding(top, total_out)
                           /\ d = AnomalyFinding(flagged) /\ e = ForecastFinding(summary)
  OBVIOUS
<1>2. PICK list : list = <<a, b, c, d, e>>
  OBVIOUS
<1>3. /\ IsList(list) /\ DOMAIN list = 1 .. 5
      /\ list[1] = a /\ list[2] = b /\ list[3] = c /\ list[4] = d /\ list[5] = e
  BY <1>2 DEF IsList
<1>4. PICK at : at = {i \in DOMAIN list : list[i] # Null}
  OBVIOUS
<1>5. PICK found : found = Picked(list, at)
  OBVIOUS
<1>6. Insights(summary, health, flow, top, total_out, flagged) = found
  BY <1>1, <1>2, <1>4, <1>5 DEF Insights, Present
<1>7. at \in SUBSET DOMAIN list
  BY <1>4
<1>8. IsList(found) /\ \A k \in DOMAIN found : \E i \in at : found[k] = list[i] /\ (i = 1 => k = 1)
  <2>1. IsList(found)
    BY <1>3, <1>5, <1>7, PickedFrom
  <2>2. \A k \in DOMAIN found : \E i \in at : found[k] = list[i] /\ (i = 1 => k = 1)
    BY <1>3, <1>5, <1>7, PickedFirst
  <2> QED
    BY <2>1, <2>2
<1>9. \A i \in at : i \in {1, 2, 3, 4, 5}
  BY <1>3, <1>7
<1>10. ASSUME NEW k \in DOMAIN found
       PROVE  /\ found[k] # Null /\ found[k] \in {a, b, c, d, e}
              /\ found[k].id = "health-score" => k = 1
  <2>1. PICK i \in at : found[k] = list[i] /\ (i = 1 => k = 1)
    BY <1>8
  <2>2. list[i] # Null /\ i \in {1, 2, 3, 4, 5}
    BY <1>4, <1>9
  <2>3. ASSUME i # 1 PROVE list[i].id # "health-score"
    <3>1. b # Null => b.id = "flow-trend"
      BY <1>1 DEF TrendFinding, Finding
    <3>2. c # Null => c.id = "top-category"
      BY <1>1 DEF SpendFinding, Finding
    <3>3. d # Null => d.id = "anomalies"
      BY <1>1 DEF AnomalyFinding, Finding
    <3>4. e.id = "forecast-30d"
      BY <1>1 DEF ForecastFinding, Finding
    <3> QED
      BY <1>3, <2>2, <2>3, <3>1, <3>2, <3>3, <3>4
  <2>4. found[k] \in {a, b, c, d, e}
    BY <1>3, <2>1, <2>2
  <2> QED
    BY <2>1, <2>2, <2>3, <2>4
<1> QED
  BY <1>1, <1>6, <1>8, <1>10 DEF HealthFirst

\* What a reader shows: health first, and each finding the one of its name.
LEMMA FindingsAre ==
    ASSUME NEW q
    PROVE  LET found == FindingsOf(q)
           IN  /\ HealthFirst(found)
               /\ \A f \in Find(found, "health-score") : f = HealthFinding(HealthOf(q))
               /\ \A f \in Find(found, "flow-trend") : f # Null /\ f = TrendFinding(Answer(q, 5))
               /\ \A f \in Find(found, "top-category") : f # Null /\ f = SpendFinding(Answer(q, 6), Answer(q, 7))
               /\ \A f \in Find(found, "anomalies") : f # Null /\ f = AnomalyFinding(Answer(q, 8))
<1>1. PICK a, b, c, d, e : /\ a = HealthFinding(HealthOf(q)) /\ b = TrendFinding(Answer(q, 5))
                           /\ c = SpendFinding(Answer(q, 6), Answer(q, 7))
                           /\ d = AnomalyFinding(Answer(q, 8)) /\ e = ForecastFinding(SummaryOf(q))
  OBVIOUS
<1>2. PICK all : all = Insights(SummaryOf(q), HealthOf(q), Answer(q, 5), Answer(q, 6), Answer(q, 7), Answer(q, 8))
  OBVIOUS
<1>3. IsList(all) /\ HealthFirst(all) /\ \A k \in DOMAIN all : all[k] # Null /\ all[k] \in {a, b, c, d, e}
  BY <1>1, <1>2, InsightsAre
<1>4. PICK found : found = FindingsOf(q)
  OBVIOUS
<1>5. found = Shown(read[q].plan, all, read[q].blueprint)
  BY <1>2, <1>4 DEF FindingsOf
<1>6. HealthFirst(found) /\ \A k \in DOMAIN found : \E i \in DOMAIN all : found[k] = all[i]
  BY <1>3, <1>5, ShownFrom
<1>7. \A k \in DOMAIN found : found[k] # Null /\ found[k] \in {a, b, c, d, e}
  BY <1>3, <1>6
<1>8. /\ a.id = "health-score" /\ e.id = "forecast-30d"
      /\ b # Null => b.id = "flow-trend"
      /\ c # Null => c.id = "top-category"
      /\ d # Null => d.id = "anomalies"
  BY <1>1 DEF HealthFinding, TrendFinding, SpendFinding, AnomalyFinding, ForecastFinding, Finding
<1>9. /\ \A f \in Find(found, "health-score") : f = a
      /\ \A f \in Find(found, "flow-trend") : f # Null /\ f = b
      /\ \A f \in Find(found, "top-category") : f # Null /\ f = c
      /\ \A f \in Find(found, "anomalies") : f # Null /\ f = d
  BY <1>7, <1>8 DEF Find
<1> QED
  BY <1>1, <1>4, <1>6, <1>9

\* The headline, whenever there is one.
LEMMA Headline == ASSUME NEW q PROVE HealthLeads(FindingsOf(q))
<1>1. PICK found : found = FindingsOf(q) /\ HealthFirst(found)
  BY FindingsAre
<1>2. ASSUME NEW j \in DOMAIN found, found[j].id = "health-score" PROVE found[1].id = "health-score"
  BY <1>1, <1>2 DEF HealthFirst
<1> QED
  BY <1>1, <1>2 DEF HealthLeads, Find

\* What the moments of a reader that is done are.
LEMMA MomentsOf ==
    ASSUME Typed, Moments, NEW q \in Readers, read[q].stage = "done"
    PROVE  /\ read[q].plan \in Plans
           /\ \A k \in 1 .. Len(Statements(read[q].plan)) : Moment(q, k).rows \in 0 .. Len(ledger)
           /\ \A j, k \in 1 .. Len(Statements(read[q].plan)) : j <= k => Moment(q, j).rows <= Moment(q, k).rows
<1>1. InOrder(q)
  BY DEF Moments
<1>2. DOMAIN read[q].moments = 1 .. Len(Statements(read[q].plan))
  BY <1>1, Lists DEF InOrder
<1> QED
  BY <1>1, <1>2 DEF InOrder, Moment

\* A share is of a whole.
LEMMA Shares ==
    ASSUME Typed, Moments, NEW q \in Readers, read[q].stage = "done", read[q].plan \in {"insights", "reasoning"},
           Moment(q, 6).month = Moment(q, 7).month
    PROVE  ShareOfWhole(FindingsOf(q))
<1> SUFFICES ASSUME NEW f \in Find(FindingsOf(q), "top-category") PROVE f.data.total <= f.data.of
  BY DEF ShareOfWhole
<1>1. read[q].plan \in Plans /\ Statements(read[q].plan)[6] = "top" /\ Statements(read[q].plan)[7] = "total_out"
  BY MomentsOf, StatementsOf
<1>2. PICK m, n : /\ m = Moment(q, 6).rows /\ n = Moment(q, 7).rows
                  /\ m \in 0 .. Len(ledger) /\ n \in 0 .. Len(ledger) /\ m <= n
  <2>1. Len(Statements(read[q].plan)) = 8 /\ 6 \in 1 .. 8 /\ 7 \in 1 .. 8 /\ 6 <= 7
    BY <1>1, StatementsOf
  <2> QED
    BY <2>1, MomentsOf
<1>3. PICK now, allowed : now = Moment(q, 6).month /\ allowed = Allowed(q)
  OBVIOUS
<1>4. Answer(q, 6) = TopCategory(Page(m), now, allowed)
  BY <1>1, <1>2, <1>3 DEF Answer, Page
<1>5. Answer(q, 7) = Outflow(Page(n), now, allowed)
  BY <1>1, <1>2, <1>3 DEF Answer, Page
<1>6. f # Null /\ f = SpendFinding(Answer(q, 6), Answer(q, 7))
  BY FindingsAre
<1>7. Answer(q, 6) # Null /\ f.data.total = Answer(q, 6).total /\ f.data.of = Answer(q, 7)
  BY <1>6 DEF SpendFinding, Finding
<1> QED
  BY <1>2, <1>4, <1>5, <1>7, TopWithin

\* No more anomalies are shown of the month than it has.
LEMMA AnomaliesFew ==
    ASSUME Typed, NEW n \in 0 .. Len(ledger), NEW now, NEW allowed
    PROVE  Len(Anomalies(Page(n), now, 1, allowed)) <= Window(Page(n), now).anomalies
<1>1. PICK p : p = Page(n)
  OBVIOUS
<1>2. DOMAIN p = 1 .. n /\ n \in Nat
  BY <1>1, PageOf
<1>3. PICK flagged, all : /\ flagged = {i \in DOMAIN p : /\ p[i].anomaly
                                                         /\ 1 = Null \/ Within(p[i], now, 1)
                                                         /\ Permits(allowed, p[i].category)}
                          /\ all = {i \in {j \in DOMAIN p : Within(p[j], now, 1)} : p[i].anomaly}
  OBVIOUS
<1>4. /\ Anomalies(p, now, 1, allowed) = SubSeq(Latest(p, flagged), 1, Min({5, Cardinality(flagged)}))
      /\ Window(p, now).anomalies = Cardinality(all)
  BY <1>3 DEF Anomalies, Window
<1>5. flagged \in SUBSET all /\ all \in SUBSET (1 .. n)
  <2>1. 1 # Null
    BY NumbersAssumption
  <2> QED
    BY <1>2, <1>3, <2>1
<1>6. PICK c \in Nat, d \in Nat : c = Cardinality(flagged) /\ d = Cardinality(all) /\ c <= d
  <2>1. IsFiniteSet(all) /\ Cardinality(all) \in Nat
    BY <1>2, <1>5, SomeFinite
  <2>2. IsFiniteSet(flagged) /\ Cardinality(flagged) <= Cardinality(all)
    BY <1>5, <2>1, FS_Subset
  <2>3. Cardinality(flagged) \in Nat
    BY <2>2, FS_CardinalityType
  <2> QED
    BY <2>1, <2>2, <2>3
<1>7. PICK few \in Nat : few = Min({5, c}) /\ few <= c
  <2>1. \E x \in {5, c} : \A y \in {5, c} : x <= y
    OBVIOUS
  <2>2. Min({5, c}) \in {5, c} /\ \A y \in {5, c} : Min({5, c}) <= y
    BY <2>1 DEF Min
  <2> QED
    BY <2>2
<1>8. PICK list : list = Latest(p, flagged)
  OBVIOUS
<1>9. IsList(list) /\ Len(list) = c
  <2>1. list = [k \in 1 .. c |-> list[k]]
    <3> DEFINE Position(k) == CHOOSE i \in flagged : Cardinality({j \in flagged : Later(p, j, i)}) = k - 1
    <3>1. list = [k \in 1 .. c |-> Position(k)]
      BY <1>6, <1>8 DEF Latest
    <3> HIDE DEF Place
    <3>2. \A k \in 1 .. c : list[k] = Position(k)
      BY <3>1
    <3> QED
      BY <3>1, <3>2
  <2> QED
    BY <2>1, FunctionLists
<1>10. Len(SubSeq(list, 1, few)) = few
  <2>1. 1 \in 1 .. c + 1 /\ few \in (1 - 1) .. c
    BY <1>7
  <2>2. SubSeq(list, 1, few) = [i \in 1 .. few |-> list[i]]
    OBVIOUS
  <2>3. PICK s : s = SubSeq(list, 1, few) /\ s = [i \in 1 .. few |-> list[i]]
    BY <2>2
  <2>4. s = [i \in 1 .. few |-> s[i]]
    BY <2>3
  <2> QED
    BY <2>3, <2>4, FunctionLists
<1> QED
  BY <1>1, <1>4, <1>6, <1>7, <1>8, <1>10

\* If nothing happens while a reader reads, what it shows is what its summary says.
LEMMA Consistent ==
    ASSUME Typed, Moments, NEW q \in Readers, read[q].stage = "done", read[q].plan \in {"insights", "reasoning"},
           \A k \in 2 .. 8 : Moment(q, k) = Moment(q, 1)
    PROVE  OfSummary(FindingsOf(q), SummaryOf(q), read[q].plan)
<1>1. read[q].plan \in Plans /\ Len(Statements(read[q].plan)) = 8
  BY MomentsOf, StatementsOf
<1>2. PICK plan : plan = read[q].plan
  OBVIOUS
<1>3. /\ Statements(plan)[1] = "totals" /\ Statements(plan)[2] = "window"
      /\ Statements(plan)[3] = "totals" /\ Statements(plan)[4] = "window"
      /\ Statements(plan)[5] = "flow" /\ Statements(plan)[7] = "total_out" /\ Statements(plan)[8] = "flagged"
  BY <1>1, <1>2, StatementsOf
<1>4. PICK n, now, allowed : /\ n = Moment(q, 1).rows /\ now = Moment(q, 1).month /\ allowed = Allowed(q)
                             /\ n \in 0 .. Len(ledger)
  <2>1. 1 \in 1 .. 8
    OBVIOUS
  <2> QED
    BY <1>1, <2>1, MomentsOf
<1>5. \A k \in {1, 2, 3, 4, 5, 7, 8} : Moment(q, k).rows = n /\ Moment(q, k).month = now
  <2>1. \A k \in {2, 3, 4, 5, 7, 8} : k \in 2 .. 8
    OBVIOUS
  <2>2. \A k \in {2, 3, 4, 5, 7, 8} : Moment(q, k) = Moment(q, 1)
    BY <2>1
  <2> QED
    BY <1>4, <2>2
<1>6. PICK p : p = Page(n)
  OBVIOUS
<1>7. \A k \in {1, 2, 3, 4, 5, 7, 8} : SubSeq(ledger, 1, Moment(q, k).rows) = p
  BY <1>5, <1>6 DEF Page
<1>8. /\ Answer(q, 1) = Totals(p) /\ Answer(q, 2) = Window(p, now)
      /\ Answer(q, 3) = Totals(p) /\ Answer(q, 4) = Window(p, now)
      /\ Answer(q, 5) = Flow(p, now) /\ Answer(q, 7) = Outflow(p, now, allowed)
      /\ Answer(q, 8) = Anomalies(p, now, IF plan = "reasoning" THEN 1 ELSE Null, allowed)
  BY <1>2, <1>3, <1>4, <1>5, <1>7 DEF Answer
<1>9. PICK s : s = SummaryOf(q)
  OBVIOUS
<1>10. s = Summary(Totals(p), Window(p, now)) /\ HealthOf(q) = s
  BY <1>8, <1>9 DEF SummaryOf, HealthOf
<1>11. PICK found : found = FindingsOf(q)
  OBVIOUS
<1>12. /\ \A f \in Find(found, "health-score") : f = HealthFinding(s)
       /\ \A f \in Find(found, "flow-trend") : f # Null /\ f = TrendFinding(Flow(p, now))
       /\ \A f \in Find(found, "top-category") :
              f # Null /\ f = SpendFinding(Answer(q, 6), Outflow(p, now, allowed))
       /\ \A f \in Find(found, "anomalies") : f # Null /\ f = AnomalyFinding(Answer(q, 8))
  BY <1>8, <1>10, <1>11, FindingsAre
<1>13. ASSUME NEW f \in Find(found, "health-score") PROVE f.data = Score(s)
  <2>1. f = HealthFinding(s)
    BY <1>12
  <2> QED
    BY <2>1 DEF HealthFinding, Finding
<1>14. ASSUME NEW f \in Find(found, "flow-trend") PROVE f.data.current = s.net
  <2>1. f # Null /\ f = TrendFinding(Flow(p, now))
    BY <1>12
  <2>2. f.data = Flow(p, now)
    BY <2>1 DEF TrendFinding, Finding
  <2>3. Flow(p, now).current = Total(p, Recent(p, "inflow", now)) - Total(p, Recent(p, "outflow", now))
    BY DEF Flow
  <2>4. Outflow(p, now, Null) = Total(p, Recent(p, "outflow", now))
    <3>1. {i \in Recent(p, "outflow", now) : Permits(Null, p[i].category)} = Recent(p, "outflow", now)
      BY DEF Permits
    <3> QED
      BY <3>1 DEF Outflow
  <2>5. s.net = Total(p, Recent(p, "inflow", now)) - Outflow(p, now, Null)
    BY <1>10 DEF Summary, Window
  <2> QED
    BY <2>2, <2>3, <2>4, <2>5
<1>15. ASSUME NEW f \in Find(found, "top-category") PROVE f.data.of <= s.outflow
  <2>1. f # Null /\ f = SpendFinding(Answer(q, 6), Outflow(p, now, allowed))
    BY <1>12
  <2>2. f.data.of = Outflow(p, now, allowed)
    BY <2>1 DEF SpendFinding, Finding
  <2>3. s.outflow = Outflow(p, now, Null)
    BY <1>10 DEF Summary, Window
  <2>4. Outflows(n, now, allowed) \in SUBSET Outflows(n, now, Null) /\ Outflows(n, now, Null) \in SUBSET (1 .. n)
    BY DEF Outflows, Permits
  <2>5. Total(ledger, Outflows(n, now, allowed)) <= Total(ledger, Outflows(n, now, Null))
    BY <1>4, <2>4, Totalled
  <2> QED
    BY <1>4, <1>6, <2>2, <2>3, <2>5, OutflowOf
<1>16. ASSUME NEW f \in Find(found, "anomalies"), plan = "reasoning" PROVE Len(f.data) <= s.anomalies
  <2>1. f # Null /\ f = AnomalyFinding(Answer(q, 8))
    BY <1>12
  <2>2. f.data = Answer(q, 8) /\ Answer(q, 8) = Anomalies(p, now, 1, allowed)
    BY <1>8, <1>16, <2>1 DEF AnomalyFinding, Finding
  <2>3. s.anomalies = Window(p, now).anomalies
    BY <1>10 DEF Summary
  <2> QED
    BY <1>4, <1>6, <2>2, <2>3, AnomaliesFew
<1> QED
  BY <1>2, <1>9, <1>11, <1>13, <1>14, <1>15, <1>16 DEF OfSummary

-----------------------------------------------------------------------------
(* Replays.                                                                *)

\* Numbers from 0 on that are not none have a least.
LEMMA LeastOf ==
    ASSUME NEW n \in Nat, NEW S \in SUBSET (0 .. n), S # {}
    PROVE  Min(S) \in S /\ \A y \in S : Min(S) <= y
<1>1. CASE 0 \in S
  <2>1. \E x \in S : \A y \in S : x <= y
    BY <1>1
  <2> QED
    BY <2>1 DEF Min
<1>2. CASE 0 \notin S
  <2>1. S \in SUBSET (1 .. n)
    BY <1>2
  <2> QED
    BY <2>1, Least
<1> QED
  BY <1>1, <1>2

\* What the scenarios of a replay add on a day.
Deltas(scenarios, day) == SumFunction([i \in DOMAIN scenarios |-> Delta(scenarios[i], day)])

\* Without scenarios nothing, with one of 1 a day just that.
LEMMA NoDeltas == ASSUME NEW day PROVE Deltas(<<>>, day) = 0
<1>1. PICK f : f = [i \in DOMAIN <<>> |-> Delta(<<>>[i], day)] /\ DOMAIN f = {}
  OBVIOUS
<1>2. SumFunctionOnSet(f, {}) = 0
  BY SumStep, FS_EmptySet
<1> QED
  BY <1>1, <1>2 DEF Deltas, SumFunction

LEMMA DailyDeltas == ASSUME NEW day \in Nat PROVE Deltas(<<Scenario("recurring", -1, 0, 0)>>, day) = -1
<1>1. PICK s : s = Scenario("recurring", -1, 0, 0)
  OBVIOUS
<1>2. s.kind = "recurring" /\ s.amount = -1 /\ s.day_offset = 0 /\ s.frequency_days = 1
  <2>1. Max({1, 0}) = 1
    BY DEF Max
  <2> QED
    BY <1>1, <2>1 DEF Scenario
<1>3. Delta(s, day) = -1
  BY <1>2 DEF Delta
<1>4. PICK list : list = <<s>> /\ DOMAIN list = {1} /\ list[1] = s
  <2>1. 1 .. 1 = {1}
    OBVIOUS
  <2>2. DOMAIN <<s>> = 1 .. 1 /\ <<s>>[1] = s
    OBVIOUS
  <2> QED
    BY <2>1, <2>2
<1>5. PICK f : f = [i \in DOMAIN list |-> Delta(list[i], day)] /\ DOMAIN f = {1} /\ f[1] = -1
  <2>1. PICK f : f = [i \in DOMAIN list |-> Delta(list[i], day)]
    OBVIOUS
  <2>2. f[1] = Delta(list[1], day)
    BY <1>4, <2>1
  <2> QED
    BY <1>3, <1>4, <2>1, <2>2
<1>6. SumFunctionOnSet(f, {1}) = -1
  <2>1. IsFiniteSet({1}) /\ IsFiniteSet({})
    BY FS_Singleton, FS_EmptySet
  <2>2. Taken({1}) = 1 /\ {1} \ {1} = {}
    BY DEF Taken
  <2>3. SumFunctionOnSet(f, {}) = 0
    BY <2>1, SumStep
  <2>4. SumFunctionOnSet(f, {1}) = f[Taken({1})] + SumFunctionOnSet(f, {1} \ {Taken({1})})
    BY <2>1, SumStep
  <2> QED
    BY <1>5, <2>2, <2>3, <2>4
<1> QED
  BY <1>1, <1>4, <1>5, <1>6 DEF Deltas, SumFunction

\* The balances of a replay in which every day adds the same.
Balancing(balance, s, scenarios, horizon) ==
    balance = [day \in 0 .. horizon |->
                  IF day = 0 THEN Projected(s, 0)
                  ELSE balance[day - 1] + s.net + 30 * Deltas(scenarios, day)]

LEMMA BalancesAre ==
    ASSUME NEW s, s.balance \in Int, s.net \in Int, NEW scenarios, NEW horizon \in Nat, NEW d \in Int,
           \A day \in Nat : Deltas(scenarios, day) = d
    PROVE  \A day \in 0 .. horizon :
               Balances(s, scenarios, horizon)[day] = 30 * s.balance + day * (s.net + 30 * d)
<1>1. PICK b \in Int, k \in Int : b = 30 * s.balance /\ k = s.net + 30 * d
  OBVIOUS
<1>2. Projected(s, 0) = b
  BY <1>1 DEF Projected
<1>3. Balances(s, scenarios, horizon) = CHOOSE balance : Balancing(balance, s, scenarios, horizon)
  BY DEF Balances, Balancing, Deltas
<1>4. \E balance : Balancing(balance, s, scenarios, horizon)
  <2>1. PICK g : g = [day \in 0 .. horizon |-> b + day * k]
    OBVIOUS
  <2>2. ASSUME NEW day \in 0 .. horizon
        PROVE  b + day * k = IF day = 0 THEN Projected(s, 0) ELSE g[day - 1] + s.net + 30 * Deltas(scenarios, day)
    <3>1. CASE day = 0
      BY <1>2, <3>1
    <3>2. CASE day # 0
      <4>1. day - 1 \in 0 .. horizon
        BY <3>2
      <4>2. g[day - 1] = b + (day - 1) * k
        BY <2>1, <4>1
      <4>3. Deltas(scenarios, day) = d
        OBVIOUS
      <4>4. (day - 1) * k + k = day * k
        OBVIOUS
      <4> QED
        BY <1>1, <3>2, <4>2, <4>3, <4>4
    <3> QED
      BY <3>1, <3>2
  <2>3. Balancing(g, s, scenarios, horizon)
    BY <2>1, <2>2 DEF Balancing
  <2> QED
    BY <2>3
<1>5. PICK g : g = Balances(s, scenarios, horizon) /\ Balancing(g, s, scenarios, horizon)
  BY <1>3, <1>4
<1>6. ASSUME NEW day \in 0 .. horizon
      PROVE  g[day] = IF day = 0 THEN b ELSE g[day - 1] + s.net + 30 * d
  <2>1. Deltas(scenarios, day) = d
    OBVIOUS
  <2>2. g[day] = IF day = 0 THEN Projected(s, 0) ELSE g[day - 1] + s.net + 30 * Deltas(scenarios, day)
    BY <1>5 DEF Balancing
  <2>3. CASE day = 0
    BY <1>2, <2>2, <2>3
  <2>4. CASE day # 0
    BY <2>1, <2>2, <2>4
  <2> QED
    BY <2>3, <2>4
<1>7. ASSUME NEW day \in 0 .. horizon PROVE g[day] = b + day * k
  <2> DEFINE Bad == {x \in 0 .. horizon : g[x] # b + x * k}
  <2> SUFFICES ASSUME Bad # {} PROVE FALSE
    OBVIOUS
  <2>1. Bad \in SUBSET (0 .. horizon)
    OBVIOUS
  <2>2. PICK x \in Bad : \A y \in Bad : x <= y
    <3> HIDE DEF Bad
    <3> QED
      BY <2>1, LeastOf
  <2>3. x \in 0 .. horizon /\ g[x] # b + x * k
    OBVIOUS
  <2>4. x # 0
    BY <1>6, <2>3
  <2>5. x - 1 \in 0 .. horizon /\ x - 1 \notin Bad
    <3> HIDE DEF Bad
    <3> QED
      BY <2>2, <2>3, <2>4
  <2>6. g[x - 1] = b + (x - 1) * k
    BY <2>5
  <2>7. g[x] = g[x - 1] + k
    <3>1. g[x] = g[x - 1] + s.net + 30 * d
      BY <1>6, <2>3, <2>4
    <3>2. PICK rest \in Int : g[x - 1] = rest
      BY <2>3, <2>6
    <3> QED
      BY <1>1, <3>1, <3>2
  <2>8. (x - 1) * k + k = x * k
    BY <2>3
  <2> QED
    BY <2>3, <2>6, <2>7, <2>8
<1> QED
  BY <1>1, <1>5, <1>7

\* How a replay ends.
LEMMA ReplayEnds ==
    ASSUME NEW s, s.balance \in Int, s.net \in Int, NEW scenarios, NEW d \in Int,
           \A day \in Nat : Deltas(scenarios, day) = d
    PROVE  LET replay == Simulate(s, scenarios, 30)
           IN  /\ replay.ending_balance = 30 * s.balance + 30 * (s.net + 30 * d)
               /\ replay.ending_balance < 0 => replay.goes_negative_on # Null
<1>1. Horizon(30) = 30
  <2>1. Min({365, 30}) = 30
    BY DEF Min
  <2>2. Max({1, 30}) = 30
    BY DEF Max
  <2> QED
    BY <2>1, <2>2 DEF Horizon
<1>2. PICK balances : balances = Balances(s, scenarios, 30)
  OBVIOUS
<1>3. Simulate(s, scenarios, 30) = Outcome(balances, 30)
  BY <1>1, <1>2 DEF Simulate
<1>4. balances[30] = 30 * s.balance + 30 * (s.net + 30 * d)
  <2>1. 30 \in 0 .. 30 /\ 30 \in Nat
    OBVIOUS
  <2> QED
    BY <1>2, <2>1, BalancesAre
<1>5. PICK below : below = {x \in 0 .. 30 : balances[x] < 0}
  OBVIOUS
<1>6. /\ Outcome(balances, 30).ending_balance = balances[30]
      /\ Outcome(balances, 30).goes_negative_on = IF below = {} THEN Null ELSE Min(below)
  BY <1>5 DEF Outcome
<1>7. ASSUME balances[30] < 0 PROVE below # {} /\ Min(below) # Null
  <2>1. 30 \in below
    BY <1>5, <1>7
  <2>2. below \in SUBSET (0 .. 30) /\ below # {} /\ 30 \in Nat
    BY <1>5, <2>1
  <2>3. Min(below) \in 0 .. 30
    BY <2>2, LeastOf
  <2> QED
    BY <2>2, <2>3, NumbersAssumption
<1> QED
  BY <1>3, <1>4, <1>6, <1>7

\* A replay without scenarios is the forecast, and one of 1 a day is below it.
LEMMA Forecasts ==
    ASSUME Typed, Moments, NEW q \in Readers, read[q].stage = "done", read[q].plan = "replay.create"
    PROVE  LikeForecast(ForecastFinding(SummaryOf(q)), ReplayOf(q, <<>>),
                        ReplayOf(q, <<Scenario("recurring", -1, 0, 0)>>))
<1>1. PICK s : s = SummaryOf(q)
  OBVIOUS
<1>2. s.balance \in Int /\ s.net \in Int
  <2>1. /\ read[q].plan \in Plans /\ Len(Statements(read[q].plan)) = 2
        /\ Statements(read[q].plan)[1] = "totals" /\ Statements(read[q].plan)[2] = "window"
    BY MomentsOf, StatementsOf
  <2>2. PICK m, n, now : /\ m = Moment(q, 1).rows /\ n = Moment(q, 2).rows /\ now = Moment(q, 2).month
                         /\ m \in 0 .. Len(ledger) /\ n \in 0 .. Len(ledger)
    <3>1. 1 \in 1 .. 2 /\ 2 \in 1 .. 2
      OBVIOUS
    <3> QED
      BY <2>1, <3>1, MomentsOf
  <2>3. Answer(q, 1) = Totals(Page(m)) /\ Answer(q, 2) = Window(Page(n), now)
    BY <2>1, <2>2 DEF Answer, Page
  <2>4. /\ s.balance = Totals(Page(m))
        /\ s.net = Total(Page(n), Recent(Page(n), "inflow", now)) - Outflow(Page(n), now, Null)
    BY <1>1, <2>3 DEF SummaryOf, Summary, Window
  <2>5. \A direction : Total(Page(m), Rows(Page(m), direction)) \in Int
    <3> SUFFICES ASSUME NEW direction PROVE Total(Page(m), Rows(Page(m), direction)) \in Int
      OBVIOUS
    <3>1. PICK rows : rows = Rows(Page(m), direction)
      OBVIOUS
    <3>2. rows \in SUBSET (1 .. m)
      BY <2>2, <3>1, PageOf DEF Rows
    <3> QED
      BY <2>2, <3>1, <3>2, Totalled
  <2>6. Total(Page(n), Recent(Page(n), "inflow", now)) \in Int
    <3>1. PICK rows : rows = Recent(Page(n), "inflow", now)
      OBVIOUS
    <3>2. rows \in SUBSET (1 .. n)
      BY <2>2, <3>1, PageOf DEF Recent, Rows
    <3> QED
      BY <2>2, <3>1, <3>2, Totalled
  <2>7. Outflow(Page(n), now, Null) \in Int
    BY <2>2, OutflowOf, Totalled
  <2>8. Totals(Page(m)) \in Int
    BY <2>5 DEF Totals
  <2> QED
    BY <2>4, <2>6, <2>7, <2>8
<1>3. PICK plain, daily : /\ plain = ReplayOf(q, <<>>)
                          /\ daily = ReplayOf(q, <<Scenario("recurring", -1, 0, 0)>>)
  OBVIOUS
<1>4. /\ plain.ending_balance = 30 * s.balance + 30 * (s.net + 30 * 0)
      /\ plain.ending_balance < 0 => plain.goes_negative_on # Null
  <2>1. plain = Simulate(s, <<>>, 30)
    BY <1>1, <1>3 DEF ReplayOf
  <2>2. 0 \in Int /\ \A day \in Nat : Deltas(<<>>, day) = 0
    BY NoDeltas
  <2> QED
    BY <1>2, <2>1, <2>2, ReplayEnds
<1>5. daily.ending_balance = 30 * s.balance + 30 * (s.net + 30 * (-1))
  <2>1. daily = Simulate(s, <<Scenario("recurring", -1, 0, 0)>>, 30)
    BY <1>1, <1>3 DEF ReplayOf
  <2>2. -1 \in Int /\ \A day \in Nat : Deltas(<<Scenario("recurring", -1, 0, 0)>>, day) = -1
    BY DailyDeltas
  <2> QED
    BY <1>2, <2>1, <2>2, ReplayEnds
<1>6. PICK forecast : forecast = ForecastFinding(s)
  OBVIOUS
<1>7. /\ forecast.data = 30 * s.balance + s.net * 30
      /\ forecast.severity = "critical" => forecast.data < 0
  BY <1>6 DEF ForecastFinding, Finding, Projected
<1> QED
  BY <1>1, <1>2, <1>3, <1>4, <1>5, <1>6, <1>7 DEF LikeForecast

-----------------------------------------------------------------------------
(* Theorems.                                                               *)

\* The inductive invariant.
LEMMA Induction == Spec => [](Typed /\ Books /\ Runs /\ Flags /\ Moments)
<1>1. Typed /\ Books /\ Runs /\ Flags /\ Moments /\ [Next]_vars => (Typed /\ Books /\ Runs /\ Flags /\ Moments)'
  BY TypedStep, BooksStep, RunsStep, FlagsStep, MomentsStep
<1> QED
  BY <1>1, TypedInit, BooksInit, RunsInit, FlagsInit, MomentsInit, PTL DEF Spec

\* Every row has passed the constraints of ledger_transactions, definitions have a
\* uuid each, and a run belongs to a definition and a row that exist.
THEOREM TypesHold == Spec => []TypeOK
<1>1. Typed /\ Books /\ Runs /\ Flags => TypeOK
  <2> SUFFICES ASSUME Typed, Runs PROVE TypeOK
    OBVIOUS
  <2>1. \A k \in DOMAIN runs : k[1] \in Ids /\ k[2] \in DOMAIN ledger /\ runs[k] \in Nat \ {0}
    <3> SUFFICES ASSUME NEW k \in DOMAIN runs PROVE k[1] \in Ids /\ k[2] \in DOMAIN ledger /\ runs[k] \in Nat \ {0}
      OBVIOUS
    <3>1. runs[k] = 1 /\ k[2] \in DOMAIN ledger /\ \E n \in DOMAIN defs : defs[n].id = k[1]
      BY DEF Runs, RunsBacked
    <3> QED
      BY <3>1 DEF Ids
  <2>2. \A i, j \in DOMAIN defs : defs[i].id = defs[j].id => i = j
    BY DEF Runs, Definitions
  <2>3. ASSUME NEW w \in Writers PROVE write[w].stage \in WriterStages
    <3>1. CASE At(w, "idle")
      BY <3>1 DEF At, WriterStages
    <3>2. CASE ~At(w, "idle")
      <4>1. write[w].stage \in Stages(Kind(w)) /\ Kind(w) \in {"create", "import", "connect", "define", "automate"}
        BY <3>2, KindAt
      <4> QED
        BY <4>1 DEF Stages, WriterStages
    <3> QED
      BY <3>1, <3>2
  <2>4. \A q \in Readers : read[q].stage \in {"idle", "account", "open", "reading", "done", "failed"}
    BY DEF Typed, ReaderTyped
  <2> QED
    BY <2>1, <2>2, <2>3, <2>4 DEF Typed, TypeOK
<1> QED
  BY <1>1, Induction, PTL

\* _graph_import_csv and _providers_connect (engine.py:841, 1007): whatever fails, what
\* is there is a beginning of the file or of the history in its order, and the event at
\* the end counts all of it.
THEOREM ImportsHold == Spec => []ImportsArePrefixes
<1>1. Typed /\ Books /\ Runs /\ Flags => ImportsArePrefixes
  <2> SUFFICES ASSUME Typed, Books, NEW w \in Writers, write[w].stage # "idle", Kind(w) \in {"import", "connect"}
               PROVE  LET all == Source(write[w].job)
                      IN  /\ Cardinality(RowsOf(w)) <= Len(all)
                          /\ \A i \in RowsOf(w) : /\ ledger[i].direction = all[Place(w, i)].direction
                                                 /\ ledger[i].amount = all[Place(w, i)].amount
                          /\ \A i \in DOMAIN events :
                                 events[i][2] = w => events[i][3] = Len(all) /\ Cardinality(RowsOf(w)) = Len(all)
    BY DEF ImportsArePrefixes
  <2>1. Booked(w) /\ Kind(w) \in Recording /\ ~At(w, "idle")
    BY DEF Books, Recording, At
  <2>2. Prefix(w)
    BY <2>1 DEF Booked
  <2>3. ASSUME NEW i \in DOMAIN events, events[i][2] = w
        PROVE  events[i][3] = Len(Source(write[w].job)) /\ Cardinality(RowsOf(w)) = Len(Source(write[w].job))
    <3>1. At(w, "done") /\ events[i][3] = Len(Source(write[w].job))
      BY <2>3 DEF Books, Published
    <3> QED
      BY <2>1, <3>1 DEF Booked, At
  <2> QED
    BY <2>2, <2>3 DEF Prefix
<1> QED
  BY <1>1, Induction, PTL

\* last_synced_at (engine.py:1027) is only set behind a whole history, whichever of a
\* company's connections set it and whatever became of the others.
THEOREM SyncedHolds == Spec => []SyncedMeansRecorded
<1>1. Typed /\ Books /\ Runs /\ Flags => SyncedMeansRecorded
  BY DEF Books, Synced, SyncedMeansRecorded
<1> QED
  BY <1>1, Induction, PTL

\* evaluate_and_run (automation.py:125-151): a definition that stood before a request
\* began and still stands has run once on each of its rows that it matches, and none has
\* run on a row it does not match, whatever is defined or deleted meanwhile.
THEOREM MatchesRun == Spec => []EveryMatchRuns
<1>1. Typed /\ Books /\ Runs /\ Flags => EveryMatchRuns
  BY DEF Runs, Automated, Ran, RunsBacked, EveryMatchRuns
<1> QED
  BY <1>1, Induction, PTL

\* record_transaction (graph.py:109, 118): a flag is what the rule says of the ledger at
\* some moment since the same request's previous row.
THEOREM FlagsHold == Spec => []FlagsHonest
<1>1. Typed /\ Books /\ Runs /\ Flags => FlagsHonest
  BY DEF Flags
<1> QED
  BY <1>1, Induction, PTL

\* graph.py, ai/insights.py, analysis_engine.py and simulator.py repeat the same queries:
\* if nothing happens while a reader reads, what it shows agrees with its summary; within a
\* month a share is one of a whole, whatever is recorded between the two statements; health
\* is the headline; and a replay without scenarios arrives where the forecast does.
THEOREM AgreementHolds == Spec => []FindingsAgree
<1>1. Typed /\ Moments => FindingsAgree
  BY Shares, Headline, Consistent, Forecasts DEF FindingsAgree
<1> QED
  BY <1>1, Induction, PTL

===============================================================================

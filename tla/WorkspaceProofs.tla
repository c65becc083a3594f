---------------------------- MODULE WorkspaceProofs ----------------------------
(***************************************************************************)
(* Proofs about the workspace's handlers, for any requests, any jobs and   *)
(* any tables a company begins with: the webhook secret is revealed once,  *)
(* health is one test behind at most, a schema keeps its versions, the     *)
(* security overview does not contradict itself, and the tables hold what  *)
(* their columns may hold.                                                 *)
(***************************************************************************)
EXTENDS Workspace, TLAPS

-----------------------------------------------------------------------------
(* How requests move on.                                                   *)

\* The types of what is known of a request.
Moving ==
    /\ job \in [Requests -> Jobs] /\ stage \in [Requests -> Stages]
    /\ DOMAIN held = Requests /\ DOMAIN reply = Requests
    /\ epoch \in Nat

\* What Becomes does to its request, and that it does nothing to another.
LEMMA Becoming ==
    ASSUME Moving, NEW w \in Requests, NEW at \in Stages, NEW p, NEW h, NEW r, Becomes(w, at, p, h, r)
    PROVE  /\ epoch' = epoch => Moving'
           /\ job' = job
           /\ stage'[w] = at /\ held'[w] = h /\ reply'[w] = r
           /\ \A x \in Requests \ {w} : stage'[x] = stage[x] /\ held'[x] = held[x] /\ reply'[x] = reply[x]
BY DEF Moving, Becomes

\* The stages that the handlers name.
LEMMA StageNames ==
    /\ {"todo", "insert", "key", "announce", "endpoint", "integrity", "preview", "versions",
        "health", "settings", "done", "refused", "failed"} \subseteq Stages
    /\ AfterPart.keys = "endpoint" /\ AfterPart.endpoint = "integrity" /\ AfterPart.integrity = "done"
BY DEF Stages, Ended, AfterPart

\* A handler moves its own request and no other, which then has begun; what it was
\* asked stays.
Moved(w) ==
    /\ Moving' /\ job' = job /\ epoch' = epoch
    /\ stage'[w] # "todo"
    /\ \A x \in Requests \ {w} : stage'[x] = stage[x] /\ held'[x] = held[x] /\ reply'[x] = reply[x]

\* A handler moves one request.
LEMMA Moves ==
    ASSUME Moving, NEW w \in Requests, Handle(w)
    PROVE  Moved(w)
<1>1. CASE Refuse(w) \/ Fail(w) \/ Unlisted(w) \/ Generate(w)
  BY <1>1, Becoming, StageNames DEF Moved, Refuse, Fail, Unlisted, Generate, Move
<1>2. CASE Announce(w)
  BY <1>2, Becoming, StageNames DEF Moved, Announce
<1>3. CASE Look(w) \/ GetPreferences(w) \/ ListVersions(w)
  BY <1>3, Becoming, StageNames DEF Moved, Look, GetPreferences, ListVersions, Answer
<1>4. CASE InsertEndpoint(w) \/ TestEndpoint(w)
  BY <1>4, Becoming, StageNames DEF Moved, InsertEndpoint, TestEndpoint, Move, Hold, Answer
<1>5. CASE CreateKey(w)
  BY <1>5, Becoming, StageNames DEF Moved, CreateKey, Publishing
<1>13. CASE RevokeKey(w)
  BY <1>13, Becoming, StageNames DEF Moved, RevokeKey, Publishing
<1>6. CASE Rotate(w)
  BY <1>6, Becoming, StageNames DEF Moved, Rotate, Move
<1>7. CASE OverviewKeys(w) \/ OverviewEndpoint(w) \/ OverviewIntegrity(w)
  BY <1>7, Becoming, StageNames DEF Moved, OverviewKeys, OverviewEndpoint, OverviewIntegrity
<1>8. CASE ConnectProvider(w) \/ ConnectSystem(w) \/ SaveMapping(w) \/ SaveSchema(w) \/ Toggle(w)
  BY <1>8, Becoming, StageNames
     DEF Moved, ConnectProvider, ConnectSystem, SaveMapping, SaveSchema, Toggle, Publishing
<1>9. CASE TestProvider(w)
  BY <1>9, Becoming, StageNames DEF Moved, TestProvider, Move, Answer
<1>14. CASE DisconnectProvider(w) \/ DisconnectSystem(w)
  BY <1>14, Becoming, StageNames DEF Moved, DisconnectProvider, DisconnectSystem, Move, Publishing
<1>10. CASE TestSystem(w) \/ WriteHealth(w)
  BY <1>10, Becoming, StageNames DEF Moved, TestSystem, WriteHealth, Move, Answer, Hold
<1>11. CASE DeleteMapping(w) \/ DeleteSchema(w) \/ Preview(w) \/ ValidateEvent(w) \/ FindVersions(w)
  BY <1>11, Becoming, StageNames
     DEF Moved, DeleteMapping, DeleteSchema, Preview, ValidateEvent, FindVersions, Move, Answer, Hold
<1>12. CASE MarkRead(w) \/ SetPreferences(w)
  BY <1>12, Becoming, StageNames DEF Moved, MarkRead, SetPreferences, Move, Answer
<1> QED
  BY <1>1, <1>2, <1>3, <1>4, <1>5, <1>6, <1>7, <1>8, <1>9, <1>10, <1>11, <1>12, <1>13, <1>14 DEF Handle

\* So does every step of the Kernel.
LEMMA MovingHolds == Spec => []Moving
<1>1. Init => Moving
  BY RequestsAssumption, StageNames DEF Init, Moving
<1>2. Moving /\ [Next]_vars => Moving'
  <2> SUFFICES ASSUME Moving, [Next]_vars PROVE Moving'
    OBVIOUS
  <2>1. CASE Restart
    BY <2>1, StageNames DEF Restart, Moving, Stages, Ended
  <2>2. CASE \E w \in Requests : Handle(w)
    BY <2>2, Moves DEF Moved
  <2>3. CASE UNCHANGED vars
    BY <2>3 DEF vars, progress, Moving
  <2> QED
    BY <2>1, <2>2, <2>3 DEF Next
<1> QED
  BY <1>1, <1>2, PTL DEF Spec

-----------------------------------------------------------------------------
(* The webhook secret.                                                     *)

\* Only the INSERT and the rotation touch the endpoint, and only the INSERT gives
\* a generating request something to hold.
LEMMA EndpointKept ==
    ASSUME Moving, NEW w \in Requests, Handle(w), ~InsertEndpoint(w), ~Rotate(w)
    PROVE  endpoint' = endpoint /\ (held'[w] = held[w] \/ ~Generating(w))
<1> USE DEF tables, credentials, connections, definitions, settings
<1>1. CASE Refuse(w) \/ Fail(w) \/ Unlisted(w) \/ Generate(w)
  BY <1>1, Becoming, StageNames DEF Refuse, Fail, Unlisted, Generate, Move
<1>2. CASE Announce(w)
  BY <1>2, Becoming, StageNames DEF Announce
<1>3. CASE Look(w) \/ GetPreferences(w) \/ ListVersions(w)
  BY <1>3, Becoming, StageNames DEF Look, GetPreferences, ListVersions, Answer
<1>4. CASE TestEndpoint(w)
  BY <1>4, Becoming, StageNames DEF TestEndpoint, Move, Answer
<1>5. CASE CreateKey(w)
  BY <1>5, Becoming, StageNames DEF CreateKey, Publishing
<1>6. CASE RevokeKey(w)
  BY <1>6, Becoming, StageNames DEF RevokeKey, Publishing
<1>7. CASE OverviewKeys(w) \/ OverviewEndpoint(w) \/ OverviewIntegrity(w)
  BY <1>7, Becoming, StageNames DEF OverviewKeys, OverviewEndpoint, OverviewIntegrity
<1>8. CASE ConnectProvider(w) \/ ConnectSystem(w) \/ SaveMapping(w) \/ SaveSchema(w) \/ Toggle(w)
  BY <1>8, Becoming, StageNames DEF ConnectProvider, ConnectSystem, SaveMapping, SaveSchema, Toggle, Publishing
<1>9. CASE TestProvider(w)
  <2>1. UNCHANGED <<tables, epoch, events>>
    BY <1>9 DEF TestProvider
  <2>2. Move(w, "refused") \/ \E answer : Answer(w, answer)
    BY <1>9 DEF TestProvider
  <2>3. held'[w] = held[w]
    BY <2>2, Becoming, StageNames DEF Move, Answer
  <2> QED
    BY <2>1, <2>3
<1>13. CASE DisconnectProvider(w)
  BY <1>13, Becoming, StageNames DEF DisconnectProvider, Move, Publishing
<1>14. CASE DisconnectSystem(w)
  BY <1>14, Becoming, StageNames DEF DisconnectSystem, Move, Publishing
<1>10. CASE TestSystem(w) \/ WriteHealth(w)
  BY <1>10, Becoming, StageNames DEF TestSystem, WriteHealth, Move, Answer, Hold, On, Generating
<1>11. CASE DeleteMapping(w) \/ DeleteSchema(w) \/ Preview(w) \/ ValidateEvent(w) \/ FindVersions(w)
  BY <1>11, Becoming, StageNames
     DEF DeleteMapping, DeleteSchema, Preview, ValidateEvent, FindVersions, Move, Answer, Hold, On, Generating
<1>12. CASE MarkRead(w) \/ SetPreferences(w)
  BY <1>12, Becoming, StageNames DEF MarkRead, SetPreferences, Move, Answer
<1> QED
  BY <1>1, <1>2, <1>3, <1>4, <1>5, <1>6, <1>7, <1>8, <1>9, <1>10, <1>11, <1>12, <1>13, <1>14 DEF Handle

\* A request is not Null, and neither is the secret it mints.
LEMMA Minting ==
    ASSUME Moving, NEW w \in Requests
    PROVE  /\ w # Null
           /\ NewSecret(w).by = w /\ NewSecret(w) # Null
<1>1. NewSecret(w) \in [by : Requests \cup {"before"}, epoch : Nat]
  BY DEF NewSecret, Moving
<1> QED
  BY <1>1, RequestsAssumption DEF NewSecret

\* RevealedOnce is inductive: the INSERT succeeds only while there is no endpoint,
\* and then nobody holds a secret yet.
LEMMA RevealedInduction ==
    ASSUME Moving, RevealedOnce, [Next]_vars
    PROVE  RevealedOnce'
<1>1. CASE UNCHANGED vars
  BY <1>1 DEF RevealedOnce, Generating, vars, tables, credentials, progress
<1>2. CASE Restart
  BY <1>2 DEF Restart, RevealedOnce, Generating, tables, credentials
<1>3. ASSUME NEW w \in Requests, Handle(w) PROVE RevealedOnce'
  <2>0. Moved(w)
    BY <1>3, Moves
  <2>1. CASE InsertEndpoint(w) /\ endpoint = Null
    <3>1. \A x \in Requests : Generating(x) => held[x] = Null
      BY <2>1 DEF RevealedOnce
    <3>2. endpoint' = NewSecret(w) /\ held'[w] = w
      BY <2>1, Becoming, StageNames DEF InsertEndpoint, Hold
    <3>3. endpoint'.by = w /\ endpoint' # Null
      BY <3>2, Minting
    <3> QED
      BY <3>1, <3>3, <2>0 DEF RevealedOnce, Generating, Moved
  <2>2. CASE InsertEndpoint(w) /\ endpoint # Null
    <3>1. endpoint' = endpoint /\ held'[w] = held[w]
      BY <2>2, Becoming, StageNames DEF InsertEndpoint, Move
    <3> QED
      BY <3>1, <2>0 DEF RevealedOnce, Generating, Moved
  <2>3. CASE Rotate(w) /\ endpoint # Null
    <3>1. endpoint' = NewSecret(w) /\ job[w].kind = "company.rotate_secret" /\ ~Generating(w)
      BY <2>3 DEF Rotate, On, Generating
    <3>2. endpoint'.by = w /\ endpoint' # Null
      BY <3>1, Minting DEF Moving
    <3> QED
      BY <3>1, <3>2, <2>0 DEF RevealedOnce, Generating, Moved
  <2>4. CASE Rotate(w) /\ endpoint = Null
    <3>1. endpoint' = endpoint /\ held'[w] = held[w]
      BY <2>4, Becoming, StageNames DEF Rotate, Move
    <3> QED
      BY <3>1, <2>0 DEF RevealedOnce, Generating, Moved
  <2>5. CASE ~InsertEndpoint(w) /\ ~Rotate(w)
    <3>1. endpoint' = endpoint /\ (held'[w] = held[w] \/ ~Generating(w))
      BY <1>3, <2>5, EndpointKept
    <3> QED
      BY <3>1, <2>0 DEF RevealedOnce, Generating, Moved
  <2> QED
    BY <2>1, <2>2, <2>3, <2>4, <2>5
<1> QED
  BY <1>1, <1>2, <1>3 DEF Next

\* Of the requests that generate an endpoint one at most reveals the webhook
\* secret, and that secret is the stored one until somebody rotates it.
THEOREM RevealedHolds == Spec => []RevealedOnce
<1>1. Init => RevealedOnce
  BY DEF Init, RevealedOnce
<1>2. Moving /\ RevealedOnce /\ [Next]_vars => RevealedOnce'
  BY RevealedInduction
<1> QED
  BY <1>1, <1>2, MovingHolds, PTL DEF Spec

-----------------------------------------------------------------------------
(* The security overview.                                                  *)

\* Where an overview is, and what it has seen by then: an endpoint it saw is there
\* when its secret is looked at, because no handler deletes an endpoint.
OverviewAt(w) ==
    job[w].kind = "security.overview" =>
        /\ stage[w] \in {"todo", "endpoint", "integrity"} \cup Ended
        /\ stage[w] \in {"endpoint", "integrity", "done"} =>
               DOMAIN reply[w] = {"active", "revoked", "members", "configured", "certificate"}
        /\ stage[w] = "integrity" => (reply[w].configured => endpoint # Null)
        /\ stage[w] = "done" => ~(reply[w].configured /\ reply[w].certificate = "not_configured")

OverviewInv == \A w \in Requests : OverviewAt(w)

\* An endpoint stays.
LEMMA EndpointStays ==
    ASSUME Moving, [Next]_vars, endpoint # Null
    PROVE  endpoint' # Null
<1>1. CASE UNCHANGED vars
  BY <1>1 DEF vars, tables, credentials
<1>2. CASE Restart
  BY <1>2 DEF Restart, tables, credentials
<1>3. ASSUME NEW w \in Requests, Handle(w) PROVE endpoint' # Null
  <2>1. CASE InsertEndpoint(w)
    BY <2>1 DEF InsertEndpoint
  <2>2. CASE Rotate(w)
    BY <2>2, Minting DEF Rotate
  <2>3. CASE ~InsertEndpoint(w) /\ ~Rotate(w)
    BY <1>3, <2>3, EndpointKept
  <2> QED
    BY <2>1, <2>2, <2>3
<1> QED
  BY <1>1, <1>2, <1>3 DEF Next

\* An overview is moved by the three reads, or fails or is refused.
LEMMA OverviewMoves ==
    ASSUME Moving, NEW w \in Requests, Handle(w), job[w].kind = "security.overview", OverviewAt(w)
    PROVE  \/ OverviewKeys(w) \/ OverviewEndpoint(w) \/ OverviewIntegrity(w)
           \/ stage'[w] \in {"failed", "refused"}
<1>1. CASE Refuse(w) \/ Fail(w)
  BY <1>1, Becoming, StageNames DEF Refuse, Fail, Move
<1>2. CASE Unlisted(w) \/ Look(w) \/ Announce(w) \/ Generate(w) \/ InsertEndpoint(w) \/ CreateKey(w) \/ RevokeKey(w)
           \/ Rotate(w) \/ TestEndpoint(w)
  BY <1>2 DEF OverviewAt, Ended, On, Unlisted, Look, Views, Announce, Generate, InsertEndpoint, CreateKey,
              RevokeKey, Rotate, TestEndpoint
<1>3. CASE ConnectProvider(w) \/ TestProvider(w) \/ DisconnectProvider(w)
           \/ ConnectSystem(w) \/ TestSystem(w) \/ WriteHealth(w) \/ DisconnectSystem(w)
  BY <1>3 DEF OverviewAt, Ended, On, ConnectProvider, TestProvider, DisconnectProvider, ConnectSystem, TestSystem,
              WriteHealth, DisconnectSystem
<1>4. CASE SaveMapping(w) \/ DeleteMapping(w) \/ Preview(w) \/ SaveSchema(w) \/ DeleteSchema(w)
           \/ ValidateEvent(w) \/ FindVersions(w) \/ ListVersions(w)
  BY <1>4 DEF OverviewAt, Ended, On, SaveMapping, DeleteMapping, Preview, SaveSchema, DeleteSchema, ValidateEvent,
              FindVersions, ListVersions
<1>5. CASE Toggle(w) \/ MarkRead(w) \/ SetPreferences(w) \/ GetPreferences(w)
  BY <1>5 DEF OverviewAt, Ended, On, Toggle, MarkRead, SetPreferences, GetPreferences
<1> QED
  BY <1>1, <1>2, <1>3, <1>4, <1>5 DEF Handle

\* The overview is inductive, given where requests stand.
LEMMA OverviewInduction ==
    ASSUME Moving, OverviewInv, [Next]_vars
    PROVE  OverviewInv'
<1>1. CASE UNCHANGED vars
  BY <1>1 DEF OverviewInv, OverviewAt, vars, tables, credentials, progress
<1>2. CASE Restart
  BY <1>2 DEF Restart, OverviewInv, OverviewAt, Ended, tables, credentials, Moving
<1>3. ASSUME NEW w \in Requests, Handle(w) PROVE OverviewInv'
  <2>0. Moved(w)
    BY <1>3, Moves
  <2>1. ASSUME NEW x \in Requests \ {w} PROVE OverviewAt(x)'
    <3>1. stage'[x] = stage[x] /\ reply'[x] = reply[x] /\ job' = job
      BY <2>0 DEF Moved
    <3>2. endpoint # Null => endpoint' # Null
      BY <1>3, EndpointStays DEF Next
    <3> QED
      BY <3>1, <3>2 DEF OverviewInv, OverviewAt
  <2>2. ASSUME job[w].kind = "security.overview" PROVE OverviewAt(w)'
    <3>0. job' = job /\ OverviewAt(w)
      BY <2>0 DEF Moved, OverviewInv
    <3>1. CASE OverviewKeys(w)
      BY <3>0, <3>1, Becoming, StageNames DEF OverviewKeys, OverviewAt, Ended
    <3>2. CASE OverviewEndpoint(w)
      <4>1. /\ stage[w] = "endpoint" /\ stage'[w] = "integrity" /\ endpoint' = endpoint
            /\ reply'[w] = [reply[w] EXCEPT !.configured = (endpoint # Null)]
        BY <3>2, Becoming, StageNames DEF OverviewEndpoint, tables, credentials
      <4>2. DOMAIN reply[w] = {"active", "revoked", "members", "configured", "certificate"}
        BY <4>1, <3>0, <2>2 DEF OverviewAt
      <4> QED
        BY <4>1, <4>2, <3>0 DEF OverviewAt, Ended
    <3>3. CASE OverviewIntegrity(w)
      <4> DEFINE says == IF endpoint = Null THEN "not_configured" ELSE IF Readable THEN "valid" ELSE "invalid"
      <4>1. /\ stage[w] = "integrity" /\ stage'[w] = "done"
            /\ reply'[w] = [reply[w] EXCEPT !.certificate = says]
        BY <3>3, Becoming, StageNames DEF OverviewIntegrity
      <4>2. DOMAIN reply[w] = {"active", "revoked", "members", "configured", "certificate"}
        BY <4>1, <3>0, <2>2 DEF OverviewAt
      <4>3. reply'[w].configured = reply[w].configured /\ reply'[w].certificate = says
            /\ DOMAIN reply'[w] = DOMAIN reply[w]
        BY <4>1, <4>2
      <4>4. reply[w].configured => says # "not_configured"
        BY <4>1, <3>0, <2>2 DEF OverviewAt
      <4> QED
        BY <4>1, <4>2, <4>3, <4>4, <3>0 DEF OverviewAt, Ended
    <3>4. CASE stage'[w] \in {"failed", "refused"}
      BY <3>4 DEF OverviewAt, Ended
    <3> QED
      BY <1>3, <2>2, <3>0, <3>1, <3>2, <3>3, <3>4, OverviewMoves
  <2> QED
    BY <2>0, <2>1, <2>2 DEF OverviewInv, OverviewAt, Moved
<1> QED
  BY <1>1, <1>2, <1>3 DEF Next

\* An overview that shows the webhook secret as configured never says beside it
\* that no endpoint was generated.
THEOREM OverviewHolds == Spec => []OverviewConsistent
<1>1. Init => OverviewInv
  BY DEF Init, OverviewInv, OverviewAt
<1>2. Moving /\ OverviewInv /\ [Next]_vars => OverviewInv'
  BY OverviewInduction
<1>3. OverviewInv => OverviewConsistent
  BY DEF OverviewInv, OverviewAt, OverviewConsistent
<1> QED
  BY <1>1, <1>2, <1>3, MovingHolds, PTL DEF Spec

-----------------------------------------------------------------------------
(* The health of business systems.                                         *)

\* What a test of a connection has read stays in step with the row: it is of the
\* row as it is, and then says whether that is connected, or of an earlier one.
InStep(w) ==
    stage[w] = "health" =>
        /\ job[w].id \in DOMAIN systems /\ held[w].ok \in BOOLEAN /\ held[w].stamp \in Nat
        /\ held[w].stamp <= systems[job[w].id].stamp
        /\ held[w].stamp = systems[job[w].id].stamp => (held[w].ok <=> systems[job[w].id].status = "connected")

HealthInv ==
    /\ \A s \in DOMAIN systems : SystemRow(s, systems[s])
    /\ HealthBehindOneTest
    /\ \A w \in Requests : InStep(w)

\* Three handlers write the systems, and only a test comes to write their health.
LEMMA SystemsKept ==
    ASSUME Moving, NEW w \in Requests, Handle(w), ~ConnectSystem(w), ~WriteHealth(w), ~DisconnectSystem(w)
    PROVE  systems' = systems /\ (stage'[w] = "health" => TestSystem(w))
<1> USE DEF tables, credentials, connections, definitions, settings
<1>1. CASE Refuse(w) \/ Fail(w) \/ Unlisted(w) \/ Generate(w)
  BY <1>1, Becoming, StageNames DEF Refuse, Fail, Unlisted, Generate, Move
<1>2. CASE Announce(w)
  BY <1>2, Becoming, StageNames DEF Announce
<1>3. CASE Look(w) \/ GetPreferences(w) \/ ListVersions(w)
  BY <1>3, Becoming, StageNames DEF Look, GetPreferences, ListVersions, Answer
<1>4. CASE TestEndpoint(w)
  BY <1>4, Becoming, StageNames DEF TestEndpoint, Move, Answer
<1>5. CASE CreateKey(w)
  BY <1>5, Becoming, StageNames DEF CreateKey, Publishing
<1>6. CASE RevokeKey(w)
  BY <1>6, Becoming, StageNames DEF RevokeKey, Publishing
<1>7. CASE OverviewKeys(w) \/ OverviewEndpoint(w) \/ OverviewIntegrity(w)
  BY <1>7, Becoming, StageNames DEF OverviewKeys, OverviewEndpoint, OverviewIntegrity, AfterPart
<1>8. CASE ConnectProvider(w) \/ SaveMapping(w) \/ SaveSchema(w) \/ Toggle(w)
  BY <1>8, Becoming, StageNames DEF ConnectProvider, SaveMapping, SaveSchema, Toggle, Publishing
<1>9. CASE TestProvider(w)
  <2>1. UNCHANGED <<tables, epoch, events>>
    BY <1>9 DEF TestProvider
  <2>2. Move(w, "refused") \/ \E answer : Answer(w, answer)
    BY <1>9 DEF TestProvider
  <2>3. stage'[w] # "health"
    BY <2>2, Becoming, StageNames DEF Move, Answer
  <2> QED
    BY <2>1, <2>3
<1>10. CASE DisconnectProvider(w)
  BY <1>10, Becoming, StageNames DEF DisconnectProvider, Move, Publishing
<1>11. CASE InsertEndpoint(w) \/ Rotate(w)
  BY <1>11, Becoming, StageNames DEF InsertEndpoint, Rotate, Move, Hold
<1>12. CASE TestSystem(w)
  BY <1>12 DEF TestSystem
<1>13. CASE DeleteMapping(w) \/ DeleteSchema(w) \/ ValidateEvent(w) \/ FindVersions(w)
  BY <1>13, Becoming, StageNames DEF DeleteMapping, DeleteSchema, ValidateEvent, FindVersions, Move, Answer, Hold
<1>14. CASE Preview(w)
  <2>1. Move(w, "refused") \/ \E answer : Answer(w, answer)
    BY <1>14 DEF Preview
  <2>2. stage'[w] # "health"
    BY <2>1, Becoming, StageNames DEF Move, Answer
  <2> QED
    BY <1>14, <2>2 DEF Preview
<1>15. CASE MarkRead(w) \/ SetPreferences(w)
  BY <1>15, Becoming, StageNames DEF MarkRead, SetPreferences, Move, Answer
<1> QED
  BY <1>1, <1>2, <1>3, <1>4, <1>5, <1>6, <1>7, <1>8, <1>9, <1>10, <1>11, <1>12, <1>13, <1>14, <1>15 DEF Handle

\* HealthInv survives a step that writes one row and leaves its stamp where it is
\* or takes it further, if the row it writes is in order.
LEMMA RowWritten ==
    ASSUME Moving, HealthInv, NEW w \in Requests, Moved(w), NEW s, NEW row,
           systems' = With(systems, s, row), SystemRow(s, row), stage'[w] # "health",
           row.seen \in {Null, row.stamp} => (row.health = "healthy" <=> row.status = "connected"),
           s \in DOMAIN systems => \/ row.stamp > systems[s].stamp
                                   \/ row.stamp = systems[s].stamp /\ row.status = systems[s].status
    PROVE  HealthInv'
<1>1. /\ DOMAIN systems' = DOMAIN systems \cup {s} /\ systems'[s] = row
      /\ \A t \in DOMAIN systems \ {s} : systems'[t] = systems[t]
  BY DEF With
<1>2. \A t \in DOMAIN systems' : SystemRow(t, systems'[t])
  BY <1>1 DEF HealthInv
<1>3. HealthBehindOneTest'
  BY <1>1 DEF HealthInv, HealthBehindOneTest
<1>4. ASSUME NEW x \in Requests PROVE InStep(x)'
  <2>1. CASE x = w
    BY <2>1 DEF InStep
  <2>2. CASE x # w
    <3>1. stage'[x] = stage[x] /\ held'[x] = held[x] /\ job' = job
      BY <2>2 DEF Moved
    <3>2. SUFFICES ASSUME stage[x] = "health" PROVE InStep(x)'
      BY <3>1 DEF InStep
    <3> DEFINE id == job[x].id
               test == held[x]
    <3>3. /\ id \in DOMAIN systems /\ test.ok \in BOOLEAN /\ test.stamp \in Nat
          /\ test.stamp <= systems[id].stamp
          /\ test.stamp = systems[id].stamp => (test.ok <=> systems[id].status = "connected")
      BY <3>2 DEF HealthInv, InStep
    <3>4. SystemRow(id, systems[id])
      BY <3>3 DEF HealthInv
    <3>5. systems[id].stamp \in Nat /\ row.stamp \in Nat
      BY <3>4 DEF SystemRow
    <3>6. /\ id \in DOMAIN systems' /\ test.stamp <= systems'[id].stamp
          /\ test.stamp = systems'[id].stamp => (test.ok <=> systems'[id].status = "connected")
      <4>1. CASE id = s
        <5> HIDE DEF id, test
        <5>1. systems'[id] = row /\ id \in DOMAIN systems'
          BY <1>1, <4>1
        <5>2. CASE row.stamp > systems[id].stamp
          BY <3>3, <3>5, <5>1, <5>2
        <5>3. CASE row.stamp = systems[id].stamp /\ row.status = systems[id].status
          BY <3>3, <3>5, <5>1, <5>3
        <5> QED
          BY <3>3, <4>1, <5>2, <5>3
      <4>2. CASE id # s
        <5> HIDE DEF id, test
        <5>1. systems'[id] = systems[id] /\ id \in DOMAIN systems'
          BY <1>1, <3>3, <4>2
        <5> QED
          BY <3>3, <5>1
      <4> QED
        BY <4>1, <4>2
    <3> QED
      BY <3>1, <3>3, <3>6 DEF InStep
  <2> QED
    BY <2>1, <2>2
<1> QED
  BY <1>2, <1>3, <1>4 DEF HealthInv

\* Health is inductive, given where requests stand.
LEMMA HealthInduction ==
    ASSUME Moving, HealthInv, [Next]_vars
    PROVE  HealthInv'
<1>1. CASE UNCHANGED vars
  BY <1>1 DEF HealthInv, HealthBehindOneTest, InStep, vars, tables, connections, progress
<1>2. CASE Restart
  BY <1>2 DEF Restart, HealthInv, HealthBehindOneTest, InStep, Ended, tables, connections, Moving
<1>3. ASSUME NEW w \in Requests, Handle(w) PROVE HealthInv'
  <2>0. Moved(w)
    BY <1>3, Moves
  <2>1. CASE ConnectSystem(w)
    <3> DEFINE s == job[w].name
               row == [status |-> "connected", health |-> HealthOnConnect(s),
                       creds  |-> job[w].filled \cup job[w].blank, seen |-> Null,
                       stamp  |-> IF s \in DOMAIN systems THEN systems[s].stamp + 1 ELSE 0]
    <3>1. systems' = With(systems, s, row) /\ stage'[w] # "health"
      BY <2>1, Becoming, StageNames DEF ConnectSystem, Publishing
    <3>2. s \in DOMAIN Integrations /\ Integrations[s].fields \subseteq job[w].filled
      BY <2>1 DEF ConnectSystem, On, Refused, Malformed, Unfilled
    <3>3. row.stamp \in Nat /\ (s \in DOMAIN systems => row.stamp > systems[s].stamp)
      BY DEF HealthInv, SystemRow
    <3>4. SystemRow(s, row)
      BY <3>2, <3>3 DEF SystemRow, HealthOnConnect
    <3>5. row.health = "healthy" /\ row.status = "connected"
      BY DEF HealthOnConnect
    <3> HIDE DEF s, row
    <3> QED
      BY <2>0, <3>1, <3>3, <3>4, <3>5, RowWritten
  <2>2. CASE DisconnectSystem(w) /\ job[w].id \in DOMAIN systems
    <3> DEFINE s == job[w].id
               row == [status |-> "disconnected", health |-> "unknown", creds |-> {}, seen |-> Null,
                       stamp |-> systems[s].stamp + 1]
    <3>1. systems' = With(systems, s, row) /\ stage'[w] # "health"
      <4>1. systems' = [systems EXCEPT ![s] = row] /\ s \in DOMAIN systems
        BY <2>2 DEF DisconnectSystem
      <4>2. systems' = With(systems, s, row)
        BY <4>1, Zenon DEF With
      <4>3. stage'[w] # "health"
        BY <2>2, Becoming, StageNames DEF DisconnectSystem, Publishing
      <4> QED
        BY <4>2, <4>3
    <3>2. s \in DOMAIN Integrations /\ systems[s].stamp \in Nat
      BY <2>2 DEF HealthInv, SystemRow
    <3>3. SystemRow(s, row) /\ row.stamp > systems[s].stamp
      BY <3>2 DEF SystemRow
    <3>4. row.health = "unknown" /\ row.status = "disconnected"
      OBVIOUS
    <3> HIDE DEF s, row
    <3> QED
      BY <2>0, <3>1, <3>3, <3>4, RowWritten
  <2>3. CASE WriteHealth(w)
    <3> DEFINE s == job[w].id
               old == systems[s]
               row == Tested(old, held[w])
    <3>1. systems' = With(systems, s, row) /\ stage'[w] # "health" /\ stage[w] = "health"
      BY <2>3, Becoming, StageNames DEF WriteHealth, Answer
    <3>2. /\ s \in DOMAIN systems /\ held[w].ok \in BOOLEAN /\ held[w].stamp \in Nat
          /\ held[w].stamp = old.stamp => (held[w].ok <=> old.status = "connected")
      BY <3>1 DEF HealthInv, InStep
    <3>3. SystemRow(s, old)
      BY <3>2 DEF HealthInv
    <3> HIDE DEF s, old
    <3>4. /\ DOMAIN row = DOMAIN old /\ row.status = old.status /\ row.creds = old.creds
          /\ row.stamp = old.stamp /\ row.seen = held[w].stamp
          /\ row.health = IF held[w].ok THEN "healthy" ELSE "unhealthy"
      BY <3>3 DEF Tested, SystemRow
    <3> HIDE DEF row
    <3>5. SystemRow(s, row)
      BY <3>2, <3>3, <3>4 DEF SystemRow
    <3>6. row.seen # Null
      BY <3>2, <3>4, RequestsAssumption
    <3>7. row.seen \in {Null, row.stamp} => (row.health = "healthy" <=> row.status = "connected")
      BY <3>2, <3>4, <3>6
    <3>8. row.stamp = systems[s].stamp /\ row.status = systems[s].status
      BY <3>4 DEF old
    <3> QED
      BY <2>0, <3>1, <3>5, <3>7, <3>8, RowWritten
  <2>4. CASE TestSystem(w)
    <3>1. systems' = systems
      BY <2>4 DEF TestSystem, tables, connections
    <3>2. InStep(w)'
      <4>1. CASE job[w].id # Null /\ job[w].id \in DOMAIN systems
        <5> DEFINE s == job[w].id
        <5>1. /\ held'[w] = [ok |-> Integrations[s].fields \subseteq systems[s].creds, stamp |-> systems[s].stamp]
              /\ job' = job
          BY <2>4, <4>1, Becoming, StageNames DEF TestSystem, Hold
        <5>2. SystemRow(s, systems[s])
          BY <4>1 DEF HealthInv
        <5>3. Integrations[s].fields \subseteq systems[s].creds <=> systems[s].status = "connected"
          BY <5>2, CatalogAssumption DEF SystemRow
        <5>4. /\ held'[w].ok = (Integrations[s].fields \subseteq systems[s].creds)
              /\ held'[w].stamp = systems[s].stamp /\ systems[s].stamp \in Nat
          BY <5>1, <5>2 DEF SystemRow
        <5>5. held'[w].stamp \in Nat /\ held'[w].stamp <= systems[s].stamp
          BY <5>4
        <5>6. held'[w].ok \in BOOLEAN /\ (held'[w].ok <=> systems[s].status = "connected")
          <6> HIDE DEF s
          <6> QED
            BY <5>3, <5>4, Zenon
        <5> QED
          BY <3>1, <4>1, <5>1, <5>5, <5>6 DEF InStep
      <4>2. CASE ~(job[w].id # Null /\ job[w].id \in DOMAIN systems)
        <5>1. Move(w, "refused") \/ \E answer : Answer(w, answer)
          BY <2>4, <4>2 DEF TestSystem
        <5>2. stage'[w] # "health"
          BY <5>1, Becoming, StageNames DEF Move, Answer
        <5> QED
          BY <5>2 DEF InStep
      <4> QED
        BY <4>1, <4>2
    <3>3. ASSUME NEW x \in Requests \ {w} PROVE InStep(x)'
      BY <3>1, <2>0 DEF Moved, HealthInv, InStep
    <3> QED
      BY <3>1, <3>2, <3>3 DEF HealthInv, HealthBehindOneTest
  <2>5. CASE ~ConnectSystem(w) /\ ~WriteHealth(w) /\ ~TestSystem(w)
             /\ ~(DisconnectSystem(w) /\ job[w].id \in DOMAIN systems)
    <3>1. systems' = systems /\ stage'[w] # "health"
      <4>1. CASE DisconnectSystem(w)
        BY <4>1, <2>5, Becoming, StageNames DEF DisconnectSystem, Move
      <4>2. CASE ~DisconnectSystem(w)
        BY <1>3, <4>2, <2>5, SystemsKept
      <4> QED
        BY <4>1, <4>2
    <3>2. \A x \in Requests : InStep(x)'
      BY <3>1, <2>0 DEF Moved, HealthInv, InStep
    <3> QED
      BY <3>1, <3>2 DEF HealthInv, HealthBehindOneTest
  <2> QED
    BY <2>1, <2>2, <2>3, <2>4, <2>5
<1> QED
  BY <1>1, <1>2, <1>3 DEF Next

\* The tables that a company begins with are in order.
LEMMA HealthStarts == Init => HealthInv
<1> SUFFICES ASSUME Init PROVE HealthInv
  OBVIOUS
<1>1. PICK tabs \in Begun : systems = tabs.systems
  BY DEF Init
<1>2. \A s \in DOMAIN systems : /\ SystemRow(s, systems[s])
                                /\ systems[s].health = "healthy" <=> systems[s].status = "connected"
  BY <1>1, BegunAssumption
<1> QED
  BY <1>2, StageNames DEF Init, HealthInv, HealthBehindOneTest, InStep

\* A connected business system is healthy and a disconnected one is not, unless its
\* health was written by a test that had read the row before it was last changed.
THEOREM HealthHolds == Spec => []HealthBehindOneTest
<1>1. Init => HealthInv
  BY HealthStarts
<1>2. Moving /\ HealthInv /\ [Next]_vars => HealthInv'
  BY HealthInduction
<1>3. HealthInv => HealthBehindOneTest
  BY DEF HealthInv
<1> QED
  BY <1>1, <1>2, <1>3, MovingHolds, PTL DEF Spec

-----------------------------------------------------------------------------
(* The versions of event schemas.                                          *)

\* The snapshots of the schema in force under a name.
KeptOf(n) == {s \in snapshots : s.name = n /\ s.id = schemas[n].id}

\* A snapshot has the id of a request that has begun, or an earlier one's.
VersionsInv ==
    /\ \A n \in DOMAIN schemas : VersionsOf(schemas[n], KeptOf(n))
    /\ \A s \in snapshots : s.id \in Requests => stage[s.id] # "todo"

\* Two handlers write the schemas, and only a save writes versions.
LEMMA SchemasKept ==
    ASSUME Moving, NEW w \in Requests, Handle(w), ~SaveSchema(w), ~DeleteSchema(w)
    PROVE  schemas' = schemas /\ snapshots' = snapshots
<1> USE DEF tables, credentials, connections, definitions, settings
<1>1. CASE Refuse(w) \/ Announce(w) \/ Fail(w) \/ Look(w) \/ Unlisted(w) \/ Generate(w)
  BY <1>1 DEF Refuse, Announce, Fail, Look, Unlisted, Generate
<1>2. CASE InsertEndpoint(w) \/ CreateKey(w) \/ RevokeKey(w) \/ Rotate(w) \/ TestEndpoint(w)
  BY <1>2 DEF InsertEndpoint, CreateKey, RevokeKey, Rotate, TestEndpoint
<1>3. CASE OverviewKeys(w) \/ OverviewEndpoint(w) \/ OverviewIntegrity(w)
  BY <1>3 DEF OverviewKeys, OverviewEndpoint, OverviewIntegrity
<1>4. CASE ConnectProvider(w) \/ TestProvider(w) \/ DisconnectProvider(w)
  BY <1>4 DEF ConnectProvider, TestProvider, DisconnectProvider
<1>5. CASE ConnectSystem(w) \/ TestSystem(w) \/ WriteHealth(w) \/ DisconnectSystem(w)
  BY <1>5 DEF ConnectSystem, TestSystem, WriteHealth, DisconnectSystem
<1>6. CASE SaveMapping(w) \/ DeleteMapping(w) \/ Preview(w)
  BY <1>6 DEF SaveMapping, DeleteMapping, Preview
<1>7. CASE ValidateEvent(w) \/ FindVersions(w) \/ ListVersions(w)
  BY <1>7 DEF ValidateEvent, FindVersions, ListVersions
<1>8. CASE Toggle(w) \/ MarkRead(w) \/ SetPreferences(w) \/ GetPreferences(w)
  BY <1>8 DEF Toggle, MarkRead, SetPreferences, GetPreferences
<1> QED
  BY <1>1, <1>2, <1>3, <1>4, <1>5, <1>6, <1>7, <1>8 DEF Handle

\* A first version is a schema's only one.
LEMMA FirstVersion ==
    ASSUME NEW id, NEW schema, NEW n
    PROVE  VersionsOf([id |-> id, version |-> 1, schema |-> schema],
                      {[name |-> n, version |-> 1, id |-> id, schema |-> schema]})
BY DEF VersionsOf

\* A next version is one more.
LEMMA NextVersion ==
    ASSUME NEW row, NEW kept, VersionsOf(row, kept), NEW schema,
           NEW next, next = [row EXCEPT !.version = @ + 1, !.schema = schema],
           NEW snap, snap.version = next.version, snap.schema = schema
    PROVE  VersionsOf(next, kept \cup {snap})
<1>1. /\ DOMAIN next = {"id", "version", "schema"} /\ next.id = row.id
      /\ next.version = row.version + 1 /\ next.schema = schema
  BY DEF VersionsOf
<1>2. snap.version = row.version + 1 /\ snap.schema = schema
  BY <1>1
<1>3. row.version \in Nat \ {0} /\ \A s \in kept : s.version \in 1 .. row.version
  BY DEF VersionsOf
<1>4. {s.version : s \in kept \cup {snap}} = 1 .. next.version
  <2>1. {s.version : s \in kept \cup {snap}} = {s.version : s \in kept} \cup {snap.version}
    OBVIOUS
  <2>2. {s.version : s \in kept} = 1 .. row.version
    BY DEF VersionsOf
  <2> QED
    BY <1>1, <1>2, <1>3, <2>1, <2>2
<1>5. \A s, t \in kept \cup {snap} : s.version = t.version => s = t
  <2>1. \A s \in kept : s.version # snap.version
    BY <1>2, <1>3
  <2> QED
    BY <2>1 DEF VersionsOf
<1> QED
  BY <1>1, <1>2, <1>3, <1>4, <1>5 DEF VersionsOf

\* The versions are inductive, given where requests stand.
LEMMA VersionsInduction ==
    ASSUME Moving, VersionsInv, [Next]_vars
    PROVE  VersionsInv'
<1>1. CASE UNCHANGED vars
  BY <1>1 DEF VersionsInv, KeptOf, vars, tables, definitions, progress
<1>2. CASE Restart
  <2>1. UNCHANGED <<schemas, snapshots>>
    BY <1>2 DEF Restart, tables, definitions
  <2>2. \A x \in Requests : stage[x] # "todo" => stage'[x] # "todo"
    BY <1>2 DEF Restart
  <2> QED
    BY <2>1, <2>2 DEF VersionsInv, KeptOf
<1>3. ASSUME NEW w \in Requests, Handle(w) PROVE VersionsInv'
  <2>0. \A x \in Requests : stage[x] # "todo" \/ x = w => stage'[x] # "todo"
    BY <1>3, Moves DEF Moved
  <2>1. CASE SaveSchema(w)
    <3>0. PICK n : n = job[w].schema.name
      OBVIOUS
    <3> DEFINE row == SchemaRow(w)
               snap == [name |-> n, version |-> row.version, id |-> row.id, schema |-> row.schema]
               kept == {s \in snapshots : s.name = n /\ s.id = row.id}
    <3>1. schemas' = With(schemas, n, row) /\ snapshots' = snapshots \cup {snap} /\ stage[w] = "todo"
      BY <2>1, <3>0 DEF SaveSchema, On
    <3>2. /\ VersionsOf(row, kept \cup {snap})
          /\ row.id = w \/ \E s \in snapshots : s.id = row.id
      <4>1. CASE n \in DOMAIN schemas
        <5>1. row = [schemas[n] EXCEPT !.version = @ + 1, !.schema = job[w].schema]
          BY <3>0, <4>1 DEF SchemaRow
        <5>2. VersionsOf(schemas[n], KeptOf(n))
          BY <4>1 DEF VersionsInv
        <5>3. /\ row.id = schemas[n].id /\ row.schema = job[w].schema
          BY <5>1, <5>2 DEF VersionsOf
        <5>4. kept = KeptOf(n)
          BY <5>3 DEF KeptOf
        <5>5. \E s \in KeptOf(n) : TRUE
          BY <5>2 DEF VersionsOf
        <5>6. snap.version = row.version /\ snap.schema = job[w].schema
          BY <5>3
        <5> HIDE DEF row, snap, kept
        <5>7. VersionsOf(row, KeptOf(n) \cup {snap})
          BY <5>1, <5>2, <5>6, NextVersion
        <5>8. \E s \in snapshots : s.id = row.id
          BY <5>3, <5>5 DEF KeptOf
        <5> QED
          BY <5>4, <5>7, <5>8
      <4>2. CASE n \notin DOMAIN schemas
        <5>1. row = [id |-> w, version |-> 1, schema |-> job[w].schema]
          BY <3>0, <4>2 DEF SchemaRow
        <5>2. kept = {}
          BY <3>1, <5>1 DEF VersionsInv
        <5>3. snap = [name |-> n, version |-> 1, id |-> w, schema |-> job[w].schema]
          BY <5>1
        <5> HIDE DEF snap, row
        <5>4. VersionsOf(row, {snap})
          BY <5>1, <5>3, FirstVersion
        <5> QED
          BY <5>1, <5>2, <5>4
      <4> QED
        BY <4>1, <4>2
    <3>3. snap.name = n /\ snap.id = row.id
      OBVIOUS
    <3> HIDE DEF row, snap
    <3>4. /\ DOMAIN schemas' = DOMAIN schemas \cup {n} /\ schemas'[n] = row
          /\ \A m \in DOMAIN schemas \ {n} : schemas'[m] = schemas[m]
      BY <3>1 DEF With
    <3>5. KeptOf(n)' = kept \cup {snap}
      BY <3>1, <3>3, <3>4 DEF KeptOf
    <3>6. \A m \in DOMAIN schemas \ {n} : KeptOf(m)' = KeptOf(m)
      BY <3>1, <3>3, <3>4 DEF KeptOf
    <3>7. \A m \in DOMAIN schemas' : VersionsOf(schemas'[m], KeptOf(m)')
      <4> HIDE DEF kept
      <4> QED
        BY <3>2, <3>4, <3>5, <3>6 DEF VersionsInv
    <3>8. \A s \in snapshots' : s.id \in Requests => stage'[s.id] # "todo"
      BY <2>0, <3>1, <3>2, <3>3 DEF VersionsInv
    <3> QED
      BY <3>7, <3>8 DEF VersionsInv
  <2>2. CASE DeleteSchema(w)
    <3>1. /\ DOMAIN schemas' \subseteq DOMAIN schemas /\ \A n \in DOMAIN schemas' : schemas'[n] = schemas[n]
          /\ snapshots' = snapshots
      BY <2>2 DEF DeleteSchema, Without
    <3>2. \A n \in DOMAIN schemas' : KeptOf(n)' = KeptOf(n)
      BY <3>1 DEF KeptOf
    <3> QED
      BY <2>0, <3>1, <3>2 DEF VersionsInv
  <2>3. CASE ~SaveSchema(w) /\ ~DeleteSchema(w)
    <3>1. schemas' = schemas /\ snapshots' = snapshots
      BY <1>3, <2>3, SchemasKept
    <3> QED
      BY <2>0, <3>1 DEF VersionsInv, KeptOf
  <2> QED
    BY <2>1, <2>2, <2>3
<1> QED
  BY <1>1, <1>2, <1>3 DEF Next

\* Of the schema in force under a name there is one snapshot of every version up to
\* its own, and the last is what is in force.
THEOREM VersionsHold == Spec => []VersionsKept
<1>1. Init => VersionsInv
  <2> SUFFICES ASSUME Init PROVE VersionsInv
    OBVIOUS
  <2>1. PICK tabs \in Begun : schemas = tabs.schemas /\ snapshots = tabs.snapshots
    BY DEF Init
  <2>2. \A n \in DOMAIN schemas : VersionsOf(schemas[n], {s \in snapshots : s.name = n /\ s.id = schemas[n].id})
    BY <2>1, BegunAssumption
  <2>3. \A s \in snapshots : s.id \notin Requests
    BY <2>1, BegunAssumption
  <2> QED
    BY <2>2, <2>3 DEF VersionsInv, KeptOf
<1>2. Moving /\ VersionsInv /\ [Next]_vars => VersionsInv'
  BY VersionsInduction
<1>3. VersionsInv => VersionsKept
  BY DEF VersionsInv, VersionsKept, KeptOf
<1> QED
  BY <1>1, <1>2, <1>3, MovingHolds, PTL DEF Spec

-----------------------------------------------------------------------------
(* Types.                                                                  *)

\* What the tables other than the systems hold.
TypeInv ==
    /\ endpoint # Null => endpoint \in [by : Requests \cup {"before"}, epoch : 0 .. MaxRestarts]
    /\ \A k \in DOMAIN keys : keys[k] \in BOOLEAN
    /\ \A p \in DOMAIN links : links[p].status \in {"connected", "disconnected"}
    /\ preferences = Null \/ preferences \in [severity : {"info", "warning", "critical"}, daily : BOOLEAN]
    /\ apps \subseteq DOMAIN Apps /\ unread \subseteq Alerts /\ epoch \in 0 .. MaxRestarts

\* The tables that five handlers write between them.
otherTables == <<links, preferences, apps, unread>>

\* Most handlers leave these tables alone.
LEMMA TablesKept ==
    ASSUME NEW w \in Requests, Handle(w), ~ConnectProvider(w), ~DisconnectProvider(w), ~Toggle(w),
           ~MarkRead(w), ~SetPreferences(w)
    PROVE  UNCHANGED otherTables
<1> USE DEF tables, credentials, connections, definitions, settings, otherTables
<1>1. CASE Refuse(w) \/ Announce(w) \/ Fail(w) \/ Look(w) \/ Unlisted(w) \/ Generate(w)
  BY <1>1 DEF Refuse, Announce, Fail, Look, Unlisted, Generate
<1>2. CASE InsertEndpoint(w) \/ CreateKey(w) \/ RevokeKey(w) \/ Rotate(w) \/ TestEndpoint(w)
  BY <1>2 DEF InsertEndpoint, CreateKey, RevokeKey, Rotate, TestEndpoint
<1>3. CASE OverviewKeys(w) \/ OverviewEndpoint(w) \/ OverviewIntegrity(w)
  BY <1>3 DEF OverviewKeys, OverviewEndpoint, OverviewIntegrity
<1>4. CASE TestProvider(w)
  BY <1>4 DEF TestProvider
<1>5. CASE ConnectSystem(w) \/ TestSystem(w) \/ WriteHealth(w) \/ DisconnectSystem(w)
  BY <1>5 DEF ConnectSystem, TestSystem, WriteHealth, DisconnectSystem
<1>6. CASE SaveMapping(w) \/ DeleteMapping(w) \/ Preview(w)
  BY <1>6 DEF SaveMapping, DeleteMapping, Preview
<1>7. CASE SaveSchema(w) \/ DeleteSchema(w) \/ ValidateEvent(w) \/ FindVersions(w) \/ ListVersions(w)
  BY <1>7 DEF SaveSchema, DeleteSchema, ValidateEvent, FindVersions, ListVersions
<1>8. CASE GetPreferences(w)
  BY <1>8 DEF GetPreferences
<1> QED
  BY <1>1, <1>2, <1>3, <1>4, <1>5, <1>6, <1>7, <1>8 DEF Handle

\* Two handlers write the API keys.
LEMMA KeysKept ==
    ASSUME NEW w \in Requests, Handle(w), ~CreateKey(w), ~RevokeKey(w)
    PROVE  keys' = keys
<1> USE DEF tables, credentials, connections, definitions, settings
<1>1. CASE Refuse(w) \/ Announce(w) \/ Fail(w) \/ Look(w) \/ Unlisted(w) \/ Generate(w)
  BY <1>1 DEF Refuse, Announce, Fail, Look, Unlisted, Generate
<1>2. CASE InsertEndpoint(w) \/ Rotate(w) \/ TestEndpoint(w)
  BY <1>2 DEF InsertEndpoint, Rotate, TestEndpoint
<1>3. CASE OverviewKeys(w) \/ OverviewEndpoint(w) \/ OverviewIntegrity(w)
  BY <1>3 DEF OverviewKeys, OverviewEndpoint, OverviewIntegrity
<1>4. CASE ConnectProvider(w) \/ TestProvider(w) \/ DisconnectProvider(w)
  BY <1>4 DEF ConnectProvider, TestProvider, DisconnectProvider
<1>5. CASE ConnectSystem(w) \/ TestSystem(w) \/ WriteHealth(w) \/ DisconnectSystem(w)
  BY <1>5 DEF ConnectSystem, TestSystem, WriteHealth, DisconnectSystem
<1>6. CASE SaveMapping(w) \/ DeleteMapping(w) \/ Preview(w)
  BY <1>6 DEF SaveMapping, DeleteMapping, Preview
<1>7. CASE SaveSchema(w) \/ DeleteSchema(w) \/ ValidateEvent(w) \/ FindVersions(w) \/ ListVersions(w)
  BY <1>7 DEF SaveSchema, DeleteSchema, ValidateEvent, FindVersions, ListVersions
<1>8. CASE Toggle(w) \/ MarkRead(w) \/ SetPreferences(w) \/ GetPreferences(w)
  BY <1>8 DEF Toggle, MarkRead, SetPreferences, GetPreferences
<1> QED
  BY <1>1, <1>2, <1>3, <1>4, <1>5, <1>6, <1>7, <1>8 DEF Handle

\* What the INSERT and the rotation store is a secret of the running Kernel's key.
LEMMA EndpointTyped ==
    ASSUME Moving, TypeInv, NEW w \in Requests, Handle(w)
    PROVE  endpoint' # Null => endpoint' \in [by : Requests \cup {"before"}, epoch : 0 .. MaxRestarts]
<1>1. endpoint' = endpoint \/ endpoint' = NewSecret(w)
  <2>1. CASE InsertEndpoint(w)
    BY <2>1 DEF InsertEndpoint
  <2>2. CASE Rotate(w)
    BY <2>2 DEF Rotate
  <2> QED
    BY <2>1, <2>2, EndpointKept
<1> QED
  BY <1>1 DEF TypeInv, NewSecret

\* A key is revoked or it is not.
LEMMA KeysTyped ==
    ASSUME TypeInv, NEW w \in Requests, Handle(w)
    PROVE  \A k \in DOMAIN keys' : keys'[k] \in BOOLEAN
<1>1. CASE CreateKey(w)
  <2>1. keys' = With(keys, w, FALSE)
    BY <1>1 DEF CreateKey
  <2> QED
    BY <2>1 DEF With, TypeInv
<1>2. CASE RevokeKey(w)
  <2>1. keys' = [k \in DOMAIN keys |-> keys[k] \/ k = job[w].id]
    BY <1>2 DEF RevokeKey
  <2>2. \A k \in DOMAIN keys : (keys[k] \/ k = job[w].id) \in BOOLEAN
    OBVIOUS
  <2> QED
    BY <2>1, <2>2, Zenon
<1>3. CASE ~CreateKey(w) /\ ~RevokeKey(w)
  BY <1>3, KeysKept DEF TypeInv
<1> QED
  BY <1>1, <1>2, <1>3

\* What is written to the other tables has passed its handler's checks.
LEMMA SettingsTyped ==
    ASSUME Moving, TypeInv, NEW w \in Requests, Handle(w)
    PROVE  /\ \A p \in DOMAIN links' : links'[p].status \in {"connected", "disconnected"}
           /\ \/ preferences' = Null
              \/ preferences' \in [severity : {"info", "warning", "critical"}, daily : BOOLEAN]
           /\ apps' \subseteq DOMAIN Apps /\ unread' \subseteq Alerts
<1> USE DEF credentials, definitions
<1>1. CASE ConnectProvider(w)
  BY <1>1 DEF ConnectProvider, With, TypeInv, settings
<1>2. CASE DisconnectProvider(w)
  BY <1>2 DEF DisconnectProvider, TypeInv, settings
<1>3. CASE Toggle(w)
  <2>1. job[w].app \in DOMAIN Apps
    BY <1>3 DEF Toggle, On, Refused, Malformed, UnknownApp
  <2> QED
    BY <1>3, <2>1 DEF Toggle, TypeInv, connections
<1>4. CASE MarkRead(w)
  BY <1>4 DEF MarkRead, TypeInv, connections
<1>5. CASE SetPreferences(w)
  <2>1. job[w] \in Jobs /\ job[w].kind = "intelligence_preferences.create" /\ ~Malformed(job[w])
    BY <1>5 DEF SetPreferences, On, Refused, Moving
  <2>2. job[w].daily \in BOOLEAN
    BY <2>1, PreferencesAssumption
  <2>3. job[w].severity \in {"info", "warning", "critical"}
    BY <2>1 DEF Malformed
  <2>4. preferences' \in [severity : {"info", "warning", "critical"}, daily : BOOLEAN]
    <3>1. preferences' = [severity |-> job[w].severity, daily |-> job[w].daily]
      BY <1>5 DEF SetPreferences
    <3> QED
      BY <2>2, <2>3, <3>1, Zenon
  <2>5. UNCHANGED <<links, apps, unread>>
    BY <1>5 DEF SetPreferences, connections
  <2> QED
    BY <2>4, <2>5 DEF TypeInv
<1>6. CASE ~ConnectProvider(w) /\ ~DisconnectProvider(w) /\ ~Toggle(w) /\ ~MarkRead(w) /\ ~SetPreferences(w)
  BY <1>6, TablesKept DEF TypeInv, otherTables
<1> QED
  BY <1>1, <1>2, <1>3, <1>4, <1>5, <1>6

\* TypeInv is inductive.
LEMMA TypeInduction ==
    ASSUME Moving, TypeInv, [Next]_vars
    PROVE  TypeInv'
<1>1. CASE UNCHANGED vars
  BY <1>1 DEF TypeInv, vars, tables, credentials, connections, settings
<1>2. CASE Restart
  <2>1. epoch' \in 0 .. MaxRestarts
    BY <1>2, RequestsAssumption DEF Restart, TypeInv
  <2> QED
    BY <1>2, <2>1 DEF Restart, TypeInv, tables, credentials, connections, settings
<1>3. ASSUME NEW w \in Requests, Handle(w) PROVE TypeInv'
  <2>1. epoch' = epoch
    BY <1>3, Moves DEF Moved
  <2> QED
    BY <1>3, <2>1, EndpointTyped, KeysTyped, SettingsTyped DEF TypeInv
<1> QED
  BY <1>1, <1>2, <1>3 DEF Next

\* Every table holds what its columns may hold, and every request is at a stage of
\* its handler: connected systems have their credentials, only apps of the catalog
\* are installed and only preferences that were checked are stored.
THEOREM TypesHold == Spec => []TypeOK
<1>1. Init => TypeInv /\ HealthInv
  <2> SUFFICES ASSUME Init PROVE TypeInv /\ HealthInv
    OBVIOUS
  <2>1. PICK tabs \in Begun : endpoint = tabs.endpoint /\ keys = tabs.keys /\ links = tabs.links
    BY DEF Init
  <2>2. endpoint # Null => endpoint \in [by : Requests \cup {"before"}, epoch : 0 .. MaxRestarts]
    BY <2>1, BegunAssumption, RequestsAssumption
  <2>3. /\ \A k \in DOMAIN keys : keys[k] \in BOOLEAN
        /\ \A p \in DOMAIN links : links[p].status \in {"connected", "disconnected"}
    BY <2>1, BegunAssumption
  <2>4. TypeInv
    BY <2>2, <2>3, RequestsAssumption DEF Init, TypeInv
  <2> QED
    BY <2>4, HealthStarts
<1>2. Moving /\ TypeInv /\ HealthInv /\ [Next]_vars => TypeInv' /\ HealthInv'
  BY TypeInduction, HealthInduction
<1>3. Moving /\ TypeInv /\ HealthInv => TypeOK
  BY DEF Moving, TypeInv, HealthInv, TypeOK
<1> QED
  BY <1>1, <1>2, <1>3, MovingHolds, PTL DEF Spec

===============================================================================

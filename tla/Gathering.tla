------------------------------- MODULE Gathering -------------------------------
(***************************************************************************)
(* A company's connector in use.  An administrator generates a file, the   *)
(* company deploys it at a URL of its own, the wizard tests that URL (or   *)
(* the database behind it) and remembers it, and every Compile of the      *)
(* Intelligence Engine asks it for business data.                          *)
(*                                                                         *)
(* Every HTTP call and every SQL statement is awaited: what answers may be *)
(* replaced between two calls of one test or of one cycle, a call may be   *)
(* lost, and the remembered URL may change.                                *)
(***************************************************************************)
EXTENDS Connector

CONSTANTS
    Requests,    \* requests, one job each
    Jobs,        \* what a request may be asked to do
    Hosts,       \* what the company may deploy at its URL
    Remembered,  \* rows of connector_preferences the company may begin with
    Drivers,     \* the database drivers installed on the Kernel
    Server,      \* the company's database, as the Kernel reaches it; Null: it does not
    Failing,     \* requests whose SQL statements may raise
    MaxDeploys,  \* bound: deployments while requests run
    MaxLosses    \* bound: calls that are lost or time out

ASSUME GatheringAssumption == /\ Failing \subseteq Requests
                              /\ MaxDeploys \in Nat /\ MaxLosses \in Nat
                              /\ Null \notin Hosts /\ Null # "valid"

ASSUME LimitsAssumption == MaxEntities \in Nat \ {0} /\ SampleRows \in Nat /\ ReadLimit \in Nat

\* A sequence, of whatever.
IsList(s) == s \in Seq({s[i] : i \in DOMAIN s})

\* The page of a file that does not run is an error, and `_health` lists the keys
\* of a dictionary, each once.
ASSUME HostsAssumption ==
    \A host \in Hosts :
        /\ host.kind # "list" => ~Fine(host.file.page)
        /\ host.kind = "generated" =>
              /\ IsList(host.file.entities) /\ IsInjective(host.file.entities)
              /\ Range(host.file.entities) = DOMAIN host.file.map

\* None of the rows and of the JSON objects that a host sends is NULL.
ASSUME AnswersAssumption ==
    \A host \in Hosts :
        host.kind = "generated" =>
           /\ Object(TRUE, host.file.entities, <<>>) # Null /\ Object(TRUE, <<>>, <<>>) # Null
           /\ host.data # Null =>
                 \A table \in DOMAIN host.data, limit \in {SampleRows, ReadLimit} :
                    LET rows == Prefix(host.data[table], limit)
                    IN  rows # Null /\ Object(TRUE, <<>>, rows) # Null

VARIABLES
    preferences,  \* the company's row of connector_preferences, or Null
    deployed,     \* what answers at the URL
    deploys,      \* deployments so far
    losses,       \* calls lost so far
    events,       \* connector.tested and intelligence.compiled, with what they say
    req           \* what each request is doing

vars == <<preferences, deployed, deploys, losses, events, req>>

-----------------------------------------------------------------------------
(* Data.                                                                   *)

Idle == [stage |-> "idle", job |-> Null, since |-> 0, lost |-> FALSE, names |-> <<>>,
         discovered |-> FALSE, read |-> <<>>, result |-> Null]

\* _connector_preferences_save, ConnectorPreferencesStore.save: a blank URL is
\* stored as NULL; the URL itself is not looked at.
Preferences(job) == [language |-> job.language, database |-> job.database,
                     url |-> IF job.url = "blank" THEN Null ELSE job.url]

\* What the handlers refuse before they begin.
Refused(job) ==
    \/ job.kind # "compile" /\ ~job.admin
    \/ job.kind \in {"save", "generate"} /\ (job.language \notin Languages \/ job.database \notin Databases)
    \/ job.kind = "test" /\ (job.database \notin Databases \/ job.tables = <<>>)

\* test_connection: the URL if there is one, else the database itself.
FirstStage(job) ==
    CASE job.kind = "test" /\ job.url \notin {Null, "blank"} -> "health"
      [] job.kind = "test" /\ job.url \in {Null, "blank"} -> "open"
      [] job.kind = "compile" -> "preferences"
      [] OTHER -> job.kind

Init ==
    /\ preferences \in Remembered \cup {Null}
    /\ deployed \in Hosts \cup {Null}
    /\ deploys = 0 /\ losses = 0
    /\ events = {}
    /\ req = [w \in Requests |-> Idle]

Put(w, record) == req' = [req EXCEPT ![w] = record]
At(w, kind, stage) == req[w].stage = stage /\ req[w].job.kind = kind

\* A call of w: what is deployed answers, or nothing does.
Called(w, entity, limit, token, answer, lost) ==
    \/ lost = FALSE /\ answer = Serve(deployed, entity, limit, token) /\ losses' = losses
    \/ lost = TRUE /\ answer \in {Unreachable, Silent} /\ losses < MaxLosses /\ losses' = losses + 1
Answers(entity, limit, token) == {Serve(deployed, entity, limit, token), Unreachable, Silent}

-----------------------------------------------------------------------------
(* The wizard.                                                             *)

Start(w, job) ==
    /\ req[w].stage = "idle"
    /\ Put(w, [Idle EXCEPT !.stage = IF Refused(job) THEN "refused" ELSE FirstStage(job),
                           !.job = job, !.since = deploys])
    /\ UNCHANGED <<preferences, deployed, deploys, losses, events>>

\* connector.generate: nothing is stored.
Generate(w) ==
    /\ At(w, "generate", "generate")
    /\ Put(w, [req[w] EXCEPT !.stage = "done",
                             !.result = Render(req[w].job.language, req[w].job.database, req[w].job.port,
                                               req[w].job.tables, req[w].job.filename)])
    /\ UNCHANGED <<preferences, deployed, deploys, losses, events>>

\* connector_preferences.save
Save(w) ==
    /\ At(w, "save", "save")
    /\ preferences' = Preferences(req[w].job)
    /\ Put(w, [req[w] EXCEPT !.stage = "done"])
    /\ UNCHANGED <<deployed, deploys, losses, events>>

\* connector_preferences.delete
Forget(w) ==
    /\ At(w, "forget", "forget")
    /\ preferences' = Null
    /\ Put(w, [req[w] EXCEPT !.stage = "done", !.result = preferences # Null])
    /\ UNCHANGED <<deployed, deploys, losses, events>>

\* The company puts a file where its URL points.
Deploy(host) ==
    /\ deploys < MaxDeploys
    /\ host # deployed
    /\ deployed' = host
    /\ deploys' = deploys + 1
    /\ UNCHANGED <<preferences, losses, events, req>>

-----------------------------------------------------------------------------
(* Test Connection.                                                        *)

Tested(w, outcome) == Put(w, [req[w] EXCEPT !.stage = "publish", !.result = outcome])

\* The call of `_health` that comes first; a URL that is no http(s) address is
\* not called.
Health(w) ==
    /\ At(w, "test", "health")
    /\ \/ req[w].job.url = "invalid" /\ Tested(w, Outcome(FALSE, <<>>)) /\ losses' = losses
       \/ /\ req[w].job.url # "invalid"
          /\ \E lost \in BOOLEAN, answer \in Answers("_health", 5, req[w].job.token) :
                /\ Called(w, "_health", 5, req[w].job.token, answer, lost)
                /\ IF Fine(answer) THEN Put(w, [req[w] EXCEPT !.stage = "preview"])
                   ELSE Tested(w, Outcome(FALSE, <<>>))
    /\ UNCHANGED <<preferences, deployed, deploys, events>>

\* _url_table_preview of the next table.
PreviewTable(w) ==
    LET asked == Asked(req[w].job.tables)
        entry == asked[Len(req[w].read) + 1]
    IN  /\ At(w, "test", "preview")
        /\ \E lost \in BOOLEAN, answer \in Answers(entry.entity, SampleRows, req[w].job.token) :
              /\ Called(w, entry.entity, SampleRows, req[w].job.token, answer, lost)
              /\ IF Raises(answer) THEN Tested(w, Outcome(FALSE, <<>>))
                 ELSE LET previews == Append(req[w].read, PreviewOf(entry.entity, answer))
                      IN  IF Len(previews) < Len(asked) THEN Put(w, [req[w] EXCEPT !.read = previews])
                          ELSE Tested(w, Outcome(TRUE, previews))
        /\ UNCHANGED <<preferences, deployed, deploys, events>>

\* Without a URL; without a host either, there is nothing to open.
Open(w) ==
    /\ At(w, "test", "open")
    /\ Tested(w, IF req[w].job.host THEN DirectTest(req[w].job.database, Drivers, Server, req[w].job.tables)
                 ELSE Outcome(FALSE, <<>>))
    /\ UNCHANGED <<preferences, deployed, deploys, losses, events>>

\* wait_for of _OVERALL_TIMEOUT around all of it.
TimeOut(w) ==
    /\ req[w].stage \in {"health", "preview", "open"}
    /\ losses < MaxLosses
    /\ losses' = losses + 1
    /\ Tested(w, Outcome(FALSE, <<>>))
    /\ UNCHANGED <<preferences, deployed, deploys, events>>

\* The event, whatever came out; for a Compile, the event after the PDF.
Publish(w) ==
    /\ req[w].stage = "publish"
    /\ events' = events \cup {<<IF req[w].job.kind = "test" THEN "connector.tested" ELSE "intelligence.compiled",
                                w, req[w].result.connected>>}
    /\ Put(w, [req[w] EXCEPT !.stage = "done"])
    /\ UNCHANGED <<preferences, deployed, deploys, losses>>

-----------------------------------------------------------------------------
(* ConnectorIntelligence.gather, here inside a Compile.                    *)

ReadPreferences(w) ==
    /\ At(w, "compile", "preferences")
    /\ IF preferences = Null \/ (preferences # Null /\ preferences.url \in {Null, "invalid"})
       THEN Put(w, [req[w] EXCEPT !.stage = "publish",
                                     !.result = NotConnected(IF preferences = Null THEN "no url"
                                                             ELSE IF preferences.url = Null THEN "no url"
                                                             ELSE "invalid")])
       ELSE Put(w, [req[w] EXCEPT !.stage = "discover"])
    /\ UNCHANGED <<preferences, deployed, deploys, losses, events>>

\* _discover_entities; the token is not among the preferences.
Discover(w) ==
    /\ At(w, "compile", "discover")
    /\ \E lost \in BOOLEAN, answer \in Answers("_health", 5, Null) :
          /\ Called(w, "_health", 5, Null, answer, lost)
          /\ Put(w, [req[w] EXCEPT !.stage = "read", !.names = EntityNames(answer),
                                   !.discovered = Discovered(answer), !.lost = lost])
    /\ UNCHANGED <<preferences, deployed, deploys, events>>

\* _read_entity of the next name, and after the last what follows from them.
\* `body.get` of a body that is no object raises, and nothing catches it.
Read(w) ==
    LET name == req[w].names[Len(req[w].read) + 1]
    IN  /\ At(w, "compile", "read")
        /\ \E lost \in BOOLEAN, answer \in Answers(name, ReadLimit, Null) :
              /\ Called(w, name, ReadLimit, Null, answer, lost)
              /\ IF Raises(answer) THEN Put(w, [req[w] EXCEPT !.stage = "failed"])
                 ELSE LET read  == Append(req[w].read, ReadEntity(name, answer))
                          after == [req[w] EXCEPT !.read = read, !.lost = @ \/ lost]
                      IN  IF Len(read) < Len(req[w].names) THEN Put(w, after)
                          ELSE Put(w, [after EXCEPT !.stage = "publish", !.read = <<>>,
                                                    !.result = Gathered(read, req[w].discovered)])
        /\ UNCHANGED <<preferences, deployed, deploys, events>>

\* A SQL statement raises.
Fail(w) ==
    /\ w \in Failing
    /\ req[w].stage \in {"save", "forget", "preferences", "publish"}
    /\ Put(w, [req[w] EXCEPT !.stage = "failed"])
    /\ UNCHANGED <<preferences, deployed, deploys, losses, events>>

Next ==
    \/ \E w \in Requests : \/ \E job \in Jobs : Start(w, job)
                           \/ Generate(w) \/ Save(w) \/ Forget(w)
                           \/ Health(w) \/ PreviewTable(w) \/ Open(w) \/ TimeOut(w)
                           \/ ReadPreferences(w) \/ Discover(w) \/ Read(w)
                           \/ Publish(w) \/ Fail(w)
    \/ \E host \in Hosts : Deploy(host)

Spec == Init /\ [][Next]_vars

-----------------------------------------------------------------------------
(* Properties.                                                             *)

Done(w, kind) == At(w, kind, "done")

\* What Test Connection shows for a URL is what the Intelligence Engine will
\* find there: a table it could preview without a token is read by a Compile of
\* the same deployment that lost no call.  connector_tester and
\* connector_intelligence are two programs that share no code, with the
\* generated file between them, which one asks for the names the wizard has and
\* the other for the names `_health` lists.  (JavaScript and Python: the other
\* two may fail on a row beyond the sample.  No more than _MAX_ENTITIES.  And no
\* table that the wizard calls `_health`: the tester asks for it by that name,
\* gets the list of entities, and takes it for a table without rows.)
TestPredictsCycle ==
    \A t, c \in Requests :
        (/\ Done(t, "test") /\ req[t].job.url = "valid" /\ req[t].job.token = Null /\ req[t].since = deploys
         /\ Done(c, "compile") /\ req[c].names # <<>> /\ req[c].since = deploys /\ ~req[c].lost
         /\ deployed # Null /\ deployed.kind = "generated"
         /\ deployed.file.breaks = {}
         /\ Cardinality(DOMAIN deployed.file.map) <= MaxEntities)
        => LET found == req[c].result.entities
           IN  \A i \in DOMAIN req[t].result.previews :
                  LET preview == req[t].result.previews[i]
                  IN  preview.reachable /\ preview.entity # "_health" =>
                        \E k \in DOMAIN found : found[k].entity = preview.entity /\ found[k].reachable

\* What a report says about the company's data rests on rows this very cycle
\* read, though the file behind the URL may have been replaced half way: an
\* entity a finding is about gave rows, a link joins two different entities
\* that both gave rows, and what is reported missing is something that was
\* asked for in vain.
FindingsBacked ==
    \A c \in Requests :
        Done(c, "compile") =>
            LET result == req[c].result
                Full   == {result.entities[i].entity : i \in {j \in DOMAIN result.entities :
                                                                result.entities[j].rows # <<>>}}
                Lost   == {result.entities[i].entity : i \in {j \in DOMAIN result.entities :
                                                                ~result.entities[j].reachable}}
            IN  /\ \A f \in result.findings : f.about \subseteq Full
                /\ \A l \in result.relationships : {l.from, l.to} \subseteq Full /\ l.from # l.to
                /\ result.partial \cup Section(result).missing \subseteq Lost
                /\ Section(result).tables \cap Section(result).missing = {}
                /\ result.findings # {} => Summary(result) = "live"

===============================================================================

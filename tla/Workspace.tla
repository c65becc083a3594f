------------------------------- MODULE Workspace -------------------------------
(***************************************************************************)
(* One company's workspace: its endpoint and API keys, the financial       *)
(* providers and business systems it is connected to, its data mappings    *)
(* and event schemas, its marketplace apps and its notification settings.  *)
(* Each request runs one handler of the Workflow Engine.  A handler is a   *)
(* few SQL statements on connections of their own, each of them awaited,   *)
(* so that the statements of several requests interleave, and the Kernel   *)
(* may restart, with another encryption key, between any two.              *)
(*                                                                         *)
(* What a live provider records when it is connected is Ledger's, and who  *)
(* may call a handler at all is Admission's.                               *)
(***************************************************************************)
EXTENDS Catalog

CONSTANTS
    Requests,       \* requests, one job each
    Jobs,           \* what a request may be asked to do
    Assignments,    \* the combinations of jobs that are tried
    Begun,          \* the tables a company may begin with
    Alerts,         \* the company's notifications
    Members,        \* its members, as company_members has them
    Country,        \* its country, or Null
    ActiveBlueprint,  \* [business_type, priorities], or Null
    Failing,        \* requests whose SQL statements may raise
    MaxRestarts     \* bound: restarts of the Kernel

ASSUME RequestsAssumption == /\ Assignments \subseteq [Requests -> Jobs] /\ Failing \subseteq Requests
                             /\ MaxRestarts \in Nat
                             /\ Null \notin Requests \cup {"before"} \cup Nat
                             /\ Null \notin [by : Requests \cup {"before"}, epoch : Nat]

\* set_preferences makes a bool of the payload's daily_summary (intelligence_engine/manager.py:454).
ASSUME PreferencesAssumption ==
    \A asked \in Jobs : asked.kind = "intelligence_preferences.create" => asked.daily \in BOOLEAN

\* Every business system asks for some credential (integration_manager/catalog.py:49).
ASSUME CatalogAssumption == \A s \in DOMAIN Integrations : Integrations[s].fields # {}

\* A row of business_system_connections: connecting wants the credentials, and
\* disconnecting purges them.
SystemRow(s, row) ==
    /\ s \in DOMAIN Integrations
    /\ DOMAIN row = {"status", "health", "creds", "stamp", "seen"}
    /\ row.status \in {"connected", "disconnected"} /\ row.health \in {"healthy", "unhealthy", "unknown"}
    /\ row.status = "connected" => Integrations[s].fields \subseteq row.creds
    /\ row.status = "disconnected" => row.creds = {}
    /\ row.stamp \in Nat /\ row.seen \in Nat \cup {Null}

\* The snapshots that one schema row has left: every version up to its own, once,
\* and the last is what the row holds.
VersionsOf(row, kept) ==
    /\ DOMAIN row = {"id", "version", "schema"}
    /\ row.version \in Nat \ {0} /\ {s.version : s \in kept} = 1 .. row.version
    /\ \A s, t \in kept : s.version = t.version => s = t
    /\ \E s \in kept : s.version = row.version /\ s.schema = row.schema

\* A company begins with tables that earlier requests have left.
ASSUME BegunAssumption == \A tabs \in Begun :
    /\ tabs.endpoint # Null => tabs.endpoint \in [by : {"before"}, epoch : {0}]
    /\ \A k \in DOMAIN tabs.keys : tabs.keys[k] \in BOOLEAN
    /\ \A p \in DOMAIN tabs.links : tabs.links[p].status \in {"connected", "disconnected"}
    /\ \A s \in DOMAIN tabs.systems : /\ SystemRow(s, tabs.systems[s]) /\ tabs.systems[s].seen = Null
                                      /\ tabs.systems[s].health = "healthy" <=> tabs.systems[s].status = "connected"
    /\ \A n \in DOMAIN tabs.schemas :
           VersionsOf(tabs.schemas[n], {s \in tabs.snapshots : s.name = n /\ s.id = tabs.schemas[n].id})
    /\ \A s \in tabs.snapshots : s.id \notin Requests

VARIABLES
    endpoint,     \* company_endpoints: Null or [by, epoch], who minted the secret and under which key
    keys,         \* api_keys: id -> revoked
    links,        \* provider_connections: provider -> [status, creds]
    systems,      \* business_system_connections: provider -> [status, health, creds, stamp, seen]
    mappings,     \* data_mappings: name -> [id, rules]
    schemas,      \* event_schemas: name -> [id, version, schema]
    snapshots,    \* event_schema_versions: [name, version, id, schema]
    apps,         \* company_installed_apps
    unread,       \* notifications whose read_at is NULL
    preferences,  \* intelligence_preferences: Null or the row
    epoch,        \* the encryption key the running Kernel has
    events,       \* rows of events: <<name, request>>
    job,          \* what each request was asked to do
    stage,        \* where its handler is
    pending,      \* the events its handler is still to publish
    held,         \* what its handler read or minted before its last statement
    reply         \* what it was answered

credentials == <<endpoint, keys>>
connections == <<links, systems>>
definitions == <<mappings, schemas, snapshots>>
settings    == <<apps, unread, preferences>>
tables      == <<credentials, connections, definitions, settings>>
progress    == <<job, stage, pending, held, reply>>
vars        == <<tables, epoch, events, progress>>

-----------------------------------------------------------------------------
(* Data.                                                                   *)

Ended  == {"done", "refused", "failed"}
Stages == Ended \cup {"todo", "insert", "key", "announce", "endpoint", "integrity", "preview",
                      "versions", "health", "settings"}

Row(table, id) == {n \in DOMAIN table : table[n].id = id}
With(table, n, row) == [k \in DOMAIN table \cup {n} |-> IF k = n THEN row ELSE table[k]]
Without(table, names) == [k \in DOMAIN table \ names |-> table[k]]

\* Mutant: the overview looks at the secret before the endpoint.
AfterPartSwapped == [keys |-> "integrity", integrity |-> "endpoint", endpoint |-> "done"]

\* The order in which get_security_overview reads.
AfterPart == [keys |-> "endpoint", endpoint |-> "integrity", integrity |-> "done"]

\* _require_admin guards these handlers, by the owner, an administrator or "*".
AdminOnly == {"mappings.create", "mappings.delete", "schema.create", "schema.delete",
              "company.api_generate", "company.rotate_secret", "company.test_endpoint",
              "providers.create", "providers.test", "providers.delete", "integrations.create",
              "integrations.test", "integrations.delete", "key.create", "key.revoke",
              "marketplace.create", "intelligence_preferences.create"}

\* The required credential fields the payload gives no value for.
Unfilled(asked, fields) == fields \ asked.filled

\* Mutant: any app can be installed.
AnyApp(asked) == FALSE

\* _marketplace_toggle raises for an app that is not in the catalog.
UnknownApp(asked) == asked.app \notin DOMAIN Apps

\* A payload the handler turns down before its first statement.
Malformed(asked) ==
    \/ asked.kind = "mappings.create" /\ (asked.name = "" \/ RulesRefused(asked.rules))
    \/ asked.kind = "mappings.preview" /\ asked.id = Null /\ RulesRefused(asked.rules)
    \/ asked.kind = "schema.create" /\ SchemaRefused(asked.schema)
    \/ asked.kind = "sdk.generate" /\ ~asked.supported
    \/ /\ asked.kind = "providers.create"
       /\ asked.name \in DOMAIN ProviderCatalog => Unfilled(asked, ProviderCatalog[asked.name].fields) # {}
    \/ /\ asked.kind = "integrations.create"
       /\ asked.name \in DOMAIN Integrations => Unfilled(asked, Integrations[asked.name].fields) # {}
    \/ asked.kind = "marketplace.create" /\ UnknownApp(asked)
    \/ asked.kind = "intelligence_preferences.create" /\ asked.severity \notin {"info", "warning", "critical"}
    \/ asked.kind \in {"mappings.delete", "schema.delete", "schema.validate", "schema.versions",
                     "providers.delete", "integrations.delete", "key.revoke",
                     "intelligence_notifications.create"} /\ asked.id = Null

Refused(asked) == (asked.kind \in AdminOnly /\ ~asked.admin) \/ Malformed(asked)

Init ==
    /\ \E tabs \in Begun :
           /\ endpoint = tabs.endpoint /\ keys = tabs.keys /\ links = tabs.links /\ systems = tabs.systems
           /\ mappings = tabs.mappings /\ schemas = tabs.schemas /\ snapshots = tabs.snapshots
    /\ apps = {} /\ unread = Alerts /\ preferences = Null /\ epoch = 0 /\ events = {}
    /\ job \in Assignments /\ stage = [w \in Requests |-> "todo"]
    /\ pending = [w \in Requests |-> <<>>]
    /\ held = [w \in Requests |-> Null] /\ reply = [w \in Requests |-> Null]

-----------------------------------------------------------------------------
(* How a handler moves on.                                                 *)

On(w, kind) == stage[w] = "todo" /\ job[w].kind = kind /\ ~Refused(job[w])

Becomes(w, at, events_left, holding, answer) ==
    /\ stage' = [stage EXCEPT ![w] = at] /\ pending' = [pending EXCEPT ![w] = events_left]
    /\ held' = [held EXCEPT ![w] = holding] /\ reply' = [reply EXCEPT ![w] = answer]
    /\ UNCHANGED job

Move(w, at) == Becomes(w, at, pending[w], held[w], reply[w])
Hold(w, at, holding) == Becomes(w, at, pending[w], holding, reply[w])
Answer(w, answer) == Becomes(w, "done", pending[w], held[w], answer)

\* The handler has written what it writes; its event comes next.
Publishing(w, names) == Becomes(w, "announce", names, held[w], reply[w])

\* _require_admin and the handlers' own checks: 403 or 422, and nothing was written.
Refuse(w) ==
    /\ stage[w] = "todo" /\ Refused(job[w])
    /\ Move(w, "refused")
    /\ UNCHANGED <<tables, epoch, events>>

\* EventBus.publish: one INSERT, and the handler answers after the last.  Behind
\* the INSERT of an observed event (a provider or a system connected or
\* disconnected, a mapping or schema saved) a whole cycle is awaited before the
\* next event: Observe of module Intelligence, which changes no table of this
\* one and whose failure is swallowed.
Announce(w) ==
    /\ stage[w] = "announce"
    /\ events' = events \cup {<<Head(pending[w]), w>>}
    /\ Becomes(w, IF Len(pending[w]) = 1 THEN "done" ELSE "announce", Tail(pending[w]), held[w], reply[w])
    /\ UNCHANGED <<tables, epoch>>

\* A statement raises: what was committed before it stays.
Fail(w) ==
    /\ w \in Failing /\ stage[w] \notin Ended
    /\ ~(stage[w] = "todo" /\ Refused(job[w]))
    /\ Move(w, "failed")
    /\ UNCHANGED <<tables, epoch, events>>

\* The Kernel restarts with another BLUEPRINT_ENCRYPTION_KEY: what was running is
\* lost, what was committed stays.
Restart ==
    /\ epoch < MaxRestarts
    /\ epoch' = epoch + 1
    /\ stage' = [w \in Requests |-> IF stage[w] \in Ended \cup {"todo"} THEN stage[w] ELSE "failed"]
    /\ UNCHANGED <<tables, events, job, pending, held, reply>>

-----------------------------------------------------------------------------
(* The company's endpoint and its API keys.                                *)

\* encrypt_secret, decrypt_secret: a secret is readable under the key it was
\* stored with.
NewSecret(w) == [by |-> w, epoch |-> epoch]
Readable == endpoint.epoch = epoch

\* Mutant: the endpoint is written over by whoever comes second.
InsertOver(w) ==
    /\ stage[w] = "insert"
    /\ endpoint' = NewSecret(w)
    /\ Hold(w, "key", w)
    /\ UNCHANGED <<keys, connections, definitions, settings, epoch, events>>

\* get_or_create: the endpoint is looked for first.
Generate(w) ==
    /\ On(w, "company.api_generate")
    /\ Move(w, IF endpoint = Null THEN "insert" ELSE "key")
    /\ UNCHANGED <<tables, epoch, events>>

\* ... and inserted by another statement, which the primary key makes raise for
\* the second of two.  The secret is held until the handler answers.
InsertEndpoint(w) ==
    /\ stage[w] = "insert"
    /\ IF endpoint = Null
       THEN /\ endpoint' = NewSecret(w)
            /\ Hold(w, "key", w)
       ELSE Move(w, "failed") /\ UNCHANGED endpoint
    /\ UNCHANGED <<keys, connections, definitions, settings, epoch, events>>

\* _developer_create_key, on its own or for a generated endpoint.
CreateKey(w) ==
    /\ On(w, "key.create") \/ stage[w] = "key"
    /\ keys' = With(keys, w, FALSE)
    /\ Publishing(w, IF stage[w] = "key" THEN <<"api_key.created", "company.api_generated">>
                                     ELSE <<"api_key.created">>)
    /\ UNCHANGED <<endpoint, connections, definitions, settings, epoch, events>>

\* _developer_revoke: an UPDATE that finds no key says nothing.
RevokeKey(w) ==
    /\ On(w, "key.revoke")
    /\ keys' = [k \in DOMAIN keys |-> keys[k] \/ k = job[w].id]
    /\ Publishing(w, <<"api_key.revoked">>)
    /\ UNCHANGED <<endpoint, connections, definitions, settings, epoch, events>>

\* rotate: one UPDATE; without an endpoint the handler answers 404.
Rotate(w) ==
    /\ On(w, "company.rotate_secret")
    /\ IF endpoint = Null
       THEN Move(w, "refused") /\ UNCHANGED endpoint
       ELSE /\ endpoint' = NewSecret(w)
            /\ Becomes(w, "announce", <<"company.secret_rotated">>, w, reply[w])
    /\ UNCHANGED <<keys, connections, definitions, settings, epoch, events>>

\* _company_test_endpoint: no endpoint is a 404 and a secret of another
\* encryption key a 400; the mapping, if one is named, is read afterwards.
TestEndpoint(w) ==
    /\ On(w, "company.test_endpoint")
    /\ IF endpoint = Null \/ ~Readable THEN Move(w, "refused")
       ELSE IF job[w].id = Null THEN Answer(w, "verified")
       ELSE Move(w, "preview")
    /\ UNCHANGED <<tables, epoch, events>>

\* get_security_overview: the keys and the members on one connection.
OverviewKeys(w) ==
    /\ On(w, "security.overview")
    /\ Becomes(w, AfterPart.keys, pending[w], held[w],
               [active  |-> {k \in DOMAIN keys : ~keys[k]}, revoked |-> {k \in DOMAIN keys : keys[k]},
                members |-> Members, configured |-> Null, certificate |-> Null])
    /\ UNCHANGED <<tables, epoch, events>>

\* ... then the endpoint on another,
OverviewEndpoint(w) ==
    /\ stage[w] = "endpoint"
    /\ Becomes(w, AfterPart.endpoint, pending[w], held[w], [reply[w] EXCEPT !.configured = (endpoint # Null)])
    /\ UNCHANGED <<tables, epoch, events>>

\* ... and the secret on a third: verify_credential_integrity.
OverviewIntegrity(w) ==
    /\ stage[w] = "integrity"
    /\ Becomes(w, AfterPart.integrity, pending[w], held[w],
               [reply[w] EXCEPT !.certificate = IF endpoint = Null THEN "not_configured"
                                                ELSE IF Readable THEN "valid" ELSE "invalid"])
    /\ UNCHANGED <<tables, epoch, events>>

-----------------------------------------------------------------------------
(* Financial providers.                                                    *)

\* _providers_connect: one row per provider, written over when it is connected again.
ConnectProvider(w) ==
    /\ On(w, "providers.create")
    /\ links' = With(links, job[w].name, [status |-> "connected", creds |-> job[w].filled \cup job[w].blank])
    /\ Publishing(w, <<"provider.connected">>)
    /\ UNCHANGED <<credentials, systems, definitions, settings, epoch, events>>

\* _providers_test writes nothing: a live adapter answers for itself, any other
\* provider is only asked for its credential fields.
TestProvider(w) ==
    /\ On(w, "providers.test")
    /\ LET saved == job[w].id # Null
           name  == IF saved THEN job[w].id ELSE job[w].name
       IN  IF (saved /\ name \notin DOMAIN links) \/ name \notin DOMAIN ProviderCatalog
           THEN Move(w, "refused")
           ELSE Answer(w, \/ ProviderCatalog[name].live
                          \/ ProviderCatalog[name].fields \subseteq
                                 IF saved THEN links[name].creds ELSE job[w].filled \cup job[w].blank)
    /\ UNCHANGED <<tables, epoch, events>>

\* _providers_disconnect purges the credentials and keeps the row.
DisconnectProvider(w) ==
    /\ On(w, "providers.delete")
    /\ IF job[w].id \notin DOMAIN links
       THEN Move(w, "refused") /\ UNCHANGED links
       ELSE /\ links' = [links EXCEPT ![job[w].id] = [status |-> "disconnected", creds |-> {}]]
            /\ Publishing(w, <<"provider.disconnected">>)
    /\ UNCHANGED <<credentials, systems, definitions, settings, epoch, events>>

-----------------------------------------------------------------------------
(* Business systems.                                                       *)

\* Mutant: a system connected again keeps the health it had.
HealthKept(name) == IF name \in DOMAIN systems THEN systems[name].health ELSE "healthy"

\* The health a row gets with new credentials.
HealthOnConnect(name) == "healthy"

\* _integrations_connect: one row per system, written over when it is connected
\* again.  (stamp counts what connects and disconnects a system; seen is the stamp
\* of the row that the test read whose answer health is, Null if it is no test's.)
ConnectSystem(w) ==
    /\ On(w, "integrations.create")
    /\ LET name == job[w].name
       IN  systems' = With(systems, name,
               [status |-> "connected", health |-> HealthOnConnect(name),
                creds  |-> job[w].filled \cup job[w].blank, seen |-> Null,
                stamp  |-> IF name \in DOMAIN systems THEN systems[name].stamp + 1 ELSE 0])
    /\ Publishing(w, <<"integration.connected">>)
    /\ UNCHANGED <<credentials, links, definitions, settings, epoch, events>>

\* _integrations_test reads the row's credentials ...
TestSystem(w) ==
    /\ On(w, "integrations.test")
    /\ LET id == job[w].id
           given == job[w].filled \cup job[w].blank
       IN  IF id = Null
           THEN IF job[w].name \in DOMAIN Integrations
                THEN Answer(w, Integrations[job[w].name].fields \subseteq given)
                ELSE Move(w, "refused")
           ELSE IF id \in DOMAIN systems
           THEN Hold(w, "health", [ok |-> Integrations[id].fields \subseteq systems[id].creds,
                                   stamp |-> systems[id].stamp])
           ELSE Move(w, "refused")
    /\ UNCHANGED <<tables, epoch, events>>

\* What the UPDATE of a test makes of a row.
Tested(row, test) == [row EXCEPT !.health = IF test.ok THEN "healthy" ELSE "unhealthy", !.seen = test.stamp]

\* ... and writes the health on another connection, to the row as it then is.
WriteHealth(w) ==
    /\ stage[w] = "health"
    /\ systems' = With(systems, job[w].id, Tested(systems[job[w].id], held[w]))
    /\ Answer(w, held[w].ok)
    /\ UNCHANGED <<credentials, links, definitions, settings, epoch, events>>

\* _integrations_disconnect: the credentials go, and health is unknown.
DisconnectSystem(w) ==
    /\ On(w, "integrations.delete")
    /\ IF job[w].id \notin DOMAIN systems
       THEN Move(w, "refused") /\ UNCHANGED systems
       ELSE /\ systems' = [systems EXCEPT ![job[w].id] = [status |-> "disconnected", health |-> "unknown",
                                                          creds |-> {}, seen |-> Null, stamp |-> @.stamp + 1]]
            /\ Publishing(w, <<"integration.disconnected">>)
    /\ UNCHANGED <<credentials, links, definitions, settings, epoch, events>>

-----------------------------------------------------------------------------
(* Data mappings and event schemas.                                        *)

\* MappingStore.upsert: a name that is taken keeps its id and gets the new rules.
MappingRow(w) ==
    [id |-> IF job[w].name \in DOMAIN mappings THEN mappings[job[w].name].id ELSE w, rules |-> job[w].rules]

\* _mappings_upsert.
SaveMapping(w) ==
    /\ On(w, "mappings.create")
    /\ mappings' = With(mappings, job[w].name, MappingRow(w))
    /\ Publishing(w, <<"mapping.saved">>)
    /\ UNCHANGED <<credentials, connections, schemas, snapshots, settings, epoch, events>>

\* _mappings_delete publishes nothing.
DeleteMapping(w) ==
    /\ On(w, "mappings.delete")
    /\ mappings' = Without(mappings, Row(mappings, job[w].id))
    /\ IF Row(mappings, job[w].id) = {} THEN Move(w, "refused") ELSE Answer(w, "deleted")
    /\ UNCHANGED <<credentials, connections, schemas, snapshots, settings, epoch, events>>

\* _mappings_preview, by id or with rules of its own; and the second read of
\* the Test Console.
Preview(w) ==
    /\ On(w, "mappings.preview") \/ stage[w] = "preview"
    /\ LET named == Row(mappings, job[w].id)
       IN  IF job[w].id = Null THEN Answer(w, Mapped(job[w].payload, job[w].rules))
           ELSE IF named = {} THEN Move(w, "refused")
           ELSE Answer(w, Mapped(job[w].payload, mappings[CHOOSE n \in named : TRUE].rules))
    /\ UNCHANGED <<tables, epoch, events>>

\* Mutant: a schema that is defined again keeps its version.
SchemaRowInPlace(w) ==
    LET name == job[w].schema.name
    IN  IF name \in DOMAIN schemas
        THEN [schemas[name] EXCEPT !.schema = job[w].schema]
        ELSE [id |-> w, version |-> 1, schema |-> job[w].schema]

\* SchemaStore.upsert: a schema that is defined again gets the next version.
SchemaRow(w) ==
    LET name == job[w].schema.name
    IN  IF name \in DOMAIN schemas
        THEN [schemas[name] EXCEPT !.version = @ + 1, !.schema = job[w].schema]
        ELSE [id |-> w, version |-> 1, schema |-> job[w].schema]

\* _schema_upsert: the row and its snapshot in one transaction.
SaveSchema(w) ==
    /\ On(w, "schema.create")
    /\ LET name == job[w].schema.name
           row  == SchemaRow(w)
       IN  /\ schemas' = With(schemas, name, row)
           /\ snapshots' = snapshots \cup {[name |-> name, version |-> row.version,
                                            id |-> row.id, schema |-> row.schema]}
    /\ Publishing(w, <<"schema.saved">>)
    /\ UNCHANGED <<credentials, connections, mappings, settings, epoch, events>>

\* _schema_delete keeps the versions and publishes nothing.
DeleteSchema(w) ==
    /\ On(w, "schema.delete")
    /\ schemas' = Without(schemas, Row(schemas, job[w].id))
    /\ IF Row(schemas, job[w].id) = {} THEN Move(w, "refused") ELSE Answer(w, "deleted")
    /\ UNCHANGED <<credentials, connections, mappings, snapshots, settings, epoch, events>>

\* _schema_validate.
ValidateEvent(w) ==
    /\ On(w, "schema.validate")
    /\ LET named == Row(schemas, job[w].id)
       IN  IF named = {} THEN Move(w, "refused")
           ELSE Answer(w, Validated(job[w].payload, schemas[CHOOSE n \in named : TRUE].schema))
    /\ UNCHANGED <<tables, epoch, events>>

\* SchemaStore.versions looks the schema up by id ...
FindVersions(w) ==
    /\ On(w, "schema.versions")
    /\ LET named == Row(schemas, job[w].id)
       IN  IF named = {} THEN Answer(w, {})
           ELSE Hold(w, "versions", CHOOSE n \in named : TRUE)
    /\ UNCHANGED <<tables, epoch, events>>

\* ... and its versions by name, an earlier schema's of that name included.
ListVersions(w) ==
    /\ stage[w] = "versions"
    /\ Answer(w, {v.version : v \in {s \in snapshots : s.name = held[w]}})
    /\ UNCHANGED <<tables, epoch, events>>

-----------------------------------------------------------------------------
(* Marketplace and settings.                                               *)

\* _marketplace_toggle: whatever is not an uninstall installs.
Toggle(w) ==
    /\ On(w, "marketplace.create")
    /\ apps' = IF job[w].action = "uninstall" THEN apps \ {job[w].app} ELSE apps \cup {job[w].app}
    /\ Publishing(w, <<"marketplace." \o job[w].action \o "ed">>)
    /\ UNCHANGED <<credentials, connections, definitions, unread, preferences, epoch, events>>

\* mark_notification_read: the UPDATE finds an unread row, or the answer is 404.
MarkRead(w) ==
    /\ On(w, "intelligence_notifications.create")
    /\ unread' = unread \ {job[w].id}
    /\ IF job[w].id \in unread THEN Answer(w, "read") ELSE Move(w, "refused")
    /\ UNCHANGED <<credentials, connections, definitions, apps, preferences, epoch, events>>

\* set_preferences writes the row, and reads it again for the answer.
SetPreferences(w) ==
    /\ On(w, "intelligence_preferences.create")
    /\ preferences' = [severity |-> job[w].severity, daily |-> job[w].daily]
    /\ Move(w, "settings")
    /\ UNCHANGED <<credentials, connections, definitions, apps, unread, epoch, events>>

\* get_preferences.
GetPreferences(w) ==
    /\ On(w, "intelligence_preferences.list") \/ stage[w] = "settings"
    /\ Answer(w, IF preferences = Null THEN [severity |-> "info", daily |-> TRUE] ELSE preferences)
    /\ UNCHANGED <<tables, epoch, events>>

-----------------------------------------------------------------------------
(* The handlers that only look.                                            *)

\* _providers_list, _integrations_list: what is connected (for a system, with
\* its health), what is offered and what the Blueprint recommends of it.
StillConnected(rows) == {p \in DOMAIN rows : rows[p].status # "disconnected"}
ProvidersView ==
    [connected   |-> StillConnected(links),
     stored      |-> {p \in StillConnected(links) : links[p].creds # {}},
     catalog     |-> CatalogFor(Country),
     recommended |-> {p \in CatalogFor(Country) : ProviderCatalog[p].category
                          \in RecommendedFor(ActiveBlueprint, FinancialCategories)}]
IntegrationsView ==
    [health      |-> [s \in StillConnected(systems) |-> systems[s].health],
     recommended |-> {s \in DOMAIN Integrations : Integrations[s].type
                          \in RecommendedFor(ActiveBlueprint, SystemTypes)}]

\* _marketplace_list.
MarketplaceView ==
    [installed |-> apps, recommended |-> {a \in DOMAIN Apps : Apps[a] \in RelevantApps(ActiveBlueprint)}]

\* _enterprise_overview counts in one statement; a disconnected provider counts.
\* It counts the automations of module Ledger too, and lists the latest 25 rows
\* of audit_log.
EnterpriseView ==
    [members |-> Cardinality(Members), installed_apps |-> Cardinality(apps),
     active_keys |-> Cardinality({k \in DOMAIN keys : ~keys[k]}),
     connections |-> Cardinality(DOMAIN links)]

\* get_notifications.
NotificationsView(unread_only) == IF unread_only THEN unread ELSE Alerts

\* _sdk_generate: without an endpoint the code names a placeholder.
SdkView == IF endpoint = Null THEN "placeholder" ELSE "endpoint"

\* _developer_list, _company_overview.
KeysView == keys
TeamView == Members

Views == {"providers.list", "integrations.list", "marketplace.list", "enterprise.list",
          "intelligence_notifications.list", "sdk.generate", "developer.list", "companies.list"}

View(asked) ==
    CASE asked.kind = "providers.list"    -> ProvidersView
      [] asked.kind = "integrations.list" -> IntegrationsView
      [] asked.kind = "marketplace.list"  -> MarketplaceView
      [] asked.kind = "enterprise.list"   -> EnterpriseView
      [] asked.kind = "intelligence_notifications.list" -> NotificationsView(asked.unread_only)
      [] asked.kind = "sdk.generate"      -> SdkView
      [] asked.kind = "developer.list"    -> KeysView
      [] asked.kind = "companies.list"    -> TeamView

Look(w) ==
    /\ job[w].kind \in Views /\ On(w, job[w].kind)
    /\ Answer(w, View(job[w]))
    /\ UNCHANGED <<tables, epoch, events>>

\* _mappings_list and _schema_list call a method their stores do not have.
Unlisted(w) ==
    /\ On(w, "mappings.list") \/ On(w, "schema.list")
    /\ Move(w, "failed")
    /\ UNCHANGED <<tables, epoch, events>>

-----------------------------------------------------------------------------
Handle(w) ==
    \/ Refuse(w) \/ Announce(w) \/ Fail(w) \/ Look(w) \/ Unlisted(w)
    \/ Generate(w) \/ InsertEndpoint(w) \/ CreateKey(w) \/ RevokeKey(w) \/ Rotate(w) \/ TestEndpoint(w)
    \/ OverviewKeys(w) \/ OverviewEndpoint(w) \/ OverviewIntegrity(w)
    \/ ConnectProvider(w) \/ TestProvider(w) \/ DisconnectProvider(w)
    \/ ConnectSystem(w) \/ TestSystem(w) \/ WriteHealth(w) \/ DisconnectSystem(w)
    \/ SaveMapping(w) \/ DeleteMapping(w) \/ Preview(w)
    \/ SaveSchema(w) \/ DeleteSchema(w) \/ ValidateEvent(w) \/ FindVersions(w) \/ ListVersions(w)
    \/ Toggle(w) \/ MarkRead(w) \/ SetPreferences(w) \/ GetPreferences(w)

Next == Restart \/ \E w \in Requests : Handle(w)

Spec == Init /\ [][Next]_vars

-----------------------------------------------------------------------------
(* Properties.                                                             *)

\* Type correctness.
TypeOK ==
    /\ endpoint # Null => endpoint \in [by : Requests \cup {"before"}, epoch : 0 .. MaxRestarts]
    /\ \A k \in DOMAIN keys : keys[k] \in BOOLEAN
    /\ \A p \in DOMAIN links : links[p].status \in {"connected", "disconnected"}
    /\ \A s \in DOMAIN systems : SystemRow(s, systems[s])
    /\ preferences = Null \/ preferences \in [severity : {"info", "warning", "critical"}, daily : BOOLEAN]
    /\ apps \subseteq DOMAIN Apps /\ unread \subseteq Alerts /\ epoch \in 0 .. MaxRestarts
    /\ job \in [Requests -> Jobs] /\ stage \in [Requests -> Stages]

Generating(w) == job[w].kind = "company.api_generate"

\* The webhook secret is only ever returned in the response that creates it
\* (engine.py:424): of the requests that generate an endpoint, in whatever order
\* their SELECTs and INSERTs run and whichever of them fail, one holds a secret to
\* reveal at most, and that secret is the stored one until somebody rotates it.
RevealedOnce ==
    \A w \in Requests : Generating(w) /\ held[w] # Null =>
        /\ \A x \in Requests : Generating(x) /\ held[x] # Null => x = w
        /\ endpoint # Null
        /\ endpoint.by # w => endpoint.by \in Requests /\ job[endpoint.by].kind = "company.rotate_secret"

\* health reflects the credentials the row has (engine.py:1248): a connected
\* system is healthy and a disconnected one is not, unless its health was written
\* by a test that had read the row before it was last connected or disconnected.
HealthBehindOneTest ==
    \A s \in DOMAIN systems :
        systems[s].seen \in {Null, systems[s].stamp} =>
            (systems[s].health = "healthy" <=> systems[s].status = "connected")

\* Each save creates a new immutable version (migrations/010_event_schemas.sql:7):
\* of the schema in force under a name there is one snapshot of every version up to
\* its own, whoever saves or deletes meanwhile, and the last is what is in force.
VersionsKept ==
    \A n \in DOMAIN schemas :
        VersionsOf(schemas[n], {s \in snapshots : s.name = n /\ s.id = schemas[n].id})

\* The security overview reads the endpoint and then its secret on connections
\* of their own (security_engine.py:84): an overview that shows the webhook secret
\* as configured never says beside it that no endpoint was generated.
OverviewConsistent ==
    \A w \in Requests : job[w].kind = "security.overview" /\ stage[w] = "done" =>
        ~(reply[w].configured /\ reply[w].certificate = "not_configured")

===============================================================================

------------------------------ MODULE MCWorkspace ------------------------------
(* A company in Kenya: new, or with an endpoint, a provider, a system, a    *)
(* mapping and a schema.  Two requests do any two jobs; three do the jobs   *)
(* that meet in one row.                                                    *)
EXTENDS Workspace, TLC

CONSTANTS r1, r2, r3

Offer(category, fields, live) == [category |-> category, fields |-> fields, live |-> live]
Folder(code, active, needs, providers) ==
    [code |-> code, active |-> active, complete |-> code # "", needs |-> needs, providers |-> providers]
MCFolders ==
    <<Folder("", TRUE, 1, [broken |-> Offer("bank", {}, FALSE)]),
      Folder("GH", TRUE, 1, [momo |-> Offer("mobile_money", {"api_key"}, FALSE)]),
      Folder("KE", TRUE, 1, [sandbox |-> Offer("mobile_money", {}, TRUE),
                             bank    |-> Offer("bank", {"id", "secret"}, FALSE)]),
      Folder("NG", TRUE, 1, [bank |-> Offer("crypto", {"api_key"}, FALSE)]),
      Folder("UG", FALSE, 1, [none |-> Offer("bank", {}, FALSE)]),
      Folder("ZZ", TRUE, 2, [later |-> Offer("bank", {}, FALSE)])>>
MCIntegrations == [books |-> [type |-> "accounting", fields |-> {"api_key"}]]
MCApps == ("csv-export" :> "reporting") @@ ("anomaly-alerts" :> "intelligence")
MCFinancialCategories == [retail |-> {"payment_gateway", "mobile_money"}]
MCSystemTypes == [retail |-> {"pos", "inventory", "accounting"}]
MCAppCategories == [expense_control |-> {"reporting", "automation"}]
MCBlueprint == [business_type |-> "retail", priorities |-> {"expense_control", "payroll_accuracy"}]

Rule(field, type, min) == [field |-> field, type |-> type, min |-> min, max |-> 9, enum |-> {}]
Schema(name, required, optional, rules) ==
    [name |-> name, required |-> required, optional |-> optional, rules |-> rules]
Paid == Schema("paid", {"amount"}, {"note"}, {Rule("amount", "number", 1)})
Refund == Schema("paid", {"amount", "reason"}, {}, {})
Totals == <<[source |-> "total", target |-> "amount"], [source |-> "who", target |-> "customer"]>>
Value(type, number) == [type |-> type, number |-> number, text |-> ""]
Payload == [total |-> Value("number", 0), amount |-> Value("number", 0)]

Do(kind) == [kind |-> kind, admin |-> TRUE, id |-> Null]
OnRow(kind, id) == [Do(kind) EXCEPT !.id = id]
Given(kind, id, name, filled, blank) ==
    [kind |-> kind, admin |-> TRUE, id |-> id, name |-> name, filled |-> filled, blank |-> blank]
Mapping(name, rules) == [kind |-> "mappings.create", admin |-> TRUE, name |-> name, rules |-> rules]
Defining(schema) == [kind |-> "schema.create", admin |-> TRUE, schema |-> schema]
Checking(kind, id) == [kind |-> kind, admin |-> TRUE, id |-> id, payload |-> Payload, rules |-> Totals]
Setting(severity) == [kind |-> "intelligence_preferences.create", admin |-> TRUE, severity |-> severity, daily |-> FALSE]
App(app, action) == [kind |-> "marketplace.create", admin |-> TRUE, app |-> app, action |-> action]

EndpointJobs == {Do("company.api_generate"), Do("company.rotate_secret"), Do("security.overview"),
                 [Checking("company.test_endpoint", "m0") EXCEPT !.rules = <<>>], OnRow("key.revoke", "k0")}
SystemJobs == {Given("integrations.create", Null, "books", {"api_key"}, {}),
               Given("integrations.test", "books", Null, {}, {}),
               OnRow("integrations.delete", "books")}
SchemaJobs == {Defining(Paid), Defining(Refund), OnRow("schema.delete", "s0"), OnRow("schema.versions", "s0")}
Nothing == [kind |-> "unknown", admin |-> TRUE]
MCJobs ==
    EndpointJobs \cup SystemJobs \cup SchemaJobs \cup
    {Nothing, [Do("company.api_generate") EXCEPT !.admin = FALSE], Do("key.create"), Do("key.revoke"),
     Checking("company.test_endpoint", Null),
     Do("providers.list"), Do("integrations.list"), Do("marketplace.list"), Do("enterprise.list"),
     Do("developer.list"), Do("companies.list"), Do("mappings.list"), Do("schema.list"),
     Do("intelligence_preferences.list"),
     [kind |-> "intelligence_notifications.list", unread_only |-> TRUE],
     OnRow("intelligence_notifications.create", "n1"),
     [kind |-> "sdk.generate", supported |-> TRUE], [kind |-> "sdk.generate", supported |-> FALSE],
     Given("providers.create", Null, "bank", {"id", "secret"}, {}),
     Given("providers.create", Null, "bank", {"id"}, {"secret"}),
     Given("providers.create", Null, "sandbox", {}, {}), Given("providers.test", "bank", Null, {}, {}),
     Given("providers.test", Null, "momo", {}, {"api_key"}), OnRow("providers.delete", "bank"),
     Given("integrations.create", Null, "erp", {}, {}), Given("integrations.test", Null, "books", {}, {}),
     Mapping("map", Totals), Mapping("map", Totals \o Totals), OnRow("mappings.delete", "m0"),
     Checking("mappings.preview", "m0"), Checking("mappings.preview", Null),
     Defining(Schema("paid", {"a"}, {"a"}, {})),
     Checking("schema.validate", "s0"),
     App("csv-export", "install"), App("csv-export", "uninstall"), App("none", "install"),
     Setting("warning"), Setting("loud")}

MCAssignments ==
    {r1 :> a @@ r2 :> b @@ r3 :> Nothing : a, b \in MCJobs}
        \cup [Requests -> EndpointJobs] \cup [Requests -> SystemJobs]
        \cup [Requests -> SchemaJobs]

Tables(end, books) ==
    [endpoint |-> end, keys |-> [k0 |-> FALSE],
     links |-> [bank |-> [status |-> "connected", creds |-> {"id", "secret"}]],
     systems |-> [books |-> books], mappings |-> [map |-> [id |-> "m0", rules |-> Totals]],
     schemas |-> [paid |-> [id |-> "s0", version |-> 1, schema |-> Paid]],
     snapshots |-> {[name |-> "paid", version |-> 1, id |-> "s0", schema |-> Paid]}]
Connected == [status |-> "connected", health |-> "healthy", creds |-> {"api_key"}, stamp |-> 0, seen |-> Null]
MCBegun ==
    {Tables([by |-> "before", epoch |-> 0], Connected),
     [endpoint |-> Null, keys |-> <<>>, links |-> <<>>, systems |-> <<>>,
      mappings |-> <<>>, schemas |-> <<>>, snapshots |-> {}]}

===============================================================================

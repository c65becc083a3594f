------------------------------- MODULE Connector -------------------------------
(***************************************************************************)
(* The connector: the file the Connector Generator renders, what it        *)
(* answers over HTTP once a company runs it, and the two programs that     *)
(* call it and conclude from its answers - Test Connection and the         *)
(* Intelligence Engine's ConnectorIntelligence.                            *)
(*                                                                         *)
(* A host is what answers at a connector URL: a generated file, a legacy   *)
(* connector without `_health`, or a page that answers with a JSON list.   *)
(* A row is a function of its fields; numbers are whole, a due date is     *)
(* counted from today, and Python's booleans are the strings "True" and    *)
(* "False", which is what str() makes of them.                             *)
(***************************************************************************)
EXTENDS Integers, Sequences, SequencesExt

CONSTANTS
    Null,          \* SQL's NULL, Python's None
    Identifiers,   \* the table names that match _IDENTIFIER_RE
    Numbered,      \* the entities that begin with a digit and are no number
    HashOrder(_),  \* the order in which a Java HashMap lists a set of keys
    Words(_),      \* the hint words a name contains
    Singular(_),   \* _singularize of a name
    Refers(_),     \* the name before a field's "_id"; Null for a field without
    MaxEntities,   \* _MAX_ENTITIES
    SampleRows,    \* _SAMPLE_ROWS
    ReadLimit      \* _READ_LIMIT

Prefix(s, n) == SubSeq(s, 1, Min({n, Len(s)}))
FieldsOf(rows) == UNION {DOMAIN rows[i] : i \in DOMAIN rows}

-----------------------------------------------------------------------------
(* The Connector Generator.                                                *)

Languages == {"javascript", "php", "python", "java"}
Databases == {"postgresql", "mysql", "mongodb", "sqlserver", "sqlite"}

DefaultTables ==
    [i \in 1 .. 4 |-> LET name == <<"employees", "invoices", "inventory", "payments">>[i]
                      IN  [slug |-> name, raw |-> name, table |-> name]]

\* _DEFAULT_PORTS.
DefaultPort(database) ==
    CASE database = "postgresql" -> 5432
      [] database = "mysql"      -> 3306
      [] database = "mongodb"    -> 27017
      [] database = "sqlserver"  -> 1433
      [] database = "sqlite"     -> Null

\* _clean_entity, _clean_tables: what the wizard calls `raw` is the entity
\* `slug`, or table_<i> when nothing is left of it; an entry without a table is
\* dropped, and the defaults stand in for an empty list.
CleanTables(tables) ==
    LET named == [i \in DOMAIN tables |->
                    IF tables[i].slug # "" THEN tables[i]
                    ELSE [tables[i] EXCEPT !.slug = "table_" \o ToString(i)]]
        kept  == SelectSeq(named, LAMBDA t : t.table # "")
    IN  IF kept = <<>> THEN DefaultTables ELSE kept

\* _clean_connection, as far as a connector depends on it.
CleanPort(database, port) == IF port = Null THEN DefaultPort(database) ELSE port

\* resolve_filename, without its extension.
Filename(filename) == IF filename = "" THEN "orbit-connector" ELSE filename

\* A status (0: nothing answers) and a body (Null: no JSON).
Reply(status, body) == [status |-> status, body |-> body]
Object(ok, entities, rows) == [object |-> TRUE, ok |-> ok, entities |-> entities, rows |-> rows]
Unreachable == Reply(0, Null)

\* A call that raises without a text, as httpx's timeouts do.
Silent == Reply(-1, Null)
Refusal(status) == Reply(status, Object(FALSE, <<>>, <<>>))

\* ORBIT_TABLE_MAP: of two equal entities the later wins, and stands where the
\* earlier stood.
Entities(clean) == {clean[i].slug : i \in DOMAIN clean}
TableMap(clean) ==
    [e \in Entities(clean) |-> clean[Max({i \in DOMAIN clean : clean[i].slug = e})].table]
InOrder(clean) ==
    LET FirstOf(e) == Min({i \in DOMAIN clean : clean[i].slug = e})
    IN  SetToSortSeq(Entities(clean), LAMBDA d, e : FirstOf(d) < FirstOf(e))

\* The files.  `starts`: whether the file runs, with ORBIT_DB_PORT unset; where
\* there is no port the generator writes Python's None into it, and no language
\* reads it.  `page`: what a file answers that does not.  `breaks`: what no row
\* may hold for its body to be JSON.
File(database, clean, starts, page, entities, breaks) ==
    [database |-> database, map |-> TableMap(clean), starts |-> starts, page |-> page,
     entities |-> entities, breaks |-> breaks]

\* The entities are keys of an object, without quotes.
JavaScript(database, port, clean) ==
    File(database, clean, port # Null /\ Entities(clean) \cap Numbered = {}, Unreachable, InOrder(clean), {})

\* json_encode gives up on bytes that are no UTF-8; an error is a page.
Php(database, port, clean) ==
    File(database, clean, port # Null, Reply(500, Null), InOrder(clean), {"bytes"})

Python(database, port, clean) ==
    File(database, clean, port # Null, Unreachable, InOrder(clean), {})

\* Its own serializer leaves a line break in a string as it is.
JavaBreaks == {"lines"}

\* A public class wants the file to carry its name; the map is a HashMap.
Java(database, port, clean, filename) ==
    File(database, clean, port # Null /\ Filename(filename) = "OrbitConnector", Unreachable,
         HashOrder(Entities(clean)), JavaBreaks)

\* render(), which refuses what it does not support.
Render(language, database, port, tables, filename) ==
    LET clean == CleanTables(tables)
        given == CleanPort(database, port)
    IN  CASE language \notin Languages \/ database \notin Databases -> Null
          [] language = "javascript" /\ database \in Databases -> JavaScript(database, given, clean)
          [] language = "php"        /\ database \in Databases -> Php(database, given, clean)
          [] language = "python"     /\ database \in Databases -> Python(database, given, clean)
          [] language = "java"       /\ database \in Databases -> Java(database, given, clean, filename)

-----------------------------------------------------------------------------
(* What a host answers.                                                    *)

\* What the company's own database gives a connector: the first rows of a table
\* it has.  MongoDB has every collection.  Null: the query raises.
SqlRows(data, table, limit) == IF table \in DOMAIN data THEN Prefix(data[table], limit) ELSE Null
MongoRows(data, table, limit) == IF table \in DOMAIN data THEN Prefix(data[table], limit) ELSE <<>>
Rows(database, data, table, limit) ==
    CASE data = Null -> Null
      [] data # Null /\ database = "mongodb" -> MongoRows(data, table, limit)
      [] OTHER -> SqlRows(data, table, limit)

\* The try of the entrypoint: an entity without a table, a query that raises,
\* and the rows.
ReadAnswer(file, data, entity, limit) ==
    LET rows == IF entity \in DOMAIN file.map THEN Rows(file.database, data, file.map[entity], limit) ELSE Null
    IN  CASE rows = Null -> Refusal(500)
          [] rows # Null /\ FieldsOf(rows) \cap file.breaks # {} -> Reply(200, Null)
          [] OTHER -> Reply(200, Object(TRUE, <<>>, rows))

Authorised(host, token) == host.token = Null \/ token = host.token

\* Mutant: `_health` lists the tables instead of the entities.
AnswerTables(host, entity, limit, token) ==
    CASE ~Authorised(host, token) -> Refusal(401)
      [] Authorised(host, token) /\ entity = "_health" /\ host.kind = "generated" ->
            Reply(200, Object(TRUE, [i \in DOMAIN host.file.entities |-> host.file.map[host.file.entities[i]]], <<>>))
      [] OTHER -> ReadAnswer(host.file, host.data, entity, limit)

\* The HTTP entrypoint, the same in four languages: the token, `_health`, the
\* read.  A legacy file takes `_health` for an entity like any other.
Answer(host, entity, limit, token) ==
    CASE ~Authorised(host, token) -> Refusal(401)
      [] Authorised(host, token) /\ entity = "_health" /\ host.kind = "generated" ->
            Reply(200, Object(TRUE, host.file.entities, <<>>))
      [] OTHER -> ReadAnswer(host.file, host.data, entity, limit)

\* A URL: nothing there, a page that answers with a JSON list, or a connector.
Serve(host, entity, limit, token) ==
    CASE host = Null -> Unreachable
      [] host # Null /\ host.kind = "list" -> Reply(200, [object |-> FALSE])
      [] host # Null /\ host.kind # "list" /\ ~host.file.starts -> host.file.page
      [] OTHER -> Answer(host, entity, limit, token)

Fine(answer) == answer.status \in 1 .. 399

-----------------------------------------------------------------------------
(* Test Connection.                                                        *)

\* The tester's own _clean_tables keeps the name as it was typed.
Asked(tables) ==
    [i \in DOMAIN tables |-> [entity |-> IF tables[i].raw = "" THEN "table" ELSE tables[i].raw,
                              table |-> tables[i].table]]

Preview(entity, reachable, rows) == [entity |-> entity, reachable |-> reachable, rows |-> rows]

\* _url_table_preview.  A body that is no object has no `get`: that raises, and
\* test_connection turns it into a failure of the whole test.
Raises(answer) == Fine(answer) /\ answer.body # Null /\ ~answer.body.object
PreviewOf(entity, answer) ==
    LET good == Fine(answer) /\ answer.body # Null /\ answer.body.ok
    IN  Preview(entity, good, IF good THEN Len(answer.body.rows) ELSE 0)

\* The handlers that open the database themselves.  What they open: nothing
\* without the driver or without an answer, and SQLite creates the file it does
\* not find.
OpenedSqlite(server) == IF server = Null THEN <<>> ELSE server
Opened(database, drivers, server) ==
    CASE database \notin drivers -> Null
      [] database \in drivers /\ database = "sqlite" -> OpenedSqlite(server)
      [] OTHER -> server

\* What they read of a table: a name that is an identifier and stands for a
\* table; MongoDB takes any name and has every collection.
SqlPreview(data, entry) ==
    IF entry.table \in Identifiers /\ entry.table \in DOMAIN data
    THEN Preview(entry.entity, TRUE, Len(data[entry.table]))
    ELSE Preview(entry.entity, FALSE, 0)
MongoPreview(data, entry) ==
    Preview(entry.entity, entry.table # "", IF entry.table \in DOMAIN data THEN Len(data[entry.table]) ELSE 0)

Outcome(connected, previews) == [connected |-> connected, previews |-> previews]
DirectTest(database, drivers, server, tables) ==
    LET data  == Opened(database, drivers, server)
        asked == Asked(tables)
    IN  IF data = Null THEN Outcome(FALSE, <<>>)
        ELSE Outcome(TRUE, [i \in DOMAIN asked |-> IF database = "mongodb" THEN MongoPreview(data, asked[i])
                                                                        ELSE SqlPreview(data, asked[i])])

-----------------------------------------------------------------------------
(* ConnectorIntelligence.                                                  *)

LegacyEntities == <<"employees", "invoices", "inventory", "payments">>

\* _discover_entities: whatever goes wrong, the legacy names are tried.
Discovered(answer) == Fine(answer) /\ answer.body # Null /\ answer.body.object /\ answer.body.entities # <<>>
EntityNames(answer) ==
    Prefix(IF Discovered(answer) THEN answer.body.entities ELSE LegacyEntities, MaxEntities)

\* _KIND_NAME_HINTS and _KIND_FIELD_HINTS, in the order of the dictionaries.
Kinds == <<
    [kind |-> "invoice", names |-> {"invoice", "bill", "receivable"},
     fields |-> {"invoice_number", "due_date", "invoice_status", "amount_due"}],
    [kind |-> "inventory", names |-> {"inventory", "stock", "product", "item", "sku", "warehouse"},
     fields |-> {"quantity", "qty", "stock", "stock_level", "sku", "warehouse"}],
    [kind |-> "employee", names |-> {"employee", "staff", "payroll", "personnel", "hr_"},
     fields |-> {"salary", "hire_date", "department", "employee_id", "job_title"}],
    [kind |-> "payment", names |-> {"payment", "transaction", "receipt", "transfer", "payout"},
     fields |-> {"payment_method", "transaction_id", "payer", "payee"}] >>

\* _classify: by its name, else by the fields of the first rows; the first of
\* the best, if any hint is found.
Classify(entity, rows) ==
    LET named    == {i \in DOMAIN Kinds : Kinds[i].names \cap Words(entity) # {}}
        Hits(i)  == Cardinality(Kinds[i].fields \cap FieldsOf(Prefix(rows, 5)))
        best     == {i \in DOMAIN Kinds : Hits(i) > 0 /\ \A j \in DOMAIN Kinds : Hits(j) <= Hits(i)}
    IN  CASE named # {} -> Kinds[Min(named)].kind
          [] named = {} /\ best # {} -> Kinds[Min(best)].kind
          [] OTHER -> "generic"

\* _first_present.
FirstPresent(row, keys) ==
    LET here == {i \in DOMAIN keys : keys[i] \in DOMAIN row /\ row[keys[i]] # Null}
    IN  IF here = {} THEN Null ELSE row[keys[Min(here)]]

AmountKeys == <<"amount", "total", "total_amount", "value", "balance", "price">>
QuantityKeys == <<"quantity", "qty", "stock", "stock_level", "in_stock", "units">>
StatusKeys == <<"status", "state", "payment_status", "invoice_status">>

\* _invoice_paid and the loop of _summarize_employees: a boolean flag decides,
\* then the status, then what the flag says as text.  A status that is a boolean
\* is the text "true", or gives way to the flag.
Says(row, flags, yes, no) ==
    LET flag   == FirstPresent(row, flags)
        status == FirstPresent(row, StatusKeys)
        text   == CASE status = "True" -> "true"
                    [] status \in {Null, "False"} -> flag
                    [] OTHER -> status
    IN  CASE flag = "True" -> "yes" [] flag = "False" -> "no"
          [] flag \notin {"True", "False"} /\ text \in yes -> "yes"
          [] flag \notin {"True", "False"} /\ text \in no  -> "no"
          [] OTHER -> "unknown"

Paid(row) ==
    Says(row, <<"paid", "is_paid", "isPaid">>,
         {"paid", "true", "1", "yes", "settled", "complete", "completed", "success"},
         {"unpaid", "false", "0", "no", "pending", "overdue", "outstanding", "due", "open"})
Active(row) ==
    Says(row, <<"active", "is_active", "isActive", "employment_status">>,
         {"active", "true", "1", "yes", "employed", "current"},
         {"inactive", "false", "0", "no", "terminated", "left", "former", "resigned"})

\* The summaries, each cut down to what its findings use: how many rows the
\* finding counts, and whether it is raised to a warning.  A due date is the
\* midnight its day begins with, so that today's has passed.
Count(list, value) == Cardinality({i \in DOMAIN list : list[i] = value})
InvoiceSummary(rows) ==
    LET paid   == [i \in DOMAIN rows |-> Paid(rows[i])]
        Due(i) == FirstPresent(rows[i], <<"due_date", "due", "due_at">>)
    IN  [paid |-> Count(paid, "yes"), unpaid |-> Count(paid, "no"), unknown |-> Count(paid, "unknown"),
         overdue |-> Cardinality({i \in DOMAIN rows : paid[i] = "no" /\ Due(i) # Null /\ Due(i) <= 0})]
InventorySummary(rows) ==
    LET Quantity(i) == FirstPresent(rows[i], QuantityKeys)
        known       == {i \in DOMAIN rows : Quantity(i) # Null}
    IN  [known |-> Cardinality(known), low |-> Cardinality({i \in known : Quantity(i) <= 10})]
EmployeeSummary(rows) ==
    LET active == [i \in DOMAIN rows |-> Active(rows[i])]
    IN  [active |-> Count(active, "yes"), inactive |-> Count(active, "no"), unknown |-> Count(active, "unknown")]
AmountSummary(rows) ==
    LET known == SelectSeq(rows, LAMBDA r : FirstPresent(r, AmountKeys) # Null)
    IN  [known |-> Len(known),
         total |-> FoldSeq(LAMBDA r, sum : sum + FirstPresent(r, AmountKeys), 0, known)]

Summarise(kind, rows) ==
    CASE kind = "invoice" -> InvoiceSummary(rows)
      [] kind = "inventory" -> InventorySummary(rows)
      [] kind = "employee" -> EmployeeSummary(rows)
      [] kind \in {"payment", "generic"} -> AmountSummary(rows)

\* _read_entity, for an answer that does not raise.
ReadEntity(entity, answer) ==
    LET good == Fine(answer) /\ answer.body # Null /\ answer.body.ok
        rows == IF good THEN answer.body.rows ELSE <<>>
        kind == IF good THEN Classify(entity, rows) ELSE "unknown"
    IN  [entity |-> entity, kind |-> kind, reachable |-> good, rows |-> rows, error |-> ~good /\ answer # Silent,
         summary |-> IF good THEN Summarise(kind, rows) ELSE Null]

\* Mutant: links are looked for among all entities, with rows or without.
RelationshipsOfAll(read) ==
    LET names == {read[i].entity : i \in DOMAIN read}
    IN  {[from |-> read[i].entity, field |-> f, to |-> n] :
            i \in DOMAIN read, f \in UNION {FieldsOf(read[k].rows) : k \in DOMAIN read}, n \in names}

\* _infer_relationships: a field <name>_id of one entity with rows and another
\* with rows whose singular is that name; of two such, the later.
Relationships(read) ==
    LET full      == {i \in DOMAIN read : read[i].rows # <<>>}
        Called(s) == {j \in full : Singular(read[j].entity) = s}
        Target(f) == LET named == Called(Singular(Refers(f)))
                         exact == Called(Refers(f))
                     IN  IF named # {} THEN Max(named) ELSE IF exact # {} THEN Max(exact) ELSE 0
        links     == {<<i, f>> : i \in full, f \in UNION {FieldsOf(Prefix(read[k].rows, 5)) : k \in full}}
    IN  {[from |-> read[l[1]].entity, field |-> l[2], to |-> read[Target(l[2])].entity] :
            l \in {m \in links : /\ m[2] \in FieldsOf(Prefix(read[m[1]].rows, 5))
                                 /\ Refers(m[2]) # Null
                                 /\ Target(m[2]) \notin {0, m[1]}}}

\* _derive_findings: one of an entity with rows at the most, then what could
\* not be read, then the links.
EntityFinding(e) ==
    CASE e.rows = <<>> -> {}
      [] e.rows # <<>> /\ e.kind = "invoice" ->
            {[about |-> {e.entity}, severity |-> IF e.summary.overdue > 0 THEN "warning" ELSE "info"]}
      [] e.rows # <<>> /\ e.kind = "inventory" ->
            IF e.summary.low > 0 THEN {[about |-> {e.entity}, severity |-> "warning"]} ELSE {}
      [] e.rows # <<>> /\ e.kind = "generic" ->
            IF e.summary.known > 0 THEN {[about |-> {e.entity}, severity |-> "info"]} ELSE {}
      [] OTHER -> {[about |-> {e.entity}, severity |-> "info"]}

\* Only what failed with a text is named.
Partial(read) ==
    LET lost == {read[i].entity : i \in {j \in DOMAIN read : ~read[j].reachable /\ read[j].error}}
    IN  IF lost # {} /\ \E i \in DOMAIN read : read[i].reachable THEN lost ELSE {}

Linked(links) == IF links = {} THEN {} ELSE {[about |-> {l.from : l \in links}, severity |-> "info"]}

Reason(read, discovered) ==
    CASE \E i \in DOMAIN read : read[i].reachable -> Null
      [] ~(\E i \in DOMAIN read : read[i].reachable) /\ discovered -> "no data"
      [] OTHER -> "redeploy"

Gathered(read, discovered) ==
    [connected     |-> \E i \in DOMAIN read : read[i].reachable,
     reason        |-> Reason(read, discovered),
     discovered    |-> discovered,
     entities      |-> read,
     relationships |-> Relationships(read),
     findings      |-> Linked(Relationships(read)) \cup UNION {EntityFinding(read[i]) : i \in DOMAIN read},
     partial       |-> Partial(read)]

\* What gather() returns without a call: no URL, or none that is one.
NotConnected(reason) == [Gathered(<<>>, FALSE) EXCEPT !.reason = reason]

-----------------------------------------------------------------------------
(* The PDF of a Compile: which of its parts speak of the connector.         *)

\* _executive_summary.
Summary(connector) == IF connector.connected THEN "live" ELSE "no url"

\* render_intelligence_pdf: the section of the connected systems.  Every entity
\* has its paragraph, whether it has a text for its error or not.
Section(connector) ==
    LET Named(reachable) == {connector.entities[i].entity :
                                i \in {j \in DOMAIN connector.entities :
                                           connector.connected /\ connector.entities[j].reachable = reachable}}
    IN  [notice  |-> CASE ~connector.connected -> connector.reason
                       [] connector.connected /\ ~connector.discovered -> "redeploy"
                       [] OTHER -> "none",
         tables  |-> Named(TRUE),
         missing |-> Named(FALSE),
         links   |-> IF connector.connected THEN connector.relationships ELSE {}]

===============================================================================

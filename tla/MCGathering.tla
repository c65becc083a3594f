------------------------------ MODULE MCGathering ------------------------------
(* A small company with a connector: invoices that name customers, and a stock. *)
EXTENDS Gathering

MCIdentifiers == {"ar", "clients", "stock", "staff", "wages"}
MCNumbered == {"2024_sales"}
MCHashOrder(names) == SetToSeq(names)
MCWords(name) ==
    CASE name = "invoices" -> {"invoice"}
      [] name = "inventory" -> {"inventory"}
      [] name = "employees" -> {"employee"}
      [] name = "payments" -> {"payment"}
      [] OTHER -> {}
MCSingular(name) == CASE name = "customers" -> "customer" [] name = "invoices" -> "invoice" [] OTHER -> name
MCRefers(field) == IF field = "customer_id" THEN "customer" ELSE Null

Table(slug, raw, table) == [slug |-> slug, raw |-> raw, table |-> table]
Invoices == Table("invoices", "invoices", "ar")
Customers == Table("customers", "Customers", "clients")
People == Table("people", "people", "staff")
Pay == Table("payments", "payments", "wages")
Unnamed == Table("", "", "stock")
Listed == Table("health", "_health", "stock")

Invoice(status, due) == [amount |-> 5, status |-> status, due_date |-> due, customer_id |-> "c1"]
MCServer == [ar |-> <<Invoice("unpaid", -2), Invoice("paid", Null)>>,
             clients |-> <<[id |-> "c1", value |-> 3]>>,
             staff |-> <<[salary |-> 9, active |-> "False"], [salary |-> 8, status |-> "current"]>>,
             stock |-> <<[qty |-> 4, sku |-> "s1"]>>,
             wages |-> <<>>]
Lines == [MCServer EXCEPT !.ar = <<[amount |-> 5, lines |-> "two"]>>]
Bytes == [MCServer EXCEPT !.clients = <<[value |-> 5, bytes |-> "image"]>>]

Host(kind, file, data, token) == [kind |-> kind, file |-> file, data |-> data, token |-> token]
MCHosts ==
    {Host("generated", Render("python", "postgresql", Null, <<Invoices, Customers, Unnamed>>, ""), MCServer, Null),
     Host("generated", Render("javascript", "mongodb", Null, <<Invoices, Customers, People, Pay>>, ""), MCServer, "secret"),
     Host("generated", Render("javascript", "mysql", Null, <<Table("2024_sales", "2024 sales", "ar")>>, ""), MCServer, Null),
     Host("generated", Render("java", "sqlserver", Null, <<Customers, Invoices>>, "OrbitConnector"), Lines, Null),
     Host("generated", Render("php", "mysql", 3307, <<Invoices, Customers>>, ""), Bytes, Null),
     Host("generated", Render("php", "sqlite", Null, <<Invoices>>, ""), MCServer, Null),
     Host("legacy", Render("python", "sqlite", 1, <<>>, ""), [invoices |-> <<Invoice("open", 1)>>], Null),
     [kind |-> "list"]}

Saving(language, url) == [kind |-> "save", admin |-> TRUE, language |-> language, database |-> "mysql", url |-> url]
Test(database, url, token, tables, host) ==
    [kind |-> "test", admin |-> TRUE, database |-> database, url |-> url, token |-> token,
     tables |-> tables, host |-> host]
MCJobs ==
    {[kind |-> "compile"],
     [kind |-> "generate", admin |-> TRUE, language |-> "java", database |-> "sqlite", port |-> Null,
      tables |-> <<Invoices, Invoices>>, filename |-> ""],
     Saving("php", "blank"), Saving("php", "invalid"), Saving("java", "valid"),
     [kind |-> "forget", admin |-> TRUE], [kind |-> "forget", admin |-> FALSE],
     Test("postgresql", "valid", Null, <<Invoices, Listed, Customers>>, FALSE),
     Test("mongodb", "valid", "secret", <<People>>, FALSE),
     Test("mysql", Null, Null, <<Invoices, Unnamed>>, TRUE),
     Test("mongodb", "blank", Null, <<Pay>>, TRUE),
     Test("sqlite", "invalid", Null, <<Pay>>, TRUE),
     Test("oracle", "valid", Null, <<Pay>>, TRUE)}
MCRemembered == {[language |-> "python", database |-> "postgresql", url |-> "valid"]}
MCDrivers == {"postgresql", "mysql", "sqlite"}

===============================================================================

-------------------------------- MODULE Catalog --------------------------------
(***************************************************************************)
(* What a company's workspace is computed from: the catalog of financial   *)
(* providers merged from the country packages, the badges the Blueprint    *)
(* puts on a catalog, the Visual JSON Mapper and the Schema Engine.        *)
(* Nothing here keeps state.                                               *)
(*                                                                         *)
(* A JSON payload is the function from the dotted paths it resolves to     *)
(* their values; a value is [type, number, text].                          *)
(***************************************************************************)
EXTENDS Integers, Sequences, FiniteSets

CONSTANTS
    Null,
    Folders,              \* country_packages/ in name order: [code, active, complete, needs, providers]
    KernelVersion,
    Integrations,         \* business systems: name -> [type, fields]
    Apps,                 \* the marketplace: app_key -> category
    Canonical,            \* CANONICAL_FIELDS
    FinancialCategories,  \* business type -> recommended provider categories
    SystemTypes,          \* business type -> recommended system types
    AppCategories         \* priority -> recommended app categories

-----------------------------------------------------------------------------
(* Catalogs and recommendations.                                           *)

\* load_all_packages: a folder whose manifest is incomplete or asks for a newer
\* Kernel is left out, and takes no other down with it.
Packages == SelectSeq(Folders, LAMBDA f : f.complete /\ f.needs <= KernelVersion)

\* The active packages that name a provider, in load order.
Offering(provider) == SelectSeq(Packages, LAMBDA k : k.active /\ provider \in DOMAIN k.providers)

Custom == [category |-> "custom", fields |-> {"api_key"}, live |-> FALSE,
           countries |-> {Packages[k].code : k \in {n \in DOMAIN Packages : Packages[n].active}}]

\* _build_catalog: the first package to name a provider describes it, the later
\* ones add their country; "custom" is offered everywhere.
ProviderCatalog ==
    LET Named == UNION {DOMAIN Packages[k].providers : k \in {n \in DOMAIN Packages : Packages[n].active}}
    IN  [provider \in Named \cup {"custom"} |->
            IF provider = "custom" THEN Custom
            ELSE LET entry == Head(Offering(provider)).providers[provider]
                 IN  [category |-> entry.category, fields |-> entry.fields, live |-> entry.live,
                      countries |-> {Offering(provider)[k].code : k \in DOMAIN Offering(provider)}]]

\* catalog_for_country: no country sees every provider.
CatalogFor(country) ==
    {provider \in DOMAIN ProviderCatalog :
        country = Null \/ country \in ProviderCatalog[provider].countries}

\* recommended_financial_categories, recommended_system_types: a business type
\* without an entry, or no Blueprint, recommends nothing.
RecommendedFor(blueprint, table) ==
    IF blueprint # Null /\ blueprint.business_type \in DOMAIN table
    THEN table[blueprint.business_type] ELSE {}

\* relevant_app_categories.
RelevantApps(blueprint) ==
    IF blueprint = Null THEN {}
    ELSE UNION {AppCategories[p] : p \in blueprint.priorities \cap DOMAIN AppCategories}

-----------------------------------------------------------------------------
(* Data mappings.                                                          *)

\* validate_field_rules raises.
RulesRefused(rules) ==
    \/ \E k \in DOMAIN rules : rules[k].source = "" \/ rules[k].target \notin Canonical
    \/ \E k, n \in DOMAIN rules : k # n /\ rules[k].target = rules[n].target

\* apply_mapping: the sources that resolve reach their targets, the others warn.
Mapped(payload, rules) ==
    LET found == {rules[k] : k \in {n \in DOMAIN rules : rules[n].source \in DOMAIN payload}}
    IN  [canonical |-> [t \in {rule.target : rule \in found} |->
                            payload[(CHOOSE rule \in found : rule.target = t).source]],
         warnings  |-> {rules[k].source : k \in DOMAIN rules} \ DOMAIN payload]

-----------------------------------------------------------------------------
(* Event schemas.                                                          *)

\* validate_schema_input raises.
SchemaRefused(schema) ==
    \/ schema.name = ""
    \/ schema.required \cap schema.optional # {}
    \/ \E rule \in schema.rules : \/ rule.field \notin schema.required \cup schema.optional
                                  \/ rule.type \notin {"string", "number", "boolean"}

\* What one rule of a schema says against a value.
Broken(rule, value) ==
    IF value.type # rule.type THEN {"type"}
    ELSE {e \in {"min", "max", "enum"} :
             \/ e = "min" /\ rule.type = "number" /\ rule.min # Null /\ value.number < rule.min
             \/ e = "max" /\ rule.type = "number" /\ rule.max # Null /\ value.number > rule.max
             \/ e = "enum" /\ rule.enum # {} /\ value.text \notin rule.enum}

\* validate_event: a missing field or a broken rule is an error, an undeclared
\* field only a warning; a rule on an absent field is not looked at.
Validated(payload, schema) ==
    LET errors == {<<f, "missing">> : f \in schema.required \ DOMAIN payload}
                      \cup UNION {{rule.field} \X Broken(rule, payload[rule.field]) :
                                      rule \in {r \in schema.rules : r.field \in DOMAIN payload}}
    IN  [valid |-> errors = {}, errors |-> errors,
         warnings |-> DOMAIN payload \ (schema.required \cup schema.optional)]

===============================================================================

------------------------------- MODULE Analysis -------------------------------
(***************************************************************************)
(* What the program computes from the rows of ledger_transactions: the     *)
(* Rule Engine's category and anomaly, the Financial Graph's figures, and  *)
(* the three families of conclusions drawn from them - ai/insights.py, the *)
(* Intelligence Engine's findings, replay/simulator.py - which repeat each *)
(* other's queries instead of sharing them.                                *)
(*                                                                         *)
(* A ledger is a sequence of rows in the order of their insertion.  Time   *)
(* is counted in windows of 30 days: a row of this month is "within 30     *)
(* days", one of the month before "within 60 but not 30".  Amounts are     *)
(* whole, so rounding to cents is the identity; the health score, the only *)
(* number rounded to less, is computed exactly.                            *)
(***************************************************************************)
EXTENDS Integers, Sequences, SequencesExt

CONSTANT Null    \* SQL's NULL, Python's None

\* The elements of a sequence that are at some of its indices, in their order.
Picked(s, at) ==
    [n \in 1 .. Cardinality(at) |-> s[CHOOSE i \in at : Cardinality(at \cap 1 .. i) = n]]

\* A list without the parts a condition left out.
Present(list) == Picked(list, {i \in DOMAIN list : list[i] # Null})

-----------------------------------------------------------------------------
(* The Rule Engine.                                                        *)

\* _CATEGORY_KEYWORDS, in the order of the dictionary.
Keywords == <<
    <<"revenue",   {"payment received", "invoice", "sale", "customer", "till"}>>,
    <<"salary",    {"salary", "payroll", "wages"}>>,
    <<"supplier",  {"supplier", "wholesale", "restock", "inventory"}>>,
    <<"rent",      {"rent", "lease"}>>,
    <<"utilities", {"electricity", "kplc", "water", "internet", "airtime", "data bundle"}>>,
    <<"transport", {"fuel", "uber", "bolt", "matatu", "transport"}>>,
    <<"transfer",  {"mpesa", "m-pesa", "mobile money", "transfer", "till"}>>,
    <<"tax",       {"kra", "tax", "vat", "levy"}>> >>

\* A description is the set of keywords its text contains; the first category
\* that knows one of them has it.
Categorize(description) ==
    LET hits == {i \in DOMAIN Keywords : Keywords[i][2] \cap description # {}}
    IN  IF hits = {} THEN "uncategorized" ELSE Keywords[Min(hits)][1]

\* More than three times the recent average outflow, and only an outflow.
Flagged(direction, amount, average) ==
    /\ direction = "outflow"
    /\ average.count > 0
    /\ amount * average.count > 3 * average.total

-----------------------------------------------------------------------------
(* The Financial Graph's queries.  A window is this month and the months    *)
(* before it; `allowed` is the Blueprint's allowed_categories, Null for all. *)

Within(row, now, months) == row.month > now - months

Permits(allowed, category) == allowed = Null \/ category \in allowed

\* The rows of a direction, those of them within 30 days, and SUM(amount).
Rows(ledger, direction) == {i \in DOMAIN ledger : ledger[i].direction = direction}
Recent(ledger, direction, now) == {i \in Rows(ledger, direction) : Within(ledger[i], now, 1)}
Total(ledger, rows) == SumFunctionOnSet([i \in DOMAIN ledger |-> ledger[i].amount], rows)

\* Mutant: the total is taken of the month before.
OutflowBefore(ledger, now, allowed) ==
    Total(ledger, {i \in Rows(ledger, "outflow") : /\ ledger[i].month = now - 1
                                                  /\ Permits(allowed, ledger[i].category)})

\* The outflow within 30 days.
Outflow(ledger, now, allowed) ==
    Total(ledger, {i \in Recent(ledger, "outflow", now) : Permits(allowed, ledger[i].category)})

\* AVG of the outflow within 30 days, as the pair it divides.
RecentAverage(ledger, now) ==
    LET rows == Recent(ledger, "outflow", now)
    IN  [total |-> Total(ledger, rows), count |-> Cardinality(rows)]

\* The two statements of balance_summary, and what it makes of them.
Totals(ledger) ==
    Total(ledger, Rows(ledger, "inflow")) - Total(ledger, Rows(ledger, "outflow"))

\* What the statement says of the last 30 days.
Window(ledger, now) ==
    LET rows == {i \in DOMAIN ledger : Within(ledger[i], now, 1)}
    IN  [inflow |-> Total(ledger, Recent(ledger, "inflow", now)),
         outflow |-> Outflow(ledger, now, Null),
         anomalies |-> Cardinality({i \in rows : ledger[i].anomaly}),
         transactions |-> Cardinality(rows)]

Summary(totals, window) ==
    [balance |-> totals, outflow |-> window.outflow, net |-> window.inflow - window.outflow,
     anomalies |-> window.anomalies, transactions |-> window.transactions]

\* round() of a fraction that is not negative: half to even.
Round(n, d) ==
    LET q == n \div d
        r == n % d
    IN  IF 2 * r < d \/ (2 * r = d /\ q % 2 = 0) THEN q ELSE q + 1

\* health_score: cash trend (34), runway (33), stability (33), over one
\* denominator.  Six months of burn and no burn at all both earn the runway.
Score(summary) ==
    LET burn   == Max({1, 2 * summary.outflow})
        volume == Max({1, summary.transactions})
        unit   == burn * volume
        trend  == IF summary.net > 0 THEN 34 ELSE IF summary.net = 0 THEN 17 ELSE 0
        runway == IF summary.outflow = 0 THEN 33 * unit
                  ELSE Min({33 * unit, Max({0, 11 * summary.balance * volume})})
        stable == Max({0, 33 * unit - 100 * summary.anomalies * burn})
    IN  Min({100, Round(trend * unit + runway + stable, unit)})

Label(score) ==
    CASE score >= 70 -> "strong" [] score \in 40 .. 69 -> "watch" [] OTHER -> "at risk"

\* ORDER BY occurred_at DESC: the indices of rows, each behind as many as come
\* before it; of rows of one date the later inserted first (the query does not say).
Later(ledger, i, j) ==
    \/ ledger[i].month > ledger[j].month
    \/ ledger[i].month = ledger[j].month /\ i > j
Latest(ledger, rows) ==
    [n \in 1 .. Cardinality(rows) |->
        CHOOSE i \in rows : Cardinality({j \in rows : Later(ledger, j, i)}) = n - 1]

\* timeline: a page of them.
Timeline(ledger, limit, offset) ==
    SubSeq(Latest(ledger, DOMAIN ledger), offset + 1, Min({Len(ledger), offset + limit}))

-----------------------------------------------------------------------------
(* Findings: ai/insights.py and analysis_engine.py.                          *)

Finding(id, kind, severity, data) == [id |-> id, kind |-> kind, severity |-> severity, data |-> data]

HealthFinding(summary) ==
    LET label == Label(Score(summary))
    IN  Finding("health-score", "health",
                CASE label = "strong" -> "info" [] label = "watch" -> "warning"
                  [] label = "at risk" -> "critical",
                Score(summary))

\* The statement of _flow_trend: the net of this month, and of whatever a file
\* dates later, and the net of the month before.
Flow(ledger, now) ==
    LET Before(direction) == {i \in Rows(ledger, direction) : ledger[i].month = now - 1}
    IN  [current |-> Total(ledger, Recent(ledger, "inflow", now))
                       - Total(ledger, Recent(ledger, "outflow", now)),
         previous |-> Total(ledger, Before("inflow")) - Total(ledger, Before("outflow"))]

TrendFinding(flow) ==
    IF flow.current = 0 /\ flow.previous = 0 THEN Null
    ELSE LET improved == IF flow.previous = 0 THEN flow.current > 0 ELSE flow.current >= flow.previous
         IN  Finding("flow-trend", "trend", IF improved THEN "info" ELSE "warning", flow)

\* GROUP BY category ORDER BY total DESC LIMIT 1: one of the largest, or no row.
TopCategory(ledger, now, allowed) ==
    LET outflow  == Recent(ledger, "outflow", now)
        Spent(c) == Total(ledger, {i \in outflow : ledger[i].category = c})
        spends   == {c \in {ledger[i].category : i \in outflow} : Permits(allowed, c)}
        top      == CHOOSE c \in spends : \A d \in spends : Spent(c) >= Spent(d)
    IN  IF spends = {} THEN Null ELSE [category |-> top, total |-> Spent(top)]

\* total_out is a later statement; the share is total / total_out.
SpendFinding(top, total_out) ==
    IF top = Null THEN Null
    ELSE Finding("top-category", "spend", "info",
                 [category |-> top.category, total |-> top.total, of |-> total_out])

\* The five latest flagged rows: the Intelligence Engine's within 30 days, those
\* of the insights (months = Null) of any age.
Anomalies(ledger, now, months, allowed) ==
    LET flagged == {i \in DOMAIN ledger : /\ ledger[i].anomaly
                                          /\ months = Null \/ Within(ledger[i], now, months)
                                          /\ Permits(allowed, ledger[i].category)}
    IN  SubSeq(Latest(ledger, flagged), 1, Min({5, Cardinality(flagged)}))

AnomalyFinding(flagged) ==
    IF flagged = <<>> THEN Null ELSE Finding("anomalies", "anomaly", "warning", flagged)

\* ForecastingEngine.project: the average day of this month, held
\* constant, in thirtieths.
Projected(summary, days) == 30 * summary.balance + summary.net * days

ForecastFinding(summary) ==
    LET projected == Projected(summary, 30)
    IN  Finding("forecast-30d", "forecast", IF projected < 0 THEN "critical" ELSE "info", projected)

\* ai/insights.py reports on everything, in this order.
Insights(summary, health, flow, top, total_out, flagged) ==
    Present(<<HealthFinding(health), TrendFinding(flow), SpendFinding(top, total_out),
              AnomalyFinding(flagged), ForecastFinding(summary)>>)

-----------------------------------------------------------------------------
(* What the Blueprint makes of them: recommendations.py, reasoning_engine.py *)
(* and recommendation_engine.py.                                            *)

\* PRIORITY_INSIGHT_IDS.
InsightIds(priority) ==
    CASE priority = "cash_flow_visibility"  -> {"flow-trend", "forecast-30d"}
      [] priority = "expense_control"       -> {"top-category"}
      [] priority = "fraud_and_risk_alerts" -> {"anomalies"}
      [] priority = "growth_forecasting"    -> {"forecast-30d"}
      [] OTHER                              -> {}

RelevantIds(priorities) == UNION {InsightIds(p) : p \in priorities}

\* A stable sort: health first, then what a priority asks for, then the rest.
Prioritise(findings, priorities) ==
    LET first == {i \in DOMAIN findings : findings[i].id = "health-score"}
        asked == {i \in DOMAIN findings \ first : findings[i].id \in RelevantIds(priorities)}
        other == DOMAIN findings \ (first \cup asked)
    IN  IF priorities = {} THEN findings
        ELSE Picked(findings, first) \o Picked(findings, asked) \o Picked(findings, other)

\* "Allowed Questions": a capability that is not enabled reaches no finding.
Gate(findings, enabled) ==
    IF enabled = Null THEN findings
    ELSE Picked(findings, {i \in DOMAIN findings : findings[i].kind \in enabled})

\* _derive: advice, from the summary and the forecast as much as the findings.
Recommendations(summary, findings) ==
    LET Has(id) == \E i \in DOMAIN findings : findings[i].id = id
    IN  {r \in {"reduce_top_outflow", "review_anomalies", "address_forecast_shortfall"} :
            \/ r = "reduce_top_outflow" /\ summary.net < 0 /\ Has("top-category")
            \/ r = "review_anomalies" /\ Has("anomalies")
            \/ r = "address_forecast_shortfall" /\ Projected(summary, 30) < 0}

-----------------------------------------------------------------------------
(* Replay.                                                                  *)

\* _parse_scenario.
Scenario(kind, amount, day_offset, frequency_days) ==
    [kind |-> kind, amount |-> amount, day_offset |-> day_offset,
     frequency_days |-> Max({1, frequency_days})]

\* _scenario_delta_for_day.
Delta(s, day) ==
    LET falls == IF s.kind = "one_time" THEN day = s.day_offset
                 ELSE day >= s.day_offset /\ (day - s.day_offset) % s.frequency_days = 0
    IN  IF falls THEN s.amount ELSE 0

\* simulate: the balance after every day of the horizon, in thirtieths ...
Balances(summary, scenarios, horizon) ==
    LET deltas(day) == SumFunction([i \in DOMAIN scenarios |-> Delta(scenarios[i], day)])
        balance[day \in 0 .. horizon] ==
            IF day = 0 THEN Projected(summary, 0)
            ELSE balance[day - 1] + summary.net + 30 * deltas(day)
    IN  balance

\* ... its last and its lowest, the days of the lowest and of the first below
\* zero, and the days that are shown.
Outcome(balances, horizon) ==
    LET lowest == Min({balances[d] : d \in 0 .. horizon})
        below  == {d \in 0 .. horizon : balances[d] < 0}
        step   == Max({1, horizon \div 30})
    IN  [ending_balance |-> balances[horizon],
         min_balance |-> lowest,
         min_balance_day |-> Min({d \in 0 .. horizon : balances[d] = lowest}),
         goes_negative_on |-> IF below = {} THEN Null ELSE Min(below),
         series |-> {<<d, balances[d]>> : d \in {e \in 0 .. horizon : e % step = 0 \/ e = horizon}}]

Horizon(asked) == Max({1, Min({365, asked})})
Simulate(summary, scenarios, asked) ==
    Outcome(Balances(summary, scenarios, Horizon(asked)), Horizon(asked))

===============================================================================

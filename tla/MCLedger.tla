------------------------------- MODULE MCLedger -------------------------------
(* Small instances of Ledger.  Amounts are chosen around the rule's factor of   *)
(* three: 4 is flagged after an average of 1, and 3 is not.  A line of a file is *)
(* dated in the future.                                                         *)
EXTENDS Ledger

Entry(direction, amount, description, counterparty, age) ==
    [direction |-> direction, amount |-> amount, description |-> description,
     counterparty |-> counterparty, age |-> age, category |-> Null]

Spent == Entry("outflow", 1, {"rent"}, Null, 0)
Large == Entry("outflow", 4, {"till", "fuel"}, "bolt", 0)
Earned == Entry("inflow", 2, {"sale"}, "acme", 0)
Dated == Entry("outflow", 3, {}, Null, 1)
Sideways == Entry("transfer", 1, {}, Null, 0)

Line(amount, direction, age) ==
    [direction |-> direction, amount |-> amount, description |-> {"wages"}, age |-> age,
     parses |-> TRUE, short |-> FALSE]
Statement(lines) == [lines |-> lines, header |-> TRUE]

Create(entry) == [kind |-> "create", row |-> entry]
Import(file) == [kind |-> "import", file |-> file]
Connect == [kind |-> "connect"]
Definition(condition) ==
    [kind |-> "define", condition |-> condition, trigger |-> "transaction.recorded"]
Automate(threshold) == [kind |-> "automate", threshold |-> threshold]

MCJobs ==
    {Create(Earned), Create(Large), Create(Sideways), Connect,
     Import(Statement(<<Line(-1, "", 0), Line(3, "refund", 0), Line(4, "outflow", -1)>>)),
     Import(Statement(<<Line(1, "", 0), Line(0, "", 0)>>)),
     Definition([field |-> "category", op |-> "neq", value |-> "rent"]),
     Automate(2)}
MCStanding ==
    <<[condition |-> [field |-> "amount", op |-> "gte", value |-> 3],
       trigger |-> "transaction.recorded", id |-> "threshold", blueprint |-> TRUE],
      [condition |-> Null, trigger |-> "transaction.recorded", id |-> "all", blueprint |-> FALSE],
      [condition |-> [field |-> "category", op |-> "gt", value |-> 1],
       trigger |-> "transaction.recorded", id |-> "never", blueprint |-> FALSE]>>
MCHistory == <<Spent, Dated>>
MCPlans == {"dashboard", "insights", "reasoning", "replay.create"}
MCBlueprints ==
    {Null, [allowed |-> {"rent", "revenue"}, enabled |-> {"health", "spend", "anomaly"},
            priorities |-> {"expense_control"}]}

===============================================================================

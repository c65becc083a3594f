---------------------------- MODULE MCIntelligence ----------------------------
(* A small instance of Intelligence: every transaction gives cause to one       *)
(* recommendation, whose window is longer than a tick.                          *)
EXTENDS Intelligence

CONSTANT Long

MCFound == [d \in 0 .. MaxTransactions |-> IF d = 0 THEN {} ELSE Alerts]
MCWindow == [a \in Alerts |-> Long]

===============================================================================

----------------------------- MODULE BlueprintLog -----------------------------
(***************************************************************************)
(* What the version history promises: an append-only log of Blueprints.    *)
(* Publishing appends a content, restoring appends a content of the log a  *)
(* second time, and nothing ever rewrites or removes an entry.             *)
(***************************************************************************)
EXTENDS Naturals, Sequences

CONSTANT Contents

VARIABLE log

Init == log = <<>>

Publish == \E c \in Contents : log' = Append(log, c)

Restore(i) == log' = Append(log, log[i])

Next == Publish \/ \E i \in DOMAIN log : Restore(i)

Spec == Init /\ [][Next]_log

=============================================================================

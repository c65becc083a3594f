----------------------------- MODULE MCBlueprint -----------------------------
(***************************************************************************)
(* Small instances of Blueprint: two concurrent /execute calls and one     *)
(* loading task over payloads of which the validator makes two contents,   *)
(* one that asks for an automation and one that does not, and payloads it  *)
(* refuses, each for another reason.  The tasks are model values; a run    *)
(* with liveness cannot permute them, so no symmetry is declared.          *)
(***************************************************************************)
EXTENDS Blueprint

MCStrip == [w \in {"retail", " retail ", "bakery", "expense_control", "health", "spend", "rent", " rent", " ", ""} |->
    CASE w = " retail " -> "retail" [] w = " rent" -> "rent" [] w = " " -> "" [] OTHER -> w]

MCCapabilities == <<"health", "spend">>

\* The least that is accepted, and the same with everything given.
Least == [business_type |-> "retail", priorities |-> Null, threshold |-> Null, notify |-> Missing,
          digest |-> Missing, capabilities |-> Null, categories |-> Null]
Full  == [business_type |-> " retail ", priorities |-> <<>>, threshold |-> Null, notify |-> TRUE,
          digest |-> TRUE, capabilities |-> <<"health", "spend">>, categories |-> <<>>]

\* One that notifies, of every transaction: its threshold is 0.
Notify == [business_type |-> "retail", priorities |-> <<"expense_control", "expense_control">>, threshold |-> 0,
           notify |-> Missing, digest |-> FALSE, capabilities |-> <<"health">>, categories |-> <<" rent", "rent">>]

Unaccepted ==
    {[Least EXCEPT !.business_type = b] : b \in {Null, "bakery", " "}}
    \cup {[Least EXCEPT !.priorities = p] : p \in {Malformed, <<"rent">>}}
    \cup {[Least EXCEPT !.threshold = t] : t \in {Malformed, -1}}
    \cup {[Least EXCEPT !.capabilities = c] : c \in {Malformed, <<>>, <<"rent">>}}
    \cup {[Least EXCEPT !.categories = c] : c \in {Malformed, <<"rent", " ">>}}

MCPayloads == {Least, Full, Notify} \cup Unaccepted

=============================================================================

------------------------------- MODULE Validator -------------------------------
(***************************************************************************)
(* validate_blueprint_input: what a Blueprint payload must be, and what is *)
(* published of it.  A restore sends an old snapshot through it again.     *)
(*                                                                         *)
(* A payload has a value for each key the validator looks at.  Null stands *)
(* for JSON's null, for a key that is not there, and for the empty text    *)
(* where the two are treated alike; Malformed for a value of a wrong type. *)
(* Thresholds are integers: "nan" and "inf", which float() reads too, are  *)
(* left out.                                                               *)
(***************************************************************************)
EXTENDS Integers, Sequences

CONSTANTS
    Null, Malformed, Missing,
    Strip,          \* str.strip on the texts that occur; "" is the blank one
    BusinessTypes,  \* VALID_BUSINESS_TYPES
    Priorities,     \* VALID_PRIORITIES
    Capabilities    \* VALID_CAPABILITIES, sorted

Words == DOMAIN Strip
Payload ==
    [business_type : {Null} \cup Words, priorities : {Null, Malformed} \cup Seq(Words),
     threshold     : {Null, Malformed} \cup Int, notify : {Missing} \cup BOOLEAN,
     digest        : {Missing} \cup BOOLEAN, capabilities : {Null, Malformed} \cup Seq(Words),
     categories    : {Null, Malformed} \cup Seq(Words)]

Drawn(list, from) == \A i \in DOMAIN list : list[i] \in from

ASSUME WordsAssumption ==
    /\ \A w \in Words : Strip[w] \in Words /\ Strip[Strip[w]] = Strip[w]
    /\ Capabilities # <<>> /\ Capabilities \in Seq(Words)

ASSUME ValuesAssumption ==
    /\ Null # Malformed /\ Missing \notin BOOLEAN
    /\ Null \notin Int /\ Malformed \notin Int
    /\ Null \notin Words
    /\ Null \notin Seq(Words) /\ Malformed \notin Seq(Words)

-----------------------------------------------------------------------------
\* The lists a payload may give: None of them, or only names that are known.
Known(list, from) == list # Malformed /\ (list # Null => Drawn(list, from))

\* Everything the validator raises BlueprintValidationError for.
Accepts(payload) ==
    /\ payload.business_type # Null /\ Strip[payload.business_type] \in BusinessTypes
    /\ Known(payload.priorities, Priorities)
    /\ payload.threshold # Malformed
    /\ payload.threshold # Null => payload.threshold >= 0
    /\ Known(payload.capabilities, {Capabilities[i] : i \in DOMAIN Capabilities})
    /\ payload.capabilities # <<>>
    /\ Known(payload.categories, {w \in Words : Strip[w] # ""})

Given(value, otherwise) == IF value = Missing THEN otherwise ELSE value

\* What it returns: texts stripped, and defaults for what was not given.
Validated(payload) ==
    [business_type |-> Strip[payload.business_type],
     priorities    |-> IF payload.priorities = Null THEN <<>> ELSE payload.priorities,
     threshold     |-> payload.threshold,
     notify        |-> Given(payload.notify, TRUE),
     digest        |-> Given(payload.digest, TRUE),
     capabilities  |-> IF payload.capabilities = Null THEN Capabilities ELSE payload.capabilities,
     categories    |-> IF payload.categories \in {Null, <<>>} THEN Null
                       ELSE [i \in DOMAIN payload.categories |-> Strip[payload.categories[i]]]]

===============================================================================

----------------------------- MODULE PipelineSteps -----------------------------
(***************************************************************************)
(* Conditions and steps of a pipeline (pipeline/pipeline.py).              *)
(*                                                                         *)
(* An object is a function from field names to JSON values; a value is a   *)
(* list of texts, a text, a number or null, or the field is missing.       *)
(* Steps change the four fields of FIELDS; conditions look at any field.   *)
(***************************************************************************)
EXTENDS SequencesExt

CONSTANTS
    Fields,         \* the names of fields: those of FIELDS, and others
    Conditions,     \* the conditions that occur, with all their parts
    Substrings      \* pairs of a text and a text it occurs in

Text(v)  == [kind |-> "text", items |-> <<v>>]
List(s)  == [kind |-> "list", items |-> s]
Missing  == [kind |-> "missing", items |-> <<>>]
Number   == [kind |-> "number", items |-> <<>>]
Null     == [kind |-> "null", items |-> <<>>]

IsValue(v) ==
    /\ v \in {Missing, Number, Null, List(v.items)} \cup {Text(x) : x \in ToSet(v.items)}
    /\ v.items \in Seq(ToSet(v.items))

-----------------------------------------------------------------------------
(* What start-up accepts: Action, FIELDS, _SUPPORTED_CONDITIONS.             *)

FIELDS ==
    [labels              |-> [kind |-> "list",   actions |-> {"add", "delete"}],
     object_marking_refs |-> [kind |-> "list",   actions |-> {"add", "delete"}],
     confidence          |-> [kind |-> "scalar", actions |-> {"set", "delete"}],
     created_by_ref      |-> [kind |-> "scalar", actions |-> {"set", "delete"}]]

ASSUME FieldsAssumption == DOMAIN FIELDS \subseteq Fields

SupportedConditions == {"eq", "not_eq", "contains", "not_contains"}

IsGroup(c) == c.type \in {"and", "or"}

\* The parts of a group are conditions, and groups are finite trees: in any set of
\* conditions there is one that has no part in it.  Others compare a field,
\* whichever: _validate_condition does not look at its name.
ASSUME ConditionsAssumption ==
    /\ \A c \in Conditions : IsGroup(c) => c.parts \in Seq(Conditions)
    /\ \A c \in Conditions : ~IsGroup(c) /\ c.type # "none" => c.field \in Fields
    /\ \A some \in SUBSET Conditions : some # {} =>
         \E c \in some : IsGroup(c) => \A i \in 1..Len(c.parts) : c.parts[i] \notin some

ValidCondition(condition) ==
    LET valid[c \in Conditions] ==
          LET parts == [i \in 1..Len(c.parts) |-> valid[c.parts[i]]] IN
            CASE c.type = "none" -> TRUE
              [] IsGroup(c)      -> \A i \in 1..Len(c.parts) : parts[i]
              [] OTHER           -> c.type \in SupportedConditions
    IN  valid[condition]

ValidStep(step) ==
    /\ step.field \in DOMAIN FIELDS
    /\ step.action \in FIELDS[step.field].actions
    /\ ValidCondition(step.condition)

-----------------------------------------------------------------------------
(* _evaluate_condition: "true", "false", or "raises".                        *)

Truth(b) == IF b THEN "true" ELSE "false"

\* all() stops at the first part that is not true, any() at the first that is not false.
FirstOther(results, usual) ==
    LET others == {i \in 1..Len(results) : results[i] # usual} IN
      IF others = {} THEN usual
      ELSE results[CHOOSE i \in others : \A j \in others : i <= j]

\* "value in field": an item of a list, or part of a text; a missing field is "".
Within(v, current) ==
    \/ current.kind = "list" /\ v \in ToSet(current.items)
    \/ current.kind = "missing" /\ <<v, "">> \in Substrings
    \/ current.kind = "text" /\ <<v, current.items[1]>> \in Substrings

Test(object, c) ==
    LET current == object[c.field] IN
      CASE c.type = "eq"     -> Truth(current = Text(c.value))
        [] c.type = "not_eq" -> Truth(current # Text(c.value))
        [] c.type \in {"contains", "not_contains"} ->
             IF current.kind \in {"number", "null"} THEN "raises"
             ELSE Truth(Within(c.value, current) = (c.type = "contains"))
        [] OTHER -> "false"

Evaluate(object, condition) ==
    LET value[c \in Conditions] ==
          LET parts == [i \in 1..Len(c.parts) |-> value[c.parts[i]]] IN
            CASE c.type = "none" -> "true"
              [] c.type = "and"  -> FirstOther(parts, "true")
              [] c.type = "or"   -> FirstOther(parts, "false")
              [] OTHER           -> Test(object, c)
    IN  value[condition]

-----------------------------------------------------------------------------
(* The actions.  A run of steps is an object, and whether one has raised.    *)

\* Mistake: "add" expects the list to be there.
WrongShapeMissing(step, current) ==
    /\ FIELDS[step.field].kind = "list" /\ step.action \in {"add", "delete"}
    /\ current.kind # "list"

WrongShape(step, current) ==
    \/ step.action = "add" /\ current.kind \notin {"list", "missing", "null"}
    \/ /\ step.action = "delete" /\ FIELDS[step.field].kind = "list"
       /\ current.kind \notin {"list", "missing"}

Perform(step, current) ==
    CASE step.action = "set" -> Text(step.value)
      [] step.action = "add" ->
           IF current.kind # "list" THEN List(<<step.value>>)
           ELSE IF step.value \in ToSet(current.items) THEN current
           ELSE List(Append(current.items, step.value))
      [] step.action = "delete" ->
           IF FIELDS[step.field].kind # "list" THEN Missing
           ELSE IF step.value \notin ToSet(current.items) THEN current
           ELSE List(RemoveFirst(current.items, step.value))

Apply(run, step) ==
    LET test == Evaluate(run.object, step.condition)
        current == run.object[step.field]
    IN  IF run.raised \/ test = "false" THEN run
        ELSE IF test = "raises" \/ WrongShape(step, current)
        THEN [run EXCEPT !.raised = TRUE]
        ELSE [run EXCEPT !.object = [@ EXCEPT ![step.field] = Perform(step, current)]]

\* The steps in their order, on one object; list.remove takes out one occurrence.
RunSteps(object, steps) ==
    FoldLeft(Apply, [raised |-> FALSE, object |-> object], steps)
=============================================================================

------------------------------ MODULE RefResolver ------------------------------
(***************************************************************************)
(* Refs to readable values and back (pipeline/refs.py), with the query     *)
(* behind it (find_by_refs of DatabaseBucketRepository).                   *)
(*                                                                         *)
(* Two fields hold refs: the author, a text, and the markings, a list.     *)
(***************************************************************************)
EXTENDS PipelineSteps

CONSTANTS
    StixIds,            \* the texts that look like a STIX id
    TlpValues,          \* TLP_VALUES_BY_ID: the values of the well-known ids
    PlatformId(_, _),   \* the id ingestion gives to a value of a type
    Letters(_)          \* what Python iterates over when it is given a text

Author == "created_by_ref"
Markings == "object_marking_refs"

-----------------------------------------------------------------------------
(* find_by_refs: the oldest row a ref matches, in the readable buckets.      *)

Oldest(found) == CHOOSE r \in found : \A s \in found : r.id <= s.id

\* Mistake: the look-up covers all buckets.
MatchesAnywhere(rows, readable, type, ref) ==
    {r \in rows : r.type = type /\ (r.stix_id = ref \/ ref \in r.other)}

Matches(rows, readable, type, ref) ==
    {r \in rows :
       /\ r.bucket \in readable /\ r.type = type
       /\ r.stix_id = ref \/ ref \in r.other}

FindByRefs(rows, readable, type, refs) ==
    [ref \in {ref \in refs : Matches(rows, readable, type, ref) # {}} |->
       Oldest(Matches(rows, readable, type, ref)).value]

-----------------------------------------------------------------------------
(* prefetch: the refs of a batch that need a look-up.                        *)

\* "object.get(MARKINGS_FIELD) or []", iterated.
Iterated(v) == IF v.kind = "text" THEN Letters(v.items[1]) ELSE v.items

\* The refs of a field, in their order; an author that is not a STIX id is none.
Refs(object, field) ==
    LET v == object[field] IN
      IF field = Markings THEN Iterated(v)
      ELSE IF v.kind = "text" /\ v.items[1] \in StixIds THEN <<v.items[1]>> ELSE <<>>

RefsOf(objects, field) ==
    UNION {{Refs(o, field)[i] : i \in 1..Len(Refs(o, field))} : o \in objects}

AuthorRefs(objects)  == RefsOf(objects, Author)
MarkingRefs(objects) == RefsOf(objects, Markings) \ DOMAIN TlpValues

\* A number cannot be iterated.
PrefetchRaises(objects) == \E o \in objects : o[Markings].kind = "number"

-----------------------------------------------------------------------------
(* to_values                                                                 *)

Distinct(s) ==
    FoldLeft(LAMBDA acc, v : IF v \in ToSet(acc) THEN acc ELSE Append(acc, v), <<>>, s)

\* A ref that has no value there is kept.
Value(ref, known) == IF ref \in DOMAIN known THEN known[ref] ELSE ref

\* Mistake: the readable name of a TLP marking must have been ingested.
MarkingValueIngested(ref, markings) == Value(ref, markings)

MarkingValue(ref, markings) ==
    IF ref \in DOMAIN TlpValues THEN TlpValues[ref] ELSE Value(ref, markings)

ToValues(object, authors, markings) ==
    [f \in DOMAIN object |->
       CASE f = Author /\ Refs(object, f) # <<>> -> Text(Value(Refs(object, f)[1], authors))
         [] f = Markings /\ Refs(object, f) # <<>> ->
              List(Distinct([i \in 1..Len(Refs(object, f)) |->
                               MarkingValue(Refs(object, f)[i], markings)]))
         [] OTHER -> object[f]]

\* originals: where a value of a field was read from (setdefault: the first).
Originals(object, authors, markings, field, value) ==
    {i \in 1..Len(Refs(object, field)) :
       LET ref == Refs(object, field)[i] IN
         IF field = Author
         THEN ref \in DOMAIN authors /\ authors[ref] = value
         ELSE /\ ref \in DOMAIN TlpValues \cup DOMAIN markings
              /\ MarkingValue(ref, markings) = value}

-----------------------------------------------------------------------------
(* to_refs                                                                   *)

\* Mistake: every value gets its platform id.
RefForPlatform(value, type, source, originals) ==
    IF value \in StixIds THEN value ELSE PlatformId(type, value)

\* A ref that is kept; the ref the value was read from; or a new one.
RefFor(value, type, source, originals) ==
    IF value \in StixIds THEN value
    ELSE IF originals # {} THEN source[CHOOSE i \in originals : \A j \in originals : i <= j]
    ELSE PlatformId(type, value)

\* "source" is the object the values of "object" were read from.
ToRefs(object, source, authors, markings) ==
    LET ref(f, type, v) ==
          RefFor(v, type, Refs(source, f), Originals(source, authors, markings, f, v))
    IN  [f \in DOMAIN object |->
           CASE f = Author /\ object[f].kind = "text" ->
                  Text(ref(f, "identity", object[f].items[1]))
             [] f = Markings /\ object[f].kind = "list" ->
                  List(Distinct([i \in 1..Len(object[f].items) |->
                                   ref(f, "marking-definition", object[f].items[i])]))
             [] OTHER -> object[f]]
=============================================================================

--------------------------- MODULE PipelineExecution ---------------------------
(***************************************************************************)
(* A worker loads its pipelines and runs one of them on a batch            *)
(* (execute_pipeline, with the resolver of _resolver_for).  The refs of    *)
(* the batch are looked up by two queries; other transactions may commit   *)
(* identities and markings before, between and after them.                 *)
(*                                                                         *)
(* What becomes of the results is the matter of PipelineWorker.            *)
(***************************************************************************)
EXTENDS PipelineManager, RefResolver

CONSTANTS
    Pending,    \* the batches acquire_entities may take from a bucket
    Tables,     \* identities and markings that may be stored at first
    Late        \* those that may be stored in the meantime

ASSUME TablesAssumption ==
    \A table \in Tables \cup {Late} : \A r \in table : r.bucket \in Buckets /\ r.id \in Nat

ASSUME StepsAssumption ==
    \A c \in Configs : \A p \in Pipelines(c) :
      /\ p.steps \in Seq(ToSet(p.steps))
      /\ \A step \in ToSet(p.steps) : step.condition \in Conditions

ASSUME PendingAssumption ==
    \A b \in Buckets : \A objects \in Pending[b] :
      /\ objects \in Seq(ToSet(objects))
      /\ \A object \in ToSet(objects) :
           /\ object = [f \in Fields |-> object[f]]
           /\ \A f \in Fields : IsValue(object[f])

VARIABLES
    rows,       \* committed identities and markings
    stage,      \* "idle", "authors", "markings", "run", "done" or "failed"
    pipeline,   \* the pipeline that runs
    batch,      \* the objects it runs on
    authors,    \* what the resolver has found, by ref
    markings,
    results     \* the objects for the sinks

executionVars == <<rows, stage, pipeline, batch, authors, markings, results>>
vars == <<managerVars, executionVars>>

Nothing == [ref \in {} |-> ref]

-----------------------------------------------------------------------------

Init ==
    /\ ManagerInit
    /\ rows \in Tables
    /\ stage = "idle"
    /\ pipeline = [role |-> "none", steps |-> <<>>]
    /\ batch = <<>>
    /\ authors = Nothing /\ markings = Nothing
    /\ results = <<>>

\* A server commits an identity or a marking.
Store ==
    /\ phase = "ready" /\ stage \in {"authors", "markings", "run"}
    /\ \E r \in Late \ rows : rows' = rows \cup {r}
    /\ UNCHANGED <<managerVars, stage, pipeline, batch, authors, markings, results>>

Acquire ==
    /\ phase = "ready" /\ stage = "idle"
    /\ \E i \in 1..Len(config.pipelines) :
         /\ pipeline' = config.pipelines[i]
         /\ \E source \in config.pipelines[i].sources : batch' \in Pending[source]
    /\ stage' = "authors"
    /\ UNCHANGED <<managerVars, rows, authors, markings, results>>

Objects == {batch[i] : i \in 1..Len(batch)}

\* _resolver_for: the buckets the pipeline's role can read.
Readable == config.roles[pipeline.role].can_read

\* prefetch, up to its first query.
FindAuthors ==
    /\ stage = "authors"
    /\ IF PrefetchRaises(Objects)
       THEN stage' = "failed" /\ authors' = authors
       ELSE /\ stage' = "markings"
            /\ authors' = FindByRefs(rows, Readable, "identity", AuthorRefs(Objects))
    /\ UNCHANGED <<managerVars, rows, pipeline, batch, markings, results>>

FindMarkings ==
    /\ stage = "markings"
    /\ stage' = "run"
    /\ markings' =
         FindByRefs(rows, Readable, "marking-definition", MarkingRefs(Objects))
    /\ UNCHANGED <<managerVars, rows, pipeline, batch, authors, results>>

\* One object of the batch: to_values, the steps, to_refs.
Run(object, steps, found, marked) ==
    RunSteps(ToValues(object, found, marked), steps)

Result(object, steps, found, marked) ==
    ToRefs(Run(object, steps, found, marked).object, object, found, marked)

\* The loop of execute_pipeline does not await: one object that raises fails them all.
Execute ==
    /\ stage = "run"
    /\ IF \E i \in 1..Len(batch) : Run(batch[i], pipeline.steps, authors, markings).raised
       THEN stage' = "failed" /\ results' = results
       ELSE /\ stage' = "done"
            /\ results' = [i \in 1..Len(batch) |->
                             Result(batch[i], pipeline.steps, authors, markings)]
    /\ UNCHANGED <<managerVars, rows, pipeline, batch, authors, markings>>

Next ==
    \/ ManagerNext /\ UNCHANGED executionVars
    \/ Store \/ Acquire \/ FindAuthors \/ FindMarkings \/ Execute

Spec == Init /\ [][Next]_vars

-----------------------------------------------------------------------------
(* What a pipeline means: its steps act on sets of readable values.          *)

Types ==
    [f \in {Author, Markings} |-> IF f = Author THEN "identity" ELSE "marking-definition"]

\* A field as a kind and a set of values.
Read(object) ==
    [f \in DOMAIN object |->
       [kind |-> object[f].kind,
        values |-> {CASE f = Author   -> Value(x, authors)
                      [] f = Markings -> IF x \in DOMAIN TlpValues THEN TlpValues[x]
                                         ELSE Value(x, markings)
                      [] OTHER        -> x : x \in ToSet(object[f].items)}]]

\* What a comparison says of a field.
Compares(current, c) ==
    LET equal  == current.kind = "text" /\ c.value \in current.values
        within == \/ current.kind = "list" /\ c.value \in current.values
                  \/ current.kind = "missing" /\ <<c.value, "">> \in Substrings
                  \/ /\ current.kind = "text"
                     /\ \E t \in current.values : <<c.value, t>> \in Substrings
    IN  CASE c.type = "eq"       -> equal
          [] c.type = "not_eq"   -> ~equal
          [] c.type = "contains" -> within
          [] OTHER               -> ~within

Holds(read, condition) ==
    LET held[c \in Conditions] ==
          LET parts == [i \in 1..Len(c.parts) |-> held[c.parts[i]]] IN
            CASE c.type = "none" -> TRUE
              [] c.type = "and"  -> \A i \in 1..Len(c.parts) : parts[i]
              [] c.type = "or"   -> \E i \in 1..Len(c.parts) : parts[i]
              [] OTHER           -> Compares(read[c.field], c)
    IN  held[condition]

Meant(read, step) ==
    LET current == read[step.field]
        isList  == FIELDS[step.field].kind = "list"
        becomes(k, s) == [read EXCEPT ![step.field] = [kind |-> k, values |-> s]]
    IN  IF ~Holds(read, step.condition) THEN read
        ELSE CASE step.action = "set" -> becomes("text", {step.value})
               [] step.action = "add" -> becomes("list", current.values \cup {step.value})
               [] step.action = "delete" /\ isList ->
                    becomes(current.kind, current.values \ {step.value})
               [] OTHER -> becomes("missing", {})

AllMeant(read, steps) == FoldLeft(Meant, read, steps)

\* A value that has no ref among the originals stands for its platform id.
Canonical(read, words) ==
    [f \in DOMAIN read |->
       IF f \notin DOMAIN Types THEN read[f]
       ELSE [kind |-> read[f].kind,
             values |-> {IF x \in words \ StixIds THEN PlatformId(Types[f], x) ELSE x :
                           x \in read[f].values}]]

\* The texts of an object and of the steps.
RefTexts(object) == UNION {ToSet(object[f].items) : f \in DOMAIN Types \cap DOMAIN object}
StepTexts(steps) == {steps[k].value : k \in 1..Len(steps)}
Words(object, steps) == RefTexts(object) \cup StepTexts(steps)

NoRepetition(s) == \A i, j \in 1..Len(s) : s[i] = s[j] => i = j

\* The fields a condition looks into.
Sought(condition) ==
    LET sought[c \in Conditions] ==
          LET parts == [i \in 1..Len(c.parts) |-> sought[c.parts[i]]] IN
            CASE IsGroup(c) -> UNION {parts[i] : i \in 1..Len(c.parts)}
              [] c.type \in {"contains", "not_contains"} -> {c.field}
              [] OTHER -> {}
    IN  sought[condition]

\* A field that the step takes for a list and that is none (null may be added to), or
\* a number or null that its condition looks into.
UnfitFor(object, step) ==
    LET kind == object[step.field].kind IN
      \/ /\ FIELDS[step.field].kind = "list" /\ kind \notin {"list", "missing"}
         /\ kind = "null" => step.action = "delete"
      \/ \E f \in Sought(step.condition) : object[f].kind \in {"number", "null"}

\* Or markings that cannot be iterated.
Unfit(object, steps) ==
    \/ object[Markings].kind = "number"
    \/ \E k \in 1..Len(steps) : UnfitFor(object, steps[k])

\* Markings that are a list of STIX ids, and an author that is one.
GoodRefs(object) ==
    /\ object[Markings].kind # "text"
    /\ ToSet(object[Author].items) \cup ToSet(object[Markings].items) \subseteq StixIds

-----------------------------------------------------------------------------
(* What refs and names rest on, of the intel and the pipelines of a server.  *)

Storable == Late \cup UNION Tables

StoredUnder(row, type, ref) == row.type = type /\ (row.stix_id = ref \/ ref \in row.other)

Configured == UNION {Pipelines(c) : c \in Configs}
AllSteps == UNION {ToSet(p.steps) : p \in Configured}
Received == UNION {ToSet(objects) : objects \in UNION {Pending[b] : b \in Buckets}}

\* Every author and marking, and every value of a step.
TextsReceived == UNION {RefTexts(o) : o \in Received}
TextsWritten == UNION {StepTexts(p.steps) : p \in Configured}
Texts == TextsReceived \cup TextsWritten

NoIds(known) == \A ref \in DOMAIN known : known[ref] \notin StixIds

\* Names of identities and markings do not look like STIX ids: a pipeline takes a
\* value that does for the ref itself.
NamesAreNoIds ==
    /\ NoIds(TlpValues)
    /\ \A r \in Storable : r.value \notin StixIds

\* Platform ids of what occurs look like STIX ids, and nothing else has one as its id.
PlatformIdsAreUnique ==
    \A f \in DOMAIN Types : \A v \in Texts \ StixIds :
      LET id == PlatformId(Types[f], v) IN
        /\ id \in StixIds
        /\ \A r \in Storable : StoredUnder(r, Types[f], id) => r.value = v
        /\ id \in DOMAIN TlpValues => TlpValues[id] = v

\* A step that writes an author or a marking names it: the steps after it see its id,
\* otherwise, until the result is read again.
StepsWriteNames ==
    \A s \in AllSteps :
      s.field \in DOMAIN Types /\ s.action \in {"set", "add"} /\ s.value \in StixIds =>
        /\ s.value \notin DOMAIN TlpValues
        /\ \A r \in Storable : ~StoredUnder(r, Types[s.field], s.value)

-----------------------------------------------------------------------------

\* Types, and one result for each object of a batch that did not fail.
TypeOK ==
    /\ ManagerTypeOK
    /\ \A r \in rows : r.bucket \in Buckets
    /\ stage \in {"idle", "authors", "markings", "run", "done", "failed"}
    /\ stage # "idle" => phase = "ready" /\ pipeline \in Pipelines(config)
    /\ DOMAIN results = IF stage = "done" THEN 1..Len(batch) ELSE {}

\* The results mean what the steps say about sets of readable values: lists as
\* sets, conditions on names, and nothing lost by going from refs to values and
\* back.  (Of objects that repeat no label, of which delete takes out one, whose
\* markings are not a text, which is taken apart, and whose author is not a list, of
\* which nothing is looked up.)
ActsOnMeanings ==
    stage = "done" =>
      \A i \in 1..Len(batch) :
        LET words == Words(batch[i], pipeline.steps)
            meant == AllMeant(Read(batch[i]), pipeline.steps)
        IN  (/\ NoRepetition(batch[i].labels.items)
             /\ batch[i][Markings].kind # "text" /\ batch[i][Author].kind # "list")
              => Canonical(Read(results[i]), words) = Canonical(meant, words)

\* What makes a batch fail, and so holds up its source for ever, is in one of its
\* objects as it was received: no step makes an object unfit for a later one, and
\* neither refs nor the intel at hand do.
FailsForCause ==
    stage = "failed" => \E i \in 1..Len(batch) : Unfit(batch[i], pipeline.steps)

\* Intel the role cannot read, and the other objects of the batch, influence
\* nothing: each result is what the object alone becomes when only rows of
\* readable buckets exist (of those that are committed, which ones depends on when
\* each query was made).
NonInterference ==
    stage = "done" =>
      \E early \in SUBSET {r \in rows : r.bucket \in Readable} :
      \E late \in SUBSET {r \in rows : r.bucket \in Readable} :
        \A i \in 1..Len(batch) :
          results[i] =
            Result(batch[i], pipeline.steps,
              FindByRefs(early, Buckets, "identity", AuthorRefs({batch[i]})),
              FindByRefs(late, Buckets, "marking-definition", MarkingRefs({batch[i]})))

\* No ref is invented: a ref in a result was in the object, or a step put its
\* value there.  A field no step addresses comes back byte for byte, unless two of
\* its refs have one readable value.  (Of objects whose refs are STIX ids.)
OriginalRefs ==
    stage = "done" =>
      \A i \in 1..Len(batch), f \in DOMAIN Types : GoodRefs(batch[i]) =>
        LET steps == {pipeline.steps[k] : k \in 1..Len(pipeline.steps)}
            addressed == {s \in steps : s.field = f}
            added == {s.value : s \in {s \in addressed : s.action \in {"set", "add"}}}
        IN  /\ ToSet(results[i][f].items) \subseteq
                 ToSet(batch[i][f].items) \cup added \cup {PlatformId(Types[f], v) : v \in added}
            /\ (/\ addressed = {}
                /\ Cardinality(Read(batch[i])[f].values) = Len(batch[i][f].items))
                 => results[i][f] = batch[i][f]
=============================================================================

----------------------- MODULE PipelineExecution_proofs -----------------------
(***************************************************************************)
(* One batch through a pipeline, for every configuration, table and batch, *)
(* whatever is stored in between.  Four theorems beside the types: intel   *)
(* the pipeline's role cannot read influences none of its results, no      *)
(* pipeline invents a ref, a result means what the steps say, and a batch  *)
(* that fails was received with the cause.                                 *)
(*                                                                         *)
(* For the first the steps are opaque: an object and the values of its own *)
(* refs determine the result, and those values are the ones a table of     *)
(* readable rows gives.  For the second the steps are followed, by         *)
(* induction on their number.  For the third each step is compared with    *)
(* what it does to sets of values, each condition with what it says of     *)
(* them, and a name is followed to its ref and back.  For the last only    *)
(* the kinds of the fields are followed.                                   *)
(***************************************************************************)
EXTENDS PipelineExecution, PipelineManager_proofs, Induction, FiniteSetTheorems

ReadableRows == {r \in rows : r.bucket \in Readable}

FoundIn(table, type, refs) == FindByRefs(table, Buckets, type, refs)

StageInv ==
    /\ \A r \in rows : r.bucket \in Buckets
    /\ stage \in {"idle", "authors", "markings", "run", "done", "failed"}
    /\ stage # "idle" => phase = "ready" /\ pipeline \in Pipelines(config)
    /\ stage # "done" => results = <<>>

AuthorsInv ==
    stage \in {"markings", "run", "done"} =>
      \E table \in SUBSET ReadableRows : authors = FoundIn(table, "identity", AuthorRefs(Objects))

MarkingsInv ==
    stage \in {"run", "done"} =>
      \E table \in SUBSET ReadableRows :
        markings = FoundIn(table, "marking-definition", MarkingRefs(Objects))

ResultsInv ==
    stage = "done" =>
      results = [i \in 1..Len(batch) |-> Result(batch[i], pipeline.steps, authors, markings)]

XInv == IInv /\ StageInv /\ AuthorsInv /\ MarkingsInv /\ ResultsInv

-----------------------------------------------------------------------------

\* Two look-ups that say the same of one ref.
Agree(ref, f, g) ==
    /\ ref \in DOMAIN f <=> ref \in DOMAIN g
    /\ ref \in DOMAIN f => f[ref] = g[ref]

\* They say the same of all refs of an object.
AgreeOn(o, a1, a2, m1, m2) ==
    /\ \A i \in 1..Len(Refs(o, Author)) : Agree(Refs(o, Author)[i], a1, a2)
    /\ \A i \in 1..Len(Refs(o, Markings)) :
         Refs(o, Markings)[i] \in DOMAIN TlpValues \/ Agree(Refs(o, Markings)[i], m1, m2)

\* A look-up restricted to readable buckets is a look-up in the readable rows.
LEMMA FilterRows ==
    ASSUME NEW table, NEW readable, NEW type, NEW refs,
           \A r \in table : r.bucket \in Buckets
    PROVE  FindByRefs(table, readable, type, refs)
             = FoundIn({r \in table : r.bucket \in readable}, type, refs)
  <1>1. ASSUME NEW ref
        PROVE  Matches(table, readable, type, ref)
                 = Matches({r \in table : r.bucket \in readable}, Buckets, type, ref)
    BY DEF Matches
  <1> DEFINE rest == {r \in table : r.bucket \in readable}
  <1>2. {ref \in refs : Matches(table, readable, type, ref) # {}}
          = {ref \in refs : Matches(rest, Buckets, type, ref) # {}}
    BY <1>1
  <1>3. [ref \in {ref \in refs : Matches(table, readable, type, ref) # {}} |->
            Oldest(Matches(table, readable, type, ref)).value]
          = [ref \in {ref \in refs : Matches(rest, Buckets, type, ref) # {}} |->
               Oldest(Matches(rest, Buckets, type, ref)).value]
    BY <1>1, <1>2, Zenon
  <1> QED BY <1>3 DEF FindByRefs, FoundIn

\* What is found for a ref depends on no other ref that is looked up.
LEMMA LookUpsAgree ==
    ASSUME NEW table, NEW type, NEW all, NEW one, NEW ref \in one, one \subseteq all
    PROVE  Agree(ref, FoundIn(table, type, all), FoundIn(table, type, one))
  BY DEF FoundIn, FindByRefs, Agree

\* The values of an object's own refs determine what the steps see.
LEMMA SameValues ==
    ASSUME NEW o, NEW a1, NEW a2, NEW m1, NEW m2,
           AgreeOn(o, a1, a2, m1, m2),
           Refs(o, Author) # <<>> => 1 \in 1..Len(Refs(o, Author))
    PROVE  ToValues(o, a1, m1) = ToValues(o, a2, m2)
  <1>1. Refs(o, Author) # <<>> => Value(Refs(o, Author)[1], a1) = Value(Refs(o, Author)[1], a2)
    BY DEF AgreeOn, Value, Agree
  <1>2. \A i \in 1..Len(Refs(o, Markings)) :
          MarkingValue(Refs(o, Markings)[i], m1) = MarkingValue(Refs(o, Markings)[i], m2)
    BY DEF AgreeOn, MarkingValue, Value, Agree
  <1>3. [i \in 1..Len(Refs(o, Markings)) |-> MarkingValue(Refs(o, Markings)[i], m1)]
          = [i \in 1..Len(Refs(o, Markings)) |-> MarkingValue(Refs(o, Markings)[i], m2)]
    BY <1>2
  <1>4. Author # Markings
    BY DEF Author, Markings
  <1> QED BY <1>1, <1>3, <1>4 DEF ToValues

\* They also determine which refs come back for a value.
LEMMA SameOriginals ==
    ASSUME NEW o, NEW a1, NEW a2, NEW m1, NEW m2, NEW f \in {Author, Markings}, NEW v,
           AgreeOn(o, a1, a2, m1, m2)
    PROVE  Originals(o, a1, m1, f, v) = Originals(o, a2, m2, f, v)
  <1>0. Author # Markings
    BY DEF Author, Markings
  <1>1. CASE f = Author
    BY <1>1 DEF AgreeOn, Originals, Agree
  <1>2. CASE f = Markings
    BY <1>0, <1>2 DEF AgreeOn, Originals, Agree, MarkingValue, Value
  <1> QED BY <1>1, <1>2

\* So they determine the result.
LEMMA SameResult ==
    ASSUME NEW o, NEW steps, NEW a1, NEW a2, NEW m1, NEW m2,
           AgreeOn(o, a1, a2, m1, m2)
    PROVE  Result(o, steps, a1, m1) = Result(o, steps, a2, m2)
  <1>1. Refs(o, Author) # <<>> => 1 \in 1..Len(Refs(o, Author))
    BY DEF Refs, Author, Markings
  <1>2. Run(o, steps, a1, m1) = Run(o, steps, a2, m2)
    BY <1>1, SameValues DEF Run
  <1>3. ASSUME NEW f \in {Author, Markings}, NEW v
        PROVE  Originals(o, a1, m1, f, v) = Originals(o, a2, m2, f, v)
    BY SameOriginals
  <1>4. ASSUME NEW x
        PROVE  ToRefs(x, o, a1, m1) = ToRefs(x, o, a2, m2)
    BY <1>3 DEF ToRefs
  <1> QED BY <1>2, <1>4 DEF Result

\* The refs of one object are among those of its batch.
LEMMA OwnRefs ==
    ASSUME NEW objects, NEW o \in objects, NEW f
    PROVE  /\ \A i \in 1..Len(Refs(o, f)) : Refs(o, f)[i] \in RefsOf({o}, f)
           /\ RefsOf({o}, f) \subseteq RefsOf(objects, f)
  BY DEF RefsOf

\* A result of a batch is what its object becomes alone.
LEMMA AloneInTheBatch ==
    ASSUME NEW objects, NEW o \in objects, NEW steps, NEW early, NEW late
    PROVE  Result(o, steps, FoundIn(early, "identity", AuthorRefs(objects)),
                    FoundIn(late, "marking-definition", MarkingRefs(objects)))
             = Result(o, steps, FoundIn(early, "identity", AuthorRefs({o})),
                    FoundIn(late, "marking-definition", MarkingRefs({o})))
  <1> DEFINE a1 == FoundIn(early, "identity", AuthorRefs(objects))
             a2 == FoundIn(early, "identity", AuthorRefs({o}))
             m1 == FoundIn(late, "marking-definition", MarkingRefs(objects))
             m2 == FoundIn(late, "marking-definition", MarkingRefs({o}))
  <1>1. \A i \in 1..Len(Refs(o, Author)) : Agree(Refs(o, Author)[i], a1, a2)
    BY OwnRefs, LookUpsAgree DEF AuthorRefs
  <1>2. ASSUME NEW i \in 1..Len(Refs(o, Markings)), Refs(o, Markings)[i] \notin DOMAIN TlpValues
        PROVE  Agree(Refs(o, Markings)[i], m1, m2)
    <2>1. /\ Refs(o, Markings)[i] \in MarkingRefs({o})
          /\ MarkingRefs({o}) \subseteq MarkingRefs(objects)
      BY <1>2, OwnRefs DEF MarkingRefs
    <2> QED BY <2>1, LookUpsAgree
  <1> HIDE DEF a1, a2, m1, m2
  <1>3. \A i \in 1..Len(Refs(o, Markings)) :
          Refs(o, Markings)[i] \in DOMAIN TlpValues \/ Agree(Refs(o, Markings)[i], m1, m2)
    BY <1>2
  <1>4. Result(o, steps, a1, m1) = Result(o, steps, a2, m2)
    <2>1. AgreeOn(o, a1, a2, m1, m2)
      BY <1>1, <1>3 DEF AgreeOn
    <2> QED BY <2>1, SameResult
  <1> QED BY <1>4 DEF a1, a2, m1, m2

-----------------------------------------------------------------------------

LEMMA ExecutionInit == Init => XInv
  <1> SUFFICES ASSUME Init PROVE XInv
    OBVIOUS
  <1>1. IInv
    BY InitInv DEF Init
  <1> QED BY <1>1, TablesAssumption
          DEF Init, XInv, StageInv, AuthorsInv, MarkingsInv, ResultsInv

\* The loading of pipelines leaves what an execution relies on.
LEMMA ManagerMove ==
    ASSUME XInv, ManagerNext, UNCHANGED executionVars
    PROVE  XInv'
  <1>1. IInv'
    BY ManagerInductive DEF XInv
  <1>2. config' = config /\ (phase = "ready" => phase' = "ready")
    BY DEF ManagerNext, VisitRoot, VisitSink, Return, Routed, Load, Ready
  <1>3. /\ rows' = rows /\ stage' = stage /\ pipeline' = pipeline /\ batch' = batch
        /\ authors' = authors /\ markings' = markings /\ results' = results
    BY DEF executionVars
  <1>4. StageInv'
    BY <1>2, <1>3 DEF XInv, StageInv
  <1>5. ReadableRows' = ReadableRows /\ Objects' = Objects
    BY <1>2, <1>3 DEF ReadableRows, Readable, Objects
  <1>6. AuthorsInv' /\ MarkingsInv' /\ ResultsInv'
    BY <1>3, <1>5 DEF XInv, AuthorsInv, MarkingsInv, ResultsInv
  <1> QED BY <1>1, <1>4, <1>6 DEF XInv

\* The steps of an execution leave the search alone.
LEMMA SearchUntouched ==
    ASSUME XInv, UNCHANGED managerVars
    PROVE  IInv'
  BY ManagerInductive DEF XInv

\* Rows that are stored later add to what is readable.
LEMMA StoreMove ==
    ASSUME XInv, Store
    PROVE  XInv'
  <1>1. /\ UNCHANGED managerVars /\ config' = config /\ phase' = phase
        /\ stage' = stage /\ pipeline' = pipeline /\ batch' = batch
        /\ authors' = authors /\ markings' = markings /\ results' = results
    BY DEF Store, managerVars
  <1>2. PICK r \in Late : rows' = rows \cup {r}
    BY DEF Store
  <1>3. IInv'
    BY <1>1, SearchUntouched
  <1>4. StageInv'
    BY <1>1, <1>2, TablesAssumption DEF XInv, StageInv
  <1>5. ReadableRows \subseteq ReadableRows' /\ Objects' = Objects
    BY <1>1, <1>2 DEF ReadableRows, Readable, Objects
  <1>6. AuthorsInv' /\ MarkingsInv' /\ ResultsInv'
    BY <1>1, <1>5 DEF XInv, AuthorsInv, MarkingsInv, ResultsInv
  <1> QED BY <1>3, <1>4, <1>6 DEF XInv

LEMMA AcquireMove ==
    ASSUME XInv, Acquire
    PROVE  XInv'
  <1>1. /\ UNCHANGED managerVars /\ config' = config /\ phase' = phase /\ phase = "ready"
        /\ stage = "idle" /\ stage' = "authors" /\ rows' = rows /\ results' = results
    BY DEF Acquire, managerVars
  <1>2. IInv'
    BY <1>1, SearchUntouched
  <1>3. pipeline' \in Pipelines(config)
    BY DEF Acquire, Pipelines
  <1>4. StageInv'
    BY <1>1, <1>3 DEF XInv, StageInv
  <1> QED BY <1>1, <1>2, <1>4 DEF XInv, AuthorsInv, MarkingsInv, ResultsInv

LEMMA FindAuthorsMove ==
    ASSUME XInv, FindAuthors
    PROVE  XInv'
  <1>1. /\ UNCHANGED managerVars /\ config' = config /\ phase' = phase
        /\ stage = "authors" /\ stage' \in {"failed", "markings"} /\ rows' = rows
        /\ pipeline' = pipeline /\ batch' = batch /\ markings' = markings /\ results' = results
        /\ stage' = "markings" =>
             authors' = FindByRefs(rows, Readable, "identity", AuthorRefs(Objects))
    BY DEF FindAuthors, managerVars
  <1>2. IInv' /\ StageInv'
    BY <1>1, SearchUntouched DEF XInv, StageInv
  <1>3. ReadableRows' = ReadableRows /\ Objects' = Objects
    BY <1>1 DEF ReadableRows, Readable, Objects
  <1>4. FindByRefs(rows, Readable, "identity", AuthorRefs(Objects))
          = FoundIn(ReadableRows, "identity", AuthorRefs(Objects))
    BY FilterRows DEF XInv, StageInv, ReadableRows
  <1>5. AuthorsInv'
    BY <1>1, <1>3, <1>4 DEF AuthorsInv
  <1> QED BY <1>1, <1>2, <1>5 DEF XInv, MarkingsInv, ResultsInv

LEMMA FindMarkingsMove ==
    ASSUME XInv, FindMarkings
    PROVE  XInv'
  <1>1. /\ UNCHANGED managerVars /\ config' = config /\ phase' = phase
        /\ stage = "markings" /\ stage' = "run" /\ rows' = rows
        /\ pipeline' = pipeline /\ batch' = batch /\ authors' = authors /\ results' = results
        /\ markings' = FindByRefs(rows, Readable, "marking-definition", MarkingRefs(Objects))
    BY DEF FindMarkings, managerVars
  <1>2. IInv' /\ StageInv'
    BY <1>1, SearchUntouched DEF XInv, StageInv
  <1>3. ReadableRows' = ReadableRows /\ Objects' = Objects
    BY <1>1 DEF ReadableRows, Readable, Objects
  <1>4. FindByRefs(rows, Readable, "marking-definition", MarkingRefs(Objects))
          = FoundIn(ReadableRows, "marking-definition", MarkingRefs(Objects))
    BY FilterRows DEF XInv, StageInv, ReadableRows
  <1>5. AuthorsInv' /\ MarkingsInv'
    BY <1>1, <1>3, <1>4 DEF XInv, AuthorsInv, MarkingsInv
  <1> QED BY <1>1, <1>2, <1>5 DEF XInv, ResultsInv

LEMMA ExecuteMove ==
    ASSUME XInv, Execute
    PROVE  XInv'
  <1>1. /\ UNCHANGED managerVars /\ config' = config /\ phase' = phase
        /\ stage = "run" /\ stage' \in {"failed", "done"} /\ rows' = rows
        /\ pipeline' = pipeline /\ batch' = batch /\ authors' = authors /\ markings' = markings
        /\ stage' = "failed" => results' = results
        /\ stage' = "done" =>
             results' = [i \in 1..Len(batch) |->
                           Result(batch[i], pipeline.steps, authors, markings)]
    BY DEF Execute, managerVars
  <1>2. IInv' /\ StageInv'
    BY <1>1, SearchUntouched DEF XInv, StageInv
  <1>3. ReadableRows' = ReadableRows /\ Objects' = Objects
    BY <1>1 DEF ReadableRows, Readable, Objects
  <1>4. AuthorsInv' /\ MarkingsInv' /\ ResultsInv'
    BY <1>1, <1>3 DEF XInv, AuthorsInv, MarkingsInv, ResultsInv
  <1> QED BY <1>2, <1>4 DEF XInv

LEMMA ExecutionInductive == XInv /\ [Next]_vars => XInv'
  <1> SUFFICES ASSUME XInv, [Next]_vars PROVE XInv'
    OBVIOUS
  <1>1. CASE Next
    BY <1>1, ManagerMove, StoreMove, AcquireMove, FindAuthorsMove, FindMarkingsMove,
       ExecuteMove DEF Next
  <1>2. CASE UNCHANGED vars
    <2>1. UNCHANGED managerVars /\ UNCHANGED executionVars
      BY <1>2 DEF vars
    <2>2. IInv'
      BY <2>1, SearchUntouched
    <2>3. StageInv' /\ AuthorsInv' /\ MarkingsInv' /\ ResultsInv'
      BY <2>1 DEF XInv, managerVars, executionVars, StageInv, AuthorsInv, MarkingsInv,
                  ResultsInv, ReadableRows, Readable, Objects
    <2> QED BY <2>2, <2>3 DEF XInv
  <1> QED BY <1>1, <1>2

-----------------------------------------------------------------------------
(* Lists: what list.remove and the removal of duplicates leave.              *)

LEMMA GreatestOf ==
    ASSUME NEW bound \in Nat, NEW s, s \subseteq 1..bound, s # {}
    PROVE  Max(s) \in s /\ \A n \in s : n <= Max(s)
  <1>1. s \subseteq 0..bound
    OBVIOUS
  <1>2. PICK m \in s : \A n \in s : n <= m
    BY <1>1, GreatestNatural, Zenon
  <1>3. \A n \in s : m >= n
    BY <1>2
  <1>4. Max(s) \in s /\ \A n \in s : Max(s) >= n
    BY <1>3, Zenon DEF Max
  <1> QED BY <1>4

LEMMA GreatestOfRange ==
    ASSUME NEW n \in Nat \ {0}
    PROVE  Max(1..n) = n /\ 1..n # {} /\ (1..n) \ {n} = 1..(n - 1)
  <1> DEFINE range == 1..n
  <1>1. n \in range /\ \A k \in range : k <= n /\ k \in Nat
    OBVIOUS
  <1>2. range \subseteq 1..n /\ range # {}
    BY <1>1, Zenon
  <1> HIDE DEF range
  <1>3. Max(range) \in range /\ \A k \in range : k <= Max(range)
    BY <1>2, GreatestOf, Zenon
  <1>4. PICK m \in range : m = Max(range)
    BY <1>3, Zenon
  <1>5. m <= n /\ n <= m /\ m \in Nat
    BY <1>1, <1>3, <1>4
  <1>6. m = n
    BY <1>5
  <1>7. (1..n) \ {n} = 1..(n - 1)
    OBVIOUS
  <1> QED BY <1>2, <1>4, <1>6, <1>7 DEF range

LEMMA ItemsOf ==
    ASSUME NEW S, NEW s \in Seq(S)
    PROVE  s \in Seq(ToSet(s)) /\ ToSet(s) \subseteq S /\ ToSet(s) = {s[i] : i \in 1..Len(s)}
  BY DEF ToSet

\* list.remove adds nothing.
LEMMA RemoveFirstItems ==
    ASSUME NEW S, NEW s \in Seq(S), NEW e
    PROVE  RemoveFirst(s, e) \in Seq(S)
  <1>1. CASE ~ \E i \in 1..Len(s) : s[i] = e
    BY <1>1 DEF RemoveFirst
  <1>2. CASE \E i \in 1..Len(s) : s[i] = e
    <2> DEFINE found == {i \in 1..Len(s) : s[i] = e}
    <2>1. found # {} /\ found \subseteq Nat
      BY <1>2
    <2>2. PICK m \in found : \A n \in found : m <= n
      BY <2>1, LeastNatural, Zenon
    <2>3. Min(found) \in found
      BY <2>2, Zenon DEF Min
    <2>4. RemoveFirst(s, e) = SubSeq(s, 1, Min(found) - 1) \o SubSeq(s, Min(found) + 1, Len(s))
      BY <1>2, <2>1 DEF RemoveFirst, RemoveAt, SelectInSeq
    <2> HIDE DEF found
    <2>5. PICK k \in 1..Len(s) : k = Min(found)
      BY <2>3 DEF found
    <2>6. SubSeq(s, 1, k - 1) \in Seq(S) /\ SubSeq(s, k + 1, Len(s)) \in Seq(S)
      BY SubSeqProperties
    <2> QED BY <2>4, <2>5, <2>6, ConcatProperties
  <1> QED BY <1>1, <1>2

\* What three folds over "s" make of the next item, and of what the items before gave.
Kept(before, v) == IF v \in ToSet(before) THEN before ELSE Append(before, v)

Folded(fold, before, item) ==
    IF fold = "distinct" THEN Kept(before, item)
    ELSE IF fold = "run" THEN Apply(before, item) ELSE Meant(before, item)

\* Folds are recursive functions on sets of positions.
FoldedFrom(fold, base, s, acc, part) ==
    IF part = {} THEN base ELSE Folded(fold, acc[part \ {Max(part)}], s[Max(part)])

DistinctFrom(s, acc, part) ==
    IF part = {} THEN <<>> ELSE Kept(acc[part \ {Max(part)}], s[Max(part)])

RunFrom(object, steps, acc, part) ==
    IF part = {} THEN [raised |-> FALSE, object |-> object]
    ELSE Apply(acc[part \ {Max(part)}], steps[Max(part)])

IsFold(f, fold, base, s) ==
    f = [p \in SUBSET (1..Len(s)) |-> FoldedFrom(fold, base, s, f, p)]

\* The recursion has a solution, by induction on the greatest position.
LEMMA FoldExists ==
    ASSUME NEW fold, NEW base, NEW S, NEW s \in Seq(S)
    PROVE  \E f : IsFold(f, fold, base, s)
  <1> DEFINE D == 1..Len(s)
             new(f, part) == FoldedFrom(fold, base, s, f, part)
             parts == {N \in Nat : \E f :
                         f = [p \in SUBSET D |-> IF p \subseteq 1..N THEN new(f, p) ELSE base]}
  <1>0. Len(s) \in Nat
    OBVIOUS
  <1>1. ASSUME NEW f, NEW g, NEW p \in SUBSET D,
               \A q \in SUBSET D : q # p /\ q \subseteq p => f[q] = g[q]
        PROVE  new(f, p) = new(g, p)
    <2>1. CASE p = {}
      BY <2>1 DEF FoldedFrom
    <2>2. CASE p # {}
      <3>1. Max(p) \in p
        BY <1>0, <2>2, GreatestOf
      <3>2. f[p \ {Max(p)}] = g[p \ {Max(p)}]
        BY <1>1, <3>1
      <3> QED BY <3>2 DEF FoldedFrom
    <2> QED BY <2>1, <2>2
  <1> HIDE DEF new
  <1>2. 0 \in parts
    <2> DEFINE g == [p \in SUBSET D |-> IF p \subseteq 1..0 THEN new(base, p) ELSE base]
    <2>1. \A p \in SUBSET D : p \subseteq 1..0 => new(base, p) = new(g, p)
      <3> HIDE DEF g
      <3> SUFFICES ASSUME NEW p \in SUBSET D, p \subseteq 1..0 PROVE new(base, p) = new(g, p)
        OBVIOUS
      <3>1. p = {}
        OBVIOUS
      <3>2. \A q : q \subseteq p => q = p
        BY <3>1, Zenon
      <3> QED BY <1>1, <3>2, Zenon
    <2>2. g = [p \in SUBSET D |-> IF p \subseteq 1..0 THEN new(g, p) ELSE base]
      BY <2>1
    <2> QED BY <2>2
  <1>3. ASSUME NEW N \in Nat, N \in parts PROVE N + 1 \in parts
    <2>1. PICK f : f = [p \in SUBSET D |-> IF p \subseteq 1..N THEN new(f, p) ELSE base]
      BY <1>3
    <2> DEFINE g == [p \in SUBSET D |-> IF p \subseteq 1..(N + 1) THEN new(f, p) ELSE base]
    <2>2. ASSUME NEW q \in SUBSET D, q \subseteq 1..N PROVE f[q] = g[q]
      <3>1. f[q] = new(f, q)
        BY <2>1, <2>2
      <3> QED BY <2>2, <3>1
    <2> HIDE DEF g
    <2>3. ASSUME NEW p \in SUBSET D, p \subseteq 1..(N + 1) PROVE new(f, p) = new(g, p)
      <3>1. CASE p = {}
        BY <3>1, <1>1
      <3>2. CASE p # {}
        <4>1. Max(p) \in p /\ \A n \in p : n <= Max(p)
          BY <1>0, <3>2, GreatestOf
        <4>2. p \ {Max(p)} \subseteq 1..N
          <5>1. PICK m \in p : m = Max(p)
            BY <4>1, Zenon
          <5>2. \A n \in p : n \in Nat /\ n > 0 /\ n <= m /\ m <= N + 1 /\ m \in Nat
            BY <2>3, <4>1, <5>1
          <5>3. \A n \in p : n # m => n \in 1..N
            BY <5>2
          <5> QED BY <5>1, <5>3, Zenon
        <4>3. f[p \ {Max(p)}] = g[p \ {Max(p)}]
          BY <2>2, <4>2
        <4> QED BY <4>3 DEF new, FoldedFrom
      <3> QED BY <3>1, <3>2
    <2>4. g = [p \in SUBSET D |-> IF p \subseteq 1..(N + 1) THEN new(g, p) ELSE base]
      BY <2>3 DEF g
    <2> QED BY <2>4
  <1>4. Len(s) \in parts
    <2> HIDE DEF parts
    <2> QED BY <1>0, <1>2, <1>3, Induct
  <1>5. PICK f : f = [p \in SUBSET D |-> new(f, p)]
    BY <1>4
  <1> QED BY <1>5 DEF new, IsFold

\* Its value for the first n positions is that for the first n - 1, and an item more.
LEMMA FoldSteps ==
    ASSUME NEW fold, NEW base, NEW S, NEW s \in Seq(S), NEW acc,
           IsFold(acc, fold, base, s)
    PROVE  /\ acc[1..0] = base
           /\ \A n \in 1..Len(s) : acc[1..n] = Folded(fold, acc[1..(n - 1)], s[n])
  <1>0. Len(s) \in Nat /\ 1..0 = {}
    OBVIOUS
  <1>1. acc[1..0] = base
    BY <1>0 DEF FoldedFrom, IsFold
  <1>2. ASSUME NEW n \in 1..Len(s)
        PROVE  acc[1..n] = Folded(fold, acc[1..(n - 1)], s[n])
    <2>1. n \in Nat \ {0} /\ 1..n \in SUBSET (1..Len(s))
      BY <1>0
    <2>2. Max(1..n) = n /\ 1..n # {} /\ (1..n) \ {n} = 1..(n - 1)
      BY <2>1, GreatestOfRange
    <2>3. acc[1..n] = FoldedFrom(fold, base, s, acc, 1..n)
      BY <2>1 DEF IsFold
    <2> QED BY <2>2, <2>3 DEF FoldedFrom
  <1> QED BY <1>1, <1>2

LEMMA DistinctFold ==
    ASSUME NEW S, NEW s \in Seq(S)
    PROVE  \E acc :
             /\ acc[1..0] = <<>>
             /\ \A n \in 1..Len(s) : acc[1..n] = Kept(acc[1..(n - 1)], s[n])
             /\ Distinct(s) = acc[1..Len(s)]
  <1> DEFINE base == <<>>
  <1>0. DOMAIN s = 1..Len(s)
    OBVIOUS
  <1>1. \A f, p : FoldedFrom("distinct", base, s, f, p) = DistinctFrom(s, f, p)
    BY DEF FoldedFrom, Folded, DistinctFrom
  <1>2. PICK f : f = [p \in SUBSET DOMAIN s |-> DistinctFrom(s, f, p)]
    <2>1. PICK f : IsFold(f, "distinct", base, s)
      BY FoldExists, Zenon
    <2>2. [p \in SUBSET (1..Len(s)) |-> FoldedFrom("distinct", base, s, f, p)]
            = [p \in SUBSET (1..Len(s)) |-> DistinctFrom(s, f, p)]
      BY <1>1
    <2> QED BY <1>0, <2>1, <2>2, Zenon DEF IsFold
  <1>3. Distinct(s) = (CHOOSE g : g = [p \in SUBSET DOMAIN s |-> DistinctFrom(s, g, p)])[DOMAIN s]
    BY DEF Distinct, FoldLeft, MapThenFoldSet, DistinctFrom, Kept
  <1>4. PICK acc : acc = [p \in SUBSET DOMAIN s |-> DistinctFrom(s, acc, p)]
                     /\ Distinct(s) = acc[DOMAIN s]
    BY <1>2, <1>3
  <1>5. IsFold(acc, "distinct", base, s)
    <2>1. [p \in SUBSET (1..Len(s)) |-> FoldedFrom("distinct", base, s, acc, p)]
            = [p \in SUBSET (1..Len(s)) |-> DistinctFrom(s, acc, p)]
      BY <1>1
    <2> QED BY <1>0, <1>4, <2>1, Zenon DEF IsFold
  <1> HIDE DEF base
  <1>6. /\ acc[1..0] = base
        /\ \A n \in 1..Len(s) : acc[1..n] = Folded("distinct", acc[1..(n - 1)], s[n])
    BY <1>5, FoldSteps
  <1> QED BY <1>0, <1>4, <1>6 DEF Folded, base

\* The steps of a pipeline, one after the other.
Started(object) == [raised |-> FALSE, object |-> object]

LEMMA RunFold ==
    ASSUME NEW object, NEW S, NEW steps \in Seq(S)
    PROVE  \E acc :
             /\ acc[1..0] = Started(object)
             /\ \A n \in 1..Len(steps) : acc[1..n] = Apply(acc[1..(n - 1)], steps[n])
             /\ RunSteps(object, steps) = acc[1..Len(steps)]
  <1> DEFINE base == [raised |-> FALSE, object |-> object]
  <1>0. DOMAIN steps = 1..Len(steps)
    OBVIOUS
  <1>1. \A f, p : FoldedFrom("run", base, steps, f, p) = RunFrom(object, steps, f, p)
    BY DEF FoldedFrom, Folded, RunFrom
  <1>2. PICK f : f = [p \in SUBSET DOMAIN steps |-> RunFrom(object, steps, f, p)]
    <2>1. PICK f : IsFold(f, "run", base, steps)
      BY FoldExists, Zenon
    <2>2. [p \in SUBSET (1..Len(steps)) |-> FoldedFrom("run", base, steps, f, p)]
            = [p \in SUBSET (1..Len(steps)) |-> RunFrom(object, steps, f, p)]
      BY <1>1
    <2> QED BY <1>0, <2>1, <2>2, Zenon DEF IsFold
  <1>3. RunSteps(object, steps)
          = (CHOOSE g : g = [p \in SUBSET DOMAIN steps |-> RunFrom(object, steps, g, p)])[DOMAIN steps]
    BY DEF RunSteps, FoldLeft, MapThenFoldSet, RunFrom
  <1>4. PICK acc : acc = [p \in SUBSET DOMAIN steps |-> RunFrom(object, steps, acc, p)]
                     /\ RunSteps(object, steps) = acc[DOMAIN steps]
    BY <1>2, <1>3
  <1>5. IsFold(acc, "run", base, steps)
    <2>1. [p \in SUBSET (1..Len(steps)) |-> FoldedFrom("run", base, steps, acc, p)]
            = [p \in SUBSET (1..Len(steps)) |-> RunFrom(object, steps, acc, p)]
      BY <1>1
    <2> QED BY <1>0, <1>4, <2>1, Zenon DEF IsFold
  <1> HIDE DEF base
  <1>6. /\ acc[1..0] = base
        /\ \A n \in 1..Len(steps) : acc[1..n] = Folded("run", acc[1..(n - 1)], steps[n])
    BY <1>5, FoldSteps
  <1> QED BY <1>0, <1>4, <1>6 DEF Folded, base, Started

\* Distinct keeps items only, and all of them if none is repeated.
LEMMA DistinctItems ==
    ASSUME NEW S, NEW s \in Seq(S)
    PROVE  /\ Distinct(s) \in Seq(S)
           /\ NoRepetition(s) => Distinct(s) = s
  <1>1. PICK acc :
          /\ acc[1..0] = <<>>
          /\ \A n \in 1..Len(s) : acc[1..n] = Kept(acc[1..(n - 1)], s[n])
          /\ Distinct(s) = acc[1..Len(s)]
    BY DistinctFold
  <1> DEFINE right == {n \in Nat : n <= Len(s) =>
                         /\ acc[1..n] \in Seq(S)
                         /\ NoRepetition(s) => acc[1..n] = SubSeq(s, 1, n)}
  <1>2. 0 \in right
    <2>1. SubSeq(s, 1, 0) = <<>> /\ <<>> \in Seq(S)
      OBVIOUS
    <2> QED BY <1>1, <2>1
  <1>3. ASSUME NEW n \in Nat, n \in right PROVE n + 1 \in right
    <2> SUFFICES ASSUME n + 1 <= Len(s)
                 PROVE  /\ acc[1..(n + 1)] \in Seq(S)
                        /\ NoRepetition(s) => acc[1..(n + 1)] = SubSeq(s, 1, n + 1)
      OBVIOUS
    <2>1. n + 1 \in 1..Len(s) /\ (n + 1) - 1 = n /\ s[n + 1] \in S
      OBVIOUS
    <2>2. acc[1..n] \in Seq(S) /\ (NoRepetition(s) => acc[1..n] = SubSeq(s, 1, n))
      BY <1>3, <2>1
    <2>3. acc[1..(n + 1)] = Kept(acc[1..n], s[n + 1])
      BY <1>1, <2>1
    <2>4. ASSUME NoRepetition(s) PROVE acc[1..(n + 1)] = SubSeq(s, 1, n + 1)
      <3>1. s[n + 1] \notin ToSet(SubSeq(s, 1, n))
        <4>1. /\ Len(SubSeq(s, 1, n)) = n
              /\ \A i \in 1..n : SubSeq(s, 1, n)[i] = s[i]
              /\ DOMAIN SubSeq(s, 1, n) = 1..n
          BY <2>1
        <4>2. \A i \in 1..n : s[i] # s[n + 1]
          BY <2>1, <2>4 DEF NoRepetition
        <4> QED BY <4>1, <4>2 DEF ToSet
      <3>2. Append(SubSeq(s, 1, n), s[n + 1]) = SubSeq(s, 1, n + 1)
        BY <2>1
      <3> QED BY <2>2, <2>3, <2>4, <3>1, <3>2 DEF Kept
    <2>5. acc[1..(n + 1)] \in Seq(S)
      BY <2>1, <2>2, <2>3 DEF Kept
    <2> QED BY <2>4, <2>5
  <1>4. Len(s) \in right
    <2>1. Len(s) \in Nat
      OBVIOUS
    <2> HIDE DEF right
    <2> QED BY <1>2, <1>3, <2>1, Induct
  <1>5. SubSeq(s, 1, Len(s)) = s
    OBVIOUS
  <1> QED BY <1>1, <1>4, <1>5

-----------------------------------------------------------------------------
(* What the steps may make of the author and the markings.                   *)

Addressing(steps, f) == {s \in {steps[k] : k \in 1..Len(steps)} : s.field = f}

AddedTo(steps, f) == {s.value : s \in {s \in Addressing(steps, f) : s.action \in {"set", "add"}}}

\* An author is kept, removed or set; markings are kept, or a list of old and new ones.
Became(x, v, steps) ==
    /\ x[Author] \in {v[Author], Missing} \cup {Text(t) : t \in AddedTo(steps, Author)}
    /\ \/ x[Markings] = v[Markings]
       \/ \E s \in Seq(ToSet(v[Markings].items) \cup AddedTo(steps, Markings)) :
            x[Markings] = List(s)
    /\ \A f \in {Author, Markings} : Addressing(steps, f) = {} => x[f] = v[f]

Follows(run, v, steps) ==
    /\ "object" \in DOMAIN run
    /\ run.object = [f \in Fields |-> run.object[f]]
    /\ Became(run.object, v, steps)

\* The author is a scalar and the markings are a list, and they are not the same.
LEMMA TwoFields ==
    /\ Author # Markings
    /\ Author \in DOMAIN FIELDS /\ Markings \in DOMAIN FIELDS
    /\ Author \in Fields /\ Markings \in Fields
    /\ FIELDS[Author] = [kind |-> "scalar", actions |-> {"set", "delete"}]
    /\ FIELDS[Markings] = [kind |-> "list", actions |-> {"add", "delete"}]
  BY FieldsAssumption DEF Author, Markings, FIELDS

\* A step that sets the author or removes it.
LEMMA AuthorPerformed ==
    ASSUME NEW S, NEW steps \in Seq(S), NEW k \in 1..Len(steps), ValidStep(steps[k]),
           steps[k].field = Author, NEW current
    PROVE  Perform(steps[k], current) \in
             {Missing} \cup {Text(t) : t \in AddedTo(steps, Author)}
  <1>1. FIELDS[steps[k].field].kind = "scalar" /\ steps[k].action \in {"set", "delete"}
    BY TwoFields DEF ValidStep
  <1>2. CASE steps[k].action = "set"
    <2>1. steps[k].value \in AddedTo(steps, Author)
      BY <1>2 DEF AddedTo, Addressing
    <2> QED BY <1>2, <2>1 DEF Perform
  <1>3. CASE steps[k].action = "delete"
    BY <1>1, <1>3 DEF Perform
  <1> QED BY <1>1, <1>2, <1>3

\* A step that adds a marking or removes one.
LEMMA MarkingsPerformed ==
    ASSUME NEW step, ValidStep(step), step.field = Markings,
           NEW W, step.action = "add" => step.value \in W,
           NEW current, current.items \in Seq(W)
    PROVE  \/ Perform(step, current) = current
           \/ \E s \in Seq(W) : Perform(step, current) = List(s)
  <1> DEFINE value == step.value
             after == Perform(step, current)
  <1>1. FIELDS[step.field].kind = "list" /\ step.action \in {"add", "delete"}
    BY TwoFields DEF ValidStep
  <1>2. CASE after # current /\ step.action = "add"
    <2>1. after \in {List(<<value>>), List(Append(current.items, value))}
      BY <1>2 DEF Perform
    <2>2. <<value>> \in Seq(W) /\ Append(current.items, value) \in Seq(W)
      BY <1>2
    <2> QED BY <2>1, <2>2
  <1>3. CASE after # current /\ step.action = "delete"
    <2>1. after = List(RemoveFirst(current.items, value))
      BY <1>1, <1>3 DEF Perform
    <2>2. RemoveFirst(current.items, value) \in Seq(W)
      BY RemoveFirstItems
    <2> QED BY <2>1, <2>2
  <1> QED BY <1>1, <1>2, <1>3

LEMMA ApplyFollows ==
    ASSUME NEW S, NEW steps \in Seq(S), NEW k \in 1..Len(steps), ValidStep(steps[k]),
           NEW v, v[Markings].items \in Seq(ToSet(v[Markings].items)),
           NEW run, Follows(run, v, steps)
    PROVE  Follows(Apply(run, steps[k]), v, steps)
  <1> DEFINE field == steps[k].field
             x == run.object
             done == Perform(steps[k], x[field])
             y == [x EXCEPT ![field] = done]
  <1>0. field \in Fields /\ steps[k] \in {steps[n] : n \in 1..Len(steps)}
    BY FieldsAssumption DEF ValidStep
  <1>1. \/ Apply(run, steps[k]) = run
        \/ Apply(run, steps[k]) = [run EXCEPT !.raised = TRUE]
        \/ Apply(run, steps[k]) = [run EXCEPT !.object = y]
    BY DEF Apply
  <1>2. /\ "object" \in DOMAIN run
        /\ x = [f \in Fields |-> x[f]] /\ Became(x, v, steps)
    BY DEF Follows
  <1>3. /\ y = [f \in Fields |-> y[f]]
        /\ y[field] = done
        /\ \A f \in Fields : f # field => y[f] = x[f]
    BY <1>0, <1>2
  <1>4. Became(y, v, steps)
    <2> HIDE DEF x, y, field, done
    <2>1. y[Author] \in {v[Author], Missing} \cup {Text(t) : t \in AddedTo(steps, Author)}
      <3>1. CASE field = Author
        <4> USE DEF done, field
        <4>1. done \in {Missing} \cup {Text(t) : t \in AddedTo(steps, Author)}
          BY <3>1, AuthorPerformed
        <4> QED BY <1>3, <3>1, <4>1
      <3>2. CASE field # Author
        BY <1>2, <1>3, <3>2, TwoFields DEF Became
      <3> QED BY <3>1, <3>2
    <2>2. \/ y[Markings] = v[Markings]
          \/ \E s \in Seq(ToSet(v[Markings].items) \cup AddedTo(steps, Markings)) :
               y[Markings] = List(s)
      <3>1. CASE field = Markings
        <4> DEFINE V == ToSet(v[Markings].items)
                   W == V \cup AddedTo(steps, Markings)
        <4>0. V \subseteq W
          OBVIOUS
        <4>1. x[Markings] = v[Markings] \/ \E s \in Seq(W) : x[Markings] = List(s)
          BY <1>2 DEF Became
        <4>2. x[Markings].items \in Seq(W)
          <5>1. v[Markings].items \in Seq(V)
            OBVIOUS
          <5>2. v[Markings].items \in Seq(W)
            <6> HIDE DEF V, W
            <6> QED BY <4>0, <5>1
          <5>3. \A s : List(s).items = s
            BY DEF List
          <5> HIDE DEF V, W
          <5>4. ASSUME NEW s \in Seq(W), x[Markings] = List(s) PROVE x[Markings].items \in Seq(W)
            BY <5>3, <5>4
          <5>5. CASE x[Markings] = v[Markings]
            BY <5>2, <5>5, Zenon
          <5> QED BY <4>1, <5>4, <5>5, Zenon
        <4>3. \/ done = x[Markings]
              \/ \E s \in Seq(W) : done = List(s)
          <5>1. done = Perform(steps[k], x[Markings]) /\ steps[k].field = Markings
            BY <3>1 DEF done, field
          <5>2. steps[k].action = "add" => steps[k].value \in W
            BY <5>1 DEF AddedTo, Addressing
          <5> HIDE DEF W
          <5>3. \/ Perform(steps[k], x[Markings]) = x[Markings]
                \/ \E s \in Seq(W) : Perform(steps[k], x[Markings]) = List(s)
            BY <4>2, <5>1, <5>2, MarkingsPerformed
          <5> QED BY <5>1, <5>3, Zenon
        <4> QED BY <1>3, <3>1, <4>1, <4>3
      <3>2. CASE field # Markings
        BY <1>2, <1>3, <3>2, TwoFields DEF Became
      <3> QED BY <3>1, <3>2
    <2>3. ASSUME NEW f \in {Author, Markings}, Addressing(steps, f) = {}
          PROVE  y[f] = v[f]
      <3>1. f # field
        BY <1>0, <2>3 DEF Addressing, field
      <3> QED BY <1>2, <1>3, <2>3, <3>1, TwoFields DEF Became
    <2> QED BY <2>1, <2>2, <2>3 DEF Became
  <1>5. CASE Apply(run, steps[k]) = [run EXCEPT !.raised = TRUE]
    <2> DEFINE after == [run EXCEPT !.raised = TRUE]
    <2>1. "object" \in DOMAIN after /\ after.object = x
      BY <1>2
    <2> QED BY <1>2, <1>5, <2>1 DEF Follows
  <1>6. CASE Apply(run, steps[k]) = [run EXCEPT !.object = y]
    <2> HIDE DEF y
    <2> DEFINE after == [run EXCEPT !.object = y]
    <2>1. "object" \in DOMAIN after /\ after.object = y
      BY <1>2
    <2> QED BY <1>3, <1>4, <1>6, <2>1 DEF Follows
  <1> QED BY <1>1, <1>5, <1>6

\* The index of the step after the n-th.
LEMMA NextStep ==
    ASSUME NEW last \in Nat, NEW n \in Nat, n + 1 <= last
    PROVE  n + 1 \in 1..last /\ (n + 1) - 1 = n
  OBVIOUS

LEMMA RunFollows ==
    ASSUME NEW S, NEW steps \in Seq(S), \A k \in 1..Len(steps) : ValidStep(steps[k]),
           NEW v, v = [f \in Fields |-> v[f]],
           v[Markings].items \in Seq(ToSet(v[Markings].items))
    PROVE  Follows(RunSteps(v, steps), v, steps)
  <1>1. PICK acc :
          /\ acc[1..0] = Started(v)
          /\ \A n \in 1..Len(steps) : acc[1..n] = Apply(acc[1..(n - 1)], steps[n])
          /\ RunSteps(v, steps) = acc[1..Len(steps)]
    BY RunFold
  <1> DEFINE right == {n \in Nat : n <= Len(steps) => Follows(acc[1..n], v, steps)}
  <1>2. 0 \in right
    <2>1. Became(v, v, steps)
      BY DEF Became
    <2> QED BY <1>1, <2>1 DEF Follows, Started
  <1>3. ASSUME NEW n \in Nat, n \in right PROVE n + 1 \in right
    <2> SUFFICES ASSUME n + 1 <= Len(steps) PROVE Follows(acc[1..(n + 1)], v, steps)
      OBVIOUS
    <2>0. Len(steps) \in Nat
      OBVIOUS
    <2>1. n + 1 \in 1..Len(steps) /\ (n + 1) - 1 = n
      BY <2>0, NextStep
    <2>2. Follows(acc[1..n], v, steps)
      BY <1>3, <2>1
    <2>3. acc[1..(n + 1)] = Apply(acc[1..n], steps[n + 1])
      BY <1>1, <2>1
    <2> HIDE DEF right
    <2> QED BY <2>1, <2>2, <2>3, ApplyFollows
  <1>4. Len(steps) \in right
    <2>1. Len(steps) \in Nat
      OBVIOUS
    <2> HIDE DEF right
    <2> QED BY <1>2, <1>3, <2>1, Induct
  <1> QED BY <1>1, <1>4

-----------------------------------------------------------------------------
(* From refs to values and back, for one object.                             *)

\* An object whose refs are STIX ids.
Sound(o) ==
    /\ o = [f \in Fields |-> o[f]]
    /\ \A f \in Fields : IsValue(o[f])
    /\ GoodRefs(o)

TypeFor(f) == IF f = Author THEN "identity" ELSE "marking-definition"

\* The ref that a value of a field becomes.
Written(o, au, ma, f, v) ==
    RefFor(v, TypeFor(f), Refs(o, f), Originals(o, au, ma, f, v))

\* An item that is a value comes from the object or from a step.
Allowed(o, steps, f) ==
    ToSet(o[f].items) \cup AddedTo(steps, f) \cup {PlatformId(Types[f], v) : v \in AddedTo(steps, f)}

LEMMA FieldTypes ==
    /\ DOMAIN Types = {Author, Markings}
    /\ \A f \in {Author, Markings} : Types[f] = TypeFor(f)
  BY DEF Types, TypeFor

LEMMA OneText == \A t : Text(t).items = <<t>> /\ ToSet(<<t>>) = {t} /\ Text(t).kind = "text"
  BY DEF Text, ToSet

LEMMA OneList == \A s : List(s).items = s /\ List(s).kind = "list"
  BY DEF List

LEMMA ValueKinds ==
    ASSUME NEW w, IsValue(w)
    PROVE  /\ w.items \in Seq(ToSet(w.items))
           /\ w.kind = "text" => \E t \in ToSet(w.items) : w = Text(t) /\ w.items = <<t>>
           /\ w.kind = "list" => w = List(w.items)
           /\ w.kind \notin {"text", "list"} => w.items = <<>> /\ ToSet(w.items) = {}
  BY DEF IsValue, Text, List, Missing, Number, Null, ToSet

\* The refs of an object are its items.
LEMMA SoundRefs ==
    ASSUME NEW o, Sound(o), NEW f \in {Author, Markings}
    PROVE  /\ Refs(o, f) \in Seq(ToSet(o[f].items))
           /\ ToSet(o[f].items) \subseteq StixIds
           /\ \A i \in 1..Len(Refs(o, f)) : Refs(o, f)[i] \in StixIds \cap ToSet(o[f].items)
  <1>1. /\ IsValue(o[f]) /\ o[f].items \in Seq(ToSet(o[f].items))
        /\ ToSet(o[f].items) \subseteq StixIds
    BY TwoFields, ValueKinds DEF Sound, GoodRefs
  <1>2. CASE f = Author
    <2>1. CASE o[f].kind = "text"
      <3>1. PICK t \in ToSet(o[f].items) : o[f] = Text(t) /\ o[f].items = <<t>>
        BY <1>1, <2>1, ValueKinds
      <3>2. Refs(o, f) = <<t>>
        BY <1>1, <1>2, <2>1, <3>1, TwoFields DEF Refs
      <3> QED BY <1>1, <3>1, <3>2
    <2>2. CASE o[f].kind # "text"
      <3>1. Refs(o, f) = <<>>
        BY <1>2, <2>2, TwoFields DEF Refs
      <3>2. <<>> \in Seq(ToSet(o[f].items)) /\ Len(<<>>) = 0
        OBVIOUS
      <3> QED BY <1>1, <3>1, <3>2
    <2> QED BY <2>1, <2>2
  <1>3. CASE f = Markings
    <2>1. Refs(o, f) = o[f].items
      BY <1>3 DEF Refs, Iterated, Sound, GoodRefs
    <2> QED BY <1>1, <2>1
  <1> QED BY <1>2, <1>3

\* A value becomes itself, if it is a ref; or a ref of the object; or a platform id.
LEMMA WrittenIs ==
    ASSUME NEW o, NEW au, NEW ma, NEW f, NEW v, Len(Refs(o, f)) \in Nat
    PROVE  LET from == Originals(o, au, ma, f, v)
               ref  == Written(o, au, ma, f, v)
           IN  /\ v \in StixIds => ref = v
               /\ v \notin StixIds /\ from # {} =>
                    \E i \in from : i \in 1..Len(Refs(o, f)) /\ ref = Refs(o, f)[i]
               /\ v \notin StixIds /\ from = {} => ref = PlatformId(TypeFor(f), v)
  <1> DEFINE from == Originals(o, au, ma, f, v)
  <1>1. from \subseteq 1..Len(Refs(o, f)) /\ from \subseteq Nat
    BY DEF Originals
  <1> HIDE DEF from
  <1>2. ASSUME from # {}
        PROVE  (CHOOSE i \in from : \A j \in from : i <= j) \in from
    <2>1. PICK m \in from : \A j \in from : m <= j
      BY <1>1, <1>2, LeastNatural, Zenon
    <2> QED BY <2>1, Zenon
  <1> QED BY <1>1, <1>2 DEF Written, RefFor, from

\* A value that was read from a ref of the object becomes a ref of it.
LEMMA ReadAndWritten ==
    ASSUME NEW o, Sound(o), NEW au, NEW ma, NoIds(au), NoIds(ma), NoIds(TlpValues),
           NEW f \in {Author, Markings}, NEW i \in 1..Len(Refs(o, f)), NEW v,
           v = IF f = Author THEN Value(Refs(o, f)[i], au) ELSE MarkingValue(Refs(o, f)[i], ma)
    PROVE  \/ v = Refs(o, f)[i] /\ v \in StixIds
           \/ v \notin StixIds /\ i \in Originals(o, au, ma, f, v)
  <1>1. Refs(o, f)[i] \in StixIds
    BY SoundRefs
  <1>2. CASE f = Author
    BY <1>1, <1>2 DEF Value, NoIds, Originals
  <1>3. CASE f = Markings
    BY <1>1, <1>3, TwoFields DEF Value, MarkingValue, NoIds, Originals
  <1> QED BY <1>2, <1>3

\* Nothing is written that was neither read nor added.
LEMMA WrittenAllowed ==
    ASSUME NEW o, Sound(o), NEW au, NEW ma, NoIds(au), NoIds(ma), NoIds(TlpValues),
           NEW f \in {Author, Markings}, NEW steps, NEW v,
           \/ v \in AddedTo(steps, f)
           \/ \E i \in 1..Len(Refs(o, f)) :
                v = IF f = Author THEN Value(Refs(o, f)[i], au)
                    ELSE MarkingValue(Refs(o, f)[i], ma)
    PROVE  Written(o, au, ma, f, v) \in Allowed(o, steps, f)
  <1> DEFINE ref == Written(o, au, ma, f, v)
             from == Originals(o, au, ma, f, v)
  <1>1. /\ Len(Refs(o, f)) \in Nat
        /\ \A i \in 1..Len(Refs(o, f)) : Refs(o, f)[i] \in ToSet(o[f].items)
    BY SoundRefs
  <1>2. /\ v \in StixIds => ref = v
        /\ v \notin StixIds /\ from # {} => ref \in ToSet(o[f].items)
        /\ v \notin StixIds /\ from = {} => ref = PlatformId(TypeFor(f), v)
    BY <1>1, WrittenIs
  <1> HIDE DEF ref, from
  <1>3. CASE v \in AddedTo(steps, f)
    BY <1>2, <1>3, FieldTypes DEF Allowed, ref
  <1>4. ASSUME NEW i \in 1..Len(Refs(o, f)),
               v = IF f = Author THEN Value(Refs(o, f)[i], au)
                   ELSE MarkingValue(Refs(o, f)[i], ma)
        PROVE  ref \in ToSet(o[f].items)
    <2>1. \/ v = Refs(o, f)[i] /\ v \in StixIds
          \/ v \notin StixIds /\ from # {}
      BY <1>4, ReadAndWritten DEF from
    <2> QED BY <1>1, <1>2, <2>1
  <1> QED BY <1>3, <1>4 DEF Allowed, ref

MarkingValues(o, ma) == [i \in 1..Len(Refs(o, Markings)) |-> MarkingValue(Refs(o, Markings)[i], ma)]

\* What the steps are given: names for refs, and the other fields as they are.
LEMMA ValuesRead ==
    ASSUME NEW o, Sound(o), NEW au, NEW ma
    PROVE  LET v == ToValues(o, au, ma) IN
             /\ v = [f \in Fields |-> v[f]]
             /\ IF o[Author].kind = "text"
                THEN /\ Len(Refs(o, Author)) = 1 /\ o[Author] = Text(Refs(o, Author)[1])
                     /\ v[Author] = Text(Value(Refs(o, Author)[1], au))
                ELSE v[Author] = o[Author]
             /\ IF o[Markings].kind = "list"
                THEN /\ o[Markings] = List(Refs(o, Markings))
                     /\ v[Markings] = List(Distinct(MarkingValues(o, ma)))
                ELSE /\ v[Markings] = o[Markings] /\ o[Markings].items = <<>>
  <1> DEFINE v == ToValues(o, au, ma)
  <1>1. /\ DOMAIN o = Fields /\ IsValue(o[Author]) /\ IsValue(o[Markings])
        /\ ToSet(o[Author].items) \subseteq StixIds /\ o[Markings].kind # "text"
    BY TwoFields DEF Sound, GoodRefs
  <1>2. v = [f \in Fields |-> v[f]]
    BY <1>1 DEF ToValues
  <1>3. /\ v[Author] = IF Refs(o, Author) # <<>> THEN Text(Value(Refs(o, Author)[1], au))
                       ELSE o[Author]
        /\ v[Markings] = IF Refs(o, Markings) # <<>>
                         THEN List(Distinct(MarkingValues(o, ma)))
                         ELSE o[Markings]
    BY <1>1, TwoFields DEF ToValues, MarkingValues
  <1>4. Refs(o, Markings) = o[Markings].items
    BY <1>1 DEF Refs, Iterated
  <1> HIDE DEF v
  <1>5. IF o[Author].kind = "text"
        THEN /\ Len(Refs(o, Author)) = 1 /\ o[Author] = Text(Refs(o, Author)[1])
             /\ v[Author] = Text(Value(Refs(o, Author)[1], au))
        ELSE v[Author] = o[Author]
    <2>1. CASE o[Author].kind = "text"
      <3>1. PICK t \in StixIds : o[Author] = Text(t) /\ o[Author].items = <<t>>
        BY <1>1, <2>1, ValueKinds
      <3>2. Refs(o, Author) = <<t>>
        BY <2>1, <3>1, TwoFields DEF Refs
      <3>3. Len(<<t>>) = 1 /\ <<t>>[1] = t /\ <<t>> # <<>>
        OBVIOUS
      <3> QED BY <1>3, <2>1, <3>1, <3>2, <3>3
    <2>2. CASE o[Author].kind # "text"
      <3>1. Refs(o, Author) = <<>>
        BY <2>2, TwoFields DEF Refs
      <3> QED BY <1>3, <2>2, <3>1
    <2> QED BY <2>1, <2>2
  <1>6. IF o[Markings].kind = "list"
        THEN /\ o[Markings] = List(Refs(o, Markings))
             /\ v[Markings] = List(Distinct(MarkingValues(o, ma)))
        ELSE /\ v[Markings] = o[Markings] /\ o[Markings].items = <<>>
    <2>1. CASE o[Markings].kind = "list"
      <3>1. o[Markings] = List(Refs(o, Markings))
        BY <1>1, <1>4, <2>1, ValueKinds
      <3>2. CASE Refs(o, Markings) = <<>>
        <4>1. MarkingValues(o, ma) = <<>>
          BY <3>2 DEF MarkingValues
        <4>2. <<>> \in Seq({}) /\ NoRepetition(<<>>)
          BY DEF NoRepetition
        <4>3. Distinct(<<>>) = <<>>
          BY <4>2, DistinctItems
        <4> QED BY <1>3, <2>1, <3>1, <3>2, <4>1, <4>3
      <3> QED BY <1>3, <2>1, <3>1, <3>2
    <2>2. CASE o[Markings].kind # "list"
      <3>1. o[Markings].items = <<>>
        BY <1>1, <2>2, ValueKinds
      <3> QED BY <1>3, <1>4, <2>2, <3>1
    <2> QED BY <2>1, <2>2
  <1> QED BY <1>2, <1>5, <1>6 DEF v

NamesOf(o, ma) == {MarkingValue(Refs(o, Markings)[i], ma) : i \in 1..Len(Refs(o, Markings))}

\* The steps have valid fields and actions, and work on what was read.
LEMMA StepsDone ==
    ASSUME NEW o, Sound(o), NEW au, NEW ma, NEW S, NEW steps \in Seq(S),
           \A k \in 1..Len(steps) : ValidStep(steps[k])
    PROVE  /\ Run(o, steps, au, ma).object = [f \in Fields |-> Run(o, steps, au, ma).object[f]]
           /\ Became(Run(o, steps, au, ma).object, ToValues(o, au, ma), steps)
           /\ ToValues(o, au, ma)[Markings].items \in Seq(NamesOf(o, ma))
  <1> DEFINE v == ToValues(o, au, ma)
             values == NamesOf(o, ma)
  <1>1. v[Markings].items \in Seq(values)
    <2>1. CASE o[Markings].kind = "list"
      <3>1. MarkingValues(o, ma) \in Seq(values)
        <4>1. Len(Refs(o, Markings)) \in Nat
          BY SoundRefs
        <4> QED BY <4>1 DEF MarkingValues, NamesOf
      <3>2. Distinct(MarkingValues(o, ma)) \in Seq(values)
        BY <3>1, DistinctItems
      <3>3. v[Markings] = List(Distinct(MarkingValues(o, ma)))
        BY <2>1, ValuesRead
      <3> QED BY <3>2, <3>3, OneList
    <2>2. CASE o[Markings].kind # "list"
      <3>1. v[Markings].items = <<>>
        BY <2>2, ValuesRead
      <3> QED BY <3>1
    <2> QED BY <2>1, <2>2
  <1> HIDE DEF values
  <1>2. v[Markings].items \in Seq(ToSet(v[Markings].items))
    BY <1>1, ItemsOf
  <1>3. v = [f \in Fields |-> v[f]]
    BY ValuesRead
  <1>4. Follows(RunSteps(v, steps), v, steps)
    BY <1>2, <1>3, RunFollows
  <1> QED BY <1>1, <1>4 DEF Follows, Run, values

LEMMA ResultAuthor ==
    ASSUME NEW o, Sound(o), NEW au, NEW ma, NoIds(au), NoIds(ma), NoIds(TlpValues),
           NEW S, NEW steps \in Seq(S), \A k \in 1..Len(steps) : ValidStep(steps[k])
    PROVE  /\ ToSet(Result(o, steps, au, ma)[Author].items) \subseteq Allowed(o, steps, Author)
           /\ Addressing(steps, Author) = {} => Result(o, steps, au, ma)[Author] = o[Author]
  <1> DEFINE x == Run(o, steps, au, ma).object
             v == ToValues(o, au, ma)
             r == Result(o, steps, au, ma)[Author]
             written(t) == Written(o, au, ma, Author, t)
  <1>1. DOMAIN x = Fields /\ Became(x, v, steps)
    <2>1. x = [f \in Fields |-> x[f]] /\ Became(x, v, steps)
      BY StepsDone, Zenon
    <2> HIDE DEF x
    <2> QED BY <2>1
  <1>2. /\ x[Author] \in {v[Author], Missing} \cup {Text(t) : t \in AddedTo(steps, Author)}
        /\ Addressing(steps, Author) = {} => x[Author] = v[Author]
    BY <1>1 DEF Became
  <1>3. r = IF x[Author].kind = "text" THEN Text(written(x[Author].items[1])) ELSE x[Author]
    BY <1>1, TwoFields DEF Result, ToRefs, Written, TypeFor
  <1> HIDE DEF x, r
  <1>4. CASE x[Author] = v[Author]
    <2>1. CASE o[Author].kind = "text"
      <3> DEFINE name == Value(Refs(o, Author)[1], au)
      <3>1. /\ Len(Refs(o, Author)) = 1 /\ o[Author] = Text(Refs(o, Author)[1])
            /\ v[Author] = Text(name)
        BY <2>1, ValuesRead
      <3>2. 1 \in 1..Len(Refs(o, Author))
        BY <3>1
      <3>3. r = Text(written(name))
        <4>1. x[Author].kind = "text" /\ x[Author].items[1] = name
          BY <1>4, <3>1 DEF Text
        <4> QED BY <1>3, <4>1
      <3>4. \/ name = Refs(o, Author)[1] /\ name \in StixIds
            \/ name \notin StixIds /\ 1 \in Originals(o, au, ma, Author, name)
        BY <3>2, ReadAndWritten
      <3>5. written(name) = Refs(o, Author)[1]
        <4>1. \A i \in 1..Len(Refs(o, Author)) : i = 1
          BY <3>1
        <4> HIDE DEF name
        <4> QED BY <3>1, <3>4, <4>1, WrittenIs
      <3>6. r = o[Author]
        BY <3>1, <3>3, <3>5
      <3> QED BY <3>6 DEF Allowed, r
    <2>2. CASE o[Author].kind # "text"
      <3>1. r = o[Author]
        BY <1>3, <1>4, <2>2, ValuesRead
      <3> QED BY <3>1 DEF Allowed, r
    <2> QED BY <2>1, <2>2
  <1>5. CASE x[Author] = Missing
    <2>1. r = Missing
      BY <1>3, <1>5 DEF Missing
    <2>2. ToSet(r.items) = {}
      BY <2>1 DEF Missing, ToSet
    <2> QED BY <1>2, <1>4, <2>2 DEF r
  <1>6. ASSUME NEW t \in AddedTo(steps, Author), x[Author] = Text(t)
        PROVE  ToSet(r.items) \subseteq Allowed(o, steps, Author)
    <2>1. r = Text(written(t))
      BY <1>3, <1>6 DEF Text
    <2>2. written(t) \in Allowed(o, steps, Author)
      BY <1>6, WrittenAllowed
    <2>3. ToSet(r.items) = {written(t)}
      BY <2>1, OneText
    <2> QED BY <2>2, <2>3
  <1> QED BY <1>2, <1>4, <1>5, <1>6 DEF r

LEMMA LengthOf ==
    ASSUME NEW S, NEW s \in Seq(S)
    PROVE  Len(s) \in Nat
  OBVIOUS

LEMMA CountTo ==
    ASSUME NEW n \in Nat
    PROVE  IsFiniteSet(1..n) /\ Cardinality(1..n) = n
  <1>1. 1 \in Int /\ n \in Int
    OBVIOUS
  <1>2. IsFiniteSet(1..n) /\ Cardinality(1..n) = IF 1 > n THEN 0 ELSE n - 1 + 1
    BY <1>1, FS_Interval, Zenon
  <1> QED BY <1>2

\* As many values as items: no two items have the same value.
LEMMA AsManyValues ==
    ASSUME NEW S, NEW s \in Seq(S), Cardinality({s[i] : i \in 1..Len(s)}) = Len(s)
    PROVE  NoRepetition(s)
  <1>0. Len(s) \in Nat
    BY LengthOf, Zenon
  <1> DEFINE n == Len(s)
             D == 1..n
             values == {s[i] : i \in D}
             map == [i \in D |-> s[i]]
  <1>1. n \in Nat /\ Cardinality(values) = n
    BY <1>0
  <1>2. IsFiniteSet(D) /\ Cardinality(D) = n
    BY <1>1, CountTo, Zenon
  <1>3. map \in Surjection(D, values)
    BY DEF Surjection
  <1> HIDE DEF map, D, values
  <1>4. Cardinality(values) = Cardinality(D)
    BY <1>1, <1>2
  <1>5. map \in Injection(D, values)
    BY <1>2, <1>3, <1>4, FS_Surjection
  <1> QED BY <1>5 DEF Injection, IsInjective, NoRepetition, map, D

LEMMA ResultMarkings ==
    ASSUME NEW o, Sound(o), NEW au, NEW ma, NoIds(au), NoIds(ma), NoIds(TlpValues),
           NEW S, NEW steps \in Seq(S), \A k \in 1..Len(steps) : ValidStep(steps[k])
    PROVE  /\ ToSet(Result(o, steps, au, ma)[Markings].items) \subseteq Allowed(o, steps, Markings)
           /\ (/\ Addressing(steps, Markings) = {}
               /\ Cardinality({MarkingValue(t, ma) : t \in ToSet(o[Markings].items)})
                    = Len(o[Markings].items))
                => Result(o, steps, au, ma)[Markings] = o[Markings]
  <1> DEFINE x == Run(o, steps, au, ma).object
             v == ToValues(o, au, ma)
             r == Result(o, steps, au, ma)[Markings]
             refs == Refs(o, Markings)
             vals == MarkingValues(o, ma)
             values == NamesOf(o, ma)
             added == AddedTo(steps, Markings)
             written(t) == Written(o, au, ma, Markings, t)
             allowed == Allowed(o, steps, Markings)
  <1>1. DOMAIN x = Fields /\ Became(x, v, steps) /\ v[Markings].items \in Seq(values)
    <2>1. x = [f \in Fields |-> x[f]] /\ Became(x, v, steps) /\ v[Markings].items \in Seq(values)
      <3>1. x = [f \in Fields |-> x[f]] /\ Became(x, v, steps)
        BY StepsDone, Zenon
      <3>2. v[Markings].items \in Seq(values)
        BY StepsDone
      <3> QED BY <3>1, <3>2
    <2> HIDE DEF x, v, values
    <2> QED BY <2>1
  <1>2. r = IF x[Markings].kind = "list"
            THEN List(Distinct([i \in 1..Len(x[Markings].items) |-> written(x[Markings].items[i])]))
            ELSE x[Markings]
    BY <1>1, TwoFields DEF Result, ToRefs, Written, TypeFor
  <1>3. /\ \/ x[Markings] = v[Markings]
           \/ \E s \in Seq(ToSet(v[Markings].items) \cup added) : x[Markings] = List(s)
        /\ Addressing(steps, Markings) = {} => x[Markings] = v[Markings]
    BY <1>1 DEF Became
  <1>4. IF o[Markings].kind = "list"
        THEN o[Markings] = List(refs) /\ v[Markings] = List(Distinct(vals))
        ELSE v[Markings] = o[Markings]
    BY ValuesRead
  <1>5. Len(refs) \in Nat /\ refs \in Seq(ToSet(o[Markings].items))
    BY SoundRefs
  <1>6. ASSUME NEW t \in values \cup added PROVE written(t) \in allowed
    <2>1. \/ t \in added
          \/ \E i \in 1..Len(refs) : t = IF Markings = Author THEN Value(refs[i], au)
                                         ELSE MarkingValue(refs[i], ma)
      BY TwoFields DEF NamesOf
    <2> QED BY <2>1, WrittenAllowed
  <1> HIDE DEF x, v, r, values, added, written, allowed
  <1>7. x[Markings].items \in Seq(values \cup added)
    <2>1. v[Markings].items \in Seq(values \cup added)
      BY <1>1
    <2>2. ToSet(v[Markings].items) \subseteq values
      BY <1>1, ItemsOf
    <2>3. ASSUME NEW s \in Seq(ToSet(v[Markings].items) \cup added), x[Markings] = List(s)
          PROVE  x[Markings].items \in Seq(values \cup added)
      BY <2>2, <2>3, OneList
    <2> QED BY <1>3, <2>1, <2>3
  <1>8. CASE x[Markings].kind # "list"
    <2>1. x[Markings] = v[Markings]
      BY <1>3, <1>8, OneList
    <2>2. r = o[Markings]
      BY <1>2, <1>4, <1>8, <2>1, OneList
    <2> QED BY <2>2 DEF Allowed, allowed, r
  <1>9. CASE x[Markings].kind = "list"
    <2> DEFINE items == x[Markings].items
               ids == [i \in 1..Len(items) |-> written(items[i])]
    <2>1. ids \in Seq(allowed)
      <3>1. Len(items) \in Nat /\ \A i \in 1..Len(items) : items[i] \in values \cup added
        BY <1>7
      <3> HIDE DEF items
      <3>2. \A i \in 1..Len(items) : written(items[i]) \in allowed
        BY <1>6, <3>1
      <3> QED BY <3>1, <3>2
    <2>2. r = List(Distinct(ids))
      BY <1>2, <1>9
    <2> HIDE DEF ids
    <2>3. ToSet(r.items) \subseteq allowed
      <3>1. Distinct(ids) \in Seq(allowed)
        BY <2>1, DistinctItems
      <3> QED BY <2>2, <3>1, OneList, ItemsOf
    <2>4. ASSUME Addressing(steps, Markings) = {},
                 Cardinality({MarkingValue(t, ma) : t \in ToSet(o[Markings].items)})
                   = Len(o[Markings].items)
          PROVE  r = o[Markings]
      <3>1. x[Markings] = v[Markings]
        BY <1>3, <2>4
      <3>2. CASE o[Markings].kind = "list"
        <4>1. o[Markings] = List(refs) /\ v[Markings] = List(Distinct(vals)) /\ o[Markings].items = refs
          BY <1>4, <3>2, OneList
        <4>2. Len(vals) = Len(refs) /\ vals \in Seq(values)
              /\ \A i \in 1..Len(refs) : vals[i] = MarkingValue(refs[i], ma)
          BY <1>5 DEF MarkingValues, values, NamesOf
        <4>3. NoRepetition(vals)
          <5>1. {MarkingValue(t, ma) : t \in ToSet(o[Markings].items)} = {vals[i] : i \in 1..Len(vals)}
            <6>1. ToSet(o[Markings].items) = {refs[i] : i \in 1..Len(refs)}
              BY <1>5, <4>1, ItemsOf
            <6> HIDE DEF refs, vals
            <6> QED BY <4>2, <6>1
          <5>2. Cardinality({vals[i] : i \in 1..Len(vals)}) = Len(vals)
            BY <2>4, <4>1, <4>2, <5>1
          <5> QED BY <4>2, <5>2, AsManyValues
        <4>4. items = vals
          BY <3>1, <4>1, <4>2, <4>3, DistinctItems, OneList
        <4>5. ASSUME NEW i \in 1..Len(refs) PROVE written(vals[i]) = refs[i]
          <5>1. \/ vals[i] = refs[i] /\ vals[i] \in StixIds
                \/ vals[i] \notin StixIds /\ i \in Originals(o, au, ma, Markings, vals[i])
            BY <4>2, TwoFields, ReadAndWritten
          <5>2. \A j \in Originals(o, au, ma, Markings, vals[i]) :
                  j \in 1..Len(refs) /\ MarkingValue(refs[j], ma) = vals[i]
            BY TwoFields DEF Originals
          <5>3. \A j \in Originals(o, au, ma, Markings, vals[i]) : j = i
            BY <4>2, <4>3, <5>2 DEF NoRepetition
          <5> QED BY <1>5, <5>1, <5>3, WrittenIs DEF written
        <4>6. ids = refs
          <5>1. ids = [i \in 1..Len(refs) |-> refs[i]]
            BY <4>2, <4>4, <4>5 DEF ids
          <5> QED BY <1>5, <5>1
        <4>7. NoRepetition(refs)
          BY <4>2, <4>3 DEF NoRepetition
        <4> QED BY <1>5, <2>2, <4>1, <4>6, <4>7, DistinctItems
      <3>3. CASE o[Markings].kind # "list"
        BY <1>4, <1>9, <3>1, <3>3
      <3> QED BY <3>2, <3>3
    <2> QED BY <2>3, <2>4 DEF r, allowed
  <1> QED BY <1>8, <1>9

-----------------------------------------------------------------------------
(* What runs, on what, and with which names.                                 *)

LoadedInv ==
    /\ \A i \in 1..loaded : ValidPipeline(config, config.pipelines[i])
    /\ phase = "ready" => loaded = Len(config.pipelines)

BatchInv == stage # "idle" => \E b \in Buckets : batch \in Pending[b]

RowsInv == \E table \in Tables : rows \subseteq table \cup Late

NoneRaised ==
    stage = "done" =>
      \A i \in 1..Len(batch) : ~Run(batch[i], pipeline.steps, authors, markings).raised

OInv == LoadedInv /\ BatchInv /\ RowsInv /\ NoneRaised

LEMMA OInit == Init => OInv
  BY DEF Init, ManagerInit, OInv, LoadedInv, BatchInv, RowsInv, NoneRaised

LEMMA LoadedStep ==
    ASSUME XInv, LoadedInv, ManagerNext
    PROVE  LoadedInv'
  <1>1. config' = config /\ loaded \in Nat /\ Len(config.pipelines) \in Nat
    BY GraphType DEF XInv, IInv, TypeInv, ManagerNext, VisitRoot, VisitSink, Return, Routed,
                     Load, Ready
  <1>2. CASE Load
    <2>1. phase' # "ready"
      BY <1>2 DEF Load
    <2>2. \/ loaded' = loaded
          \/ loaded' = loaded + 1 /\ ValidPipeline(config, config.pipelines[loaded + 1])
      BY <1>2 DEF Load
    <2>3. \A i \in 1..loaded' : i \in 1..loaded \/ (loaded' = loaded + 1 /\ i = loaded + 1)
      BY <1>1, <2>2
    <2> QED BY <1>1, <2>1, <2>2, <2>3 DEF LoadedInv
  <1>3. CASE ~Load
    <2>1. loaded' = loaded /\ (phase' = "ready" => loaded = Len(config.pipelines))
      BY <1>3 DEF ManagerNext, VisitRoot, VisitSink, Return, Routed, Ready
    <2> QED BY <1>1, <2>1 DEF LoadedInv
  <1> QED BY <1>2, <1>3

LEMMA OStep == XInv /\ OInv /\ [Next]_vars => OInv'
  <1> SUFFICES ASSUME XInv, OInv, [Next]_vars PROVE OInv'
    OBVIOUS
  <1>1. CASE ManagerNext /\ UNCHANGED executionVars
    <2>1. /\ rows' = rows /\ stage' = stage /\ batch' = batch
          /\ pipeline' = pipeline /\ authors' = authors /\ markings' = markings
      BY <1>1 DEF executionVars
    <2> QED BY <1>1, <2>1, LoadedStep DEF OInv, BatchInv, RowsInv, NoneRaised
  <1>2. CASE Store
    <2>1. UNCHANGED managerVars /\ stage' = stage /\ stage # "done" /\ batch' = batch
      BY <1>2 DEF Store
    <2>2. \E r \in Late : rows' = rows \cup {r}
      BY <1>2 DEF Store
    <2> QED BY <2>1, <2>2 DEF managerVars, OInv, LoadedInv, BatchInv, RowsInv, NoneRaised
  <1>3. CASE Acquire
    <2>1. UNCHANGED managerVars /\ rows' = rows /\ stage' = "authors"
      BY <1>3 DEF Acquire
    <2>2. PICK i \in 1..Len(config.pipelines) :
            \E source \in config.pipelines[i].sources : batch' \in Pending[source]
      BY <1>3 DEF Acquire
    <2>3. config.pipelines[i].sources \subseteq Buckets
      BY ConfigsAssumption DEF XInv, IInv, TypeInv
    <2> QED BY <2>1, <2>2, <2>3 DEF managerVars, OInv, LoadedInv, BatchInv, RowsInv, NoneRaised
  <1>4. CASE FindAuthors \/ FindMarkings \/ Execute \/ UNCHANGED vars
    <2>1. UNCHANGED managerVars /\ rows' = rows /\ batch' = batch /\ (stage = "idle" => stage' = "idle")
      BY <1>4 DEF FindAuthors, FindMarkings, Execute, vars, executionVars
    <2>2. NoneRaised'
      <3>1. CASE FindAuthors \/ FindMarkings
        BY <3>1 DEF FindAuthors, FindMarkings, NoneRaised
      <3>2. CASE Execute
        BY <3>2 DEF Execute, NoneRaised
      <3>3. CASE UNCHANGED vars
        BY <3>3 DEF vars, executionVars, OInv, NoneRaised
      <3> QED BY <1>4, <3>1, <3>2, <3>3
    <2> QED BY <2>1, <2>2 DEF managerVars, OInv, LoadedInv, BatchInv, RowsInv
  <1> QED BY <1>1, <1>2, <1>3, <1>4 DEF Next

\* What is found for a ref is the value of a row that is stored under it.
LEMMA FoundRow ==
    ASSUME NEW table, \A r \in table : r.id \in Nat,
           NEW type, NEW refs, NEW ref \in DOMAIN FoundIn(table, type, refs)
    PROVE  /\ ref \in refs
           /\ \E r \in table : /\ r.type = type /\ (r.stix_id = ref \/ ref \in r.other)
                              /\ FoundIn(table, type, refs)[ref] = r.value
  <1> DEFINE rest == Matches(table, Buckets, type, ref)
             ids == {r.id : r \in rest}
  <1>1. ref \in refs /\ rest # {} /\ FoundIn(table, type, refs)[ref] = Oldest(rest).value
    BY DEF FoundIn, FindByRefs
  <1>2. \A r \in rest : r \in table /\ r.type = type /\ (r.stix_id = ref \/ ref \in r.other)
    BY DEF Matches
  <1> HIDE DEF rest
  <1>3. ids \subseteq Nat /\ ids # {}
    BY <1>1, <1>2
  <1>4. PICK m \in ids : \A n \in ids : m <= n
    BY <1>3, LeastNatural, Zenon
  <1>5. PICK r \in rest : r.id = m
    BY <1>4
  <1>6. \A s \in rest : r.id <= s.id
    BY <1>4, <1>5
  <1>7. Oldest(rest) \in rest
    BY <1>6, Zenon DEF Oldest
  <1> QED BY <1>1, <1>2, <1>7

LEMMA FoundNoIds ==
    ASSUME NEW table, \A r \in table : r.id \in Nat /\ r.value \notin StixIds,
           NEW type, NEW refs
    PROVE  NoIds(FoundIn(table, type, refs))
  BY FoundRow DEF NoIds

LEMMA NoInventedRef ==
    ASSUME NamesAreNoIds, XInv, OInv
    PROVE  OriginalRefs
  <1> SUFFICES ASSUME stage = "done", NEW i \in 1..Len(batch), NEW f \in DOMAIN Types,
                      GoodRefs(batch[i])
               PROVE  /\ ToSet(results[i][f].items) \subseteq Allowed(batch[i], pipeline.steps, f)
                      /\ (/\ Addressing(pipeline.steps, f) = {}
                          /\ Cardinality(Read(batch[i])[f].values) = Len(batch[i][f].items))
                           => results[i][f] = batch[i][f]
    BY DEF OriginalRefs, Allowed, Addressing, AddedTo
  <1>0. f \in {Author, Markings}
    BY FieldTypes
  <1> DEFINE o == batch[i]
             steps == pipeline.steps
  <1>1. Sound(o)
    <2>1. PICK b \in Buckets : batch \in Pending[b]
      BY DEF OInv, BatchInv
    <2>2. batch \in Seq(ToSet(batch))
      BY <2>1, PendingAssumption
    <2>3. o \in ToSet(batch)
      BY <2>2
    <2>4. o = [g \in Fields |-> o[g]] /\ \A g \in Fields : IsValue(o[g])
      BY <2>1, <2>3, PendingAssumption
    <2> QED BY <2>4 DEF Sound
  <1>2. pipeline \in Pipelines(config) /\ config \in Configs /\ phase = "ready"
    BY DEF XInv, StageInv, IInv, TypeInv
  <1>3. steps \in Seq(ToSet(steps))
    BY <1>2, StepsAssumption
  <1>4. \A k \in 1..Len(steps) : ValidStep(steps[k])
    <2>1. PICK n \in 1..Len(config.pipelines) : pipeline = config.pipelines[n]
      BY <1>2 DEF Pipelines
    <2>2. ValidPipeline(config, pipeline)
      BY <1>2, <2>1 DEF OInv, LoadedInv
    <2> QED BY <2>2 DEF ValidPipeline
  <1>5. NoIds(authors) /\ NoIds(markings)
    <2>1. \A r \in rows : r.id \in Nat /\ r.value \notin StixIds
      BY TablesAssumption DEF NamesAreNoIds, Storable, OInv, RowsInv
    <2>2. PICK early \in SUBSET ReadableRows :
            authors = FoundIn(early, "identity", AuthorRefs(Objects))
      BY DEF XInv, AuthorsInv
    <2>3. PICK late \in SUBSET ReadableRows :
            markings = FoundIn(late, "marking-definition", MarkingRefs(Objects))
      BY DEF XInv, MarkingsInv
    <2>4. early \subseteq rows /\ late \subseteq rows
      BY DEF ReadableRows
    <2> QED BY <2>1, <2>2, <2>3, <2>4, FoundNoIds
  <1>6. results[i] = Result(o, steps, authors, markings)
    BY DEF XInv, ResultsInv
  <1> HIDE DEF o, steps
  <1>7. CASE f = Author
    BY <1>1, <1>3, <1>4, <1>5, <1>6, <1>7, ResultAuthor DEF NamesAreNoIds, o, steps
  <1>8. CASE f = Markings
    <2>1. Read(o)[Markings].values = {MarkingValue(t, markings) : t \in ToSet(o[Markings].items)}
      <3>1. Markings \in DOMAIN o
        BY <1>1, TwoFields DEF Sound
      <3> QED BY <3>1, TwoFields DEF Read, MarkingValue
    <2>2. /\ ToSet(Result(o, steps, authors, markings)[Markings].items) \subseteq Allowed(o, steps, Markings)
          /\ (/\ Addressing(steps, Markings) = {}
              /\ Cardinality({MarkingValue(t, markings) : t \in ToSet(o[Markings].items)})
                   = Len(o[Markings].items))
               => Result(o, steps, authors, markings)[Markings] = o[Markings]
      BY <1>1, <1>3, <1>4, <1>5, ResultMarkings DEF NamesAreNoIds
    <2> QED BY <1>6, <1>8, <2>1, <2>2 DEF o, steps
  <1> QED BY <1>0, <1>7, <1>8

-----------------------------------------------------------------------------
(* Recursion over conditions: a function of all conditions exists that       *)
(* gives each what its equation makes of the parts.                          *)

ValidFrom(f, c) ==
    LET parts == [i \in 1..Len(c.parts) |-> f[c.parts[i]]] IN
      CASE c.type = "none" -> TRUE
        [] IsGroup(c)      -> \A i \in 1..Len(c.parts) : parts[i]
        [] OTHER           -> c.type \in SupportedConditions

EvaluateFrom(object, f, c) ==
    LET parts == [i \in 1..Len(c.parts) |-> f[c.parts[i]]] IN
      CASE c.type = "none" -> "true"
        [] c.type = "and"  -> FirstOther(parts, "true")
        [] c.type = "or"   -> FirstOther(parts, "false")
        [] OTHER           -> Test(object, c)

HoldsFrom(read, f, c) ==
    LET parts == [i \in 1..Len(c.parts) |-> f[c.parts[i]]] IN
      CASE c.type = "none" -> TRUE
        [] c.type = "and"  -> \A i \in 1..Len(c.parts) : parts[i]
        [] c.type = "or"   -> \E i \in 1..Len(c.parts) : parts[i]
        [] OTHER           -> Compares(read[c.field], c)

SoughtFrom(f, c) ==
    LET parts == [i \in 1..Len(c.parts) |-> f[c.parts[i]]] IN
      CASE IsGroup(c) -> UNION {parts[i] : i \in 1..Len(c.parts)}
        [] c.type \in {"contains", "not_contains"} -> {c.field}
        [] OTHER -> {}

\* The four equations as one.
ConditionFrom(kind, data, f, c) ==
    IF kind = "valid" THEN ValidFrom(f, c)
    ELSE IF kind = "evaluate" THEN EvaluateFrom(data, f, c)
    ELSE IF kind = "sought" THEN SoughtFrom(f, c)
    ELSE HoldsFrom(data, f, c)

PartsOf(c) == IF IsGroup(c) THEN {c.parts[i] : i \in 1..Len(c.parts)} ELSE {}

\* The parts of a condition are conditions.
LEMMA PartsAreConditions ==
    ASSUME NEW c \in Conditions
    PROVE  PartsOf(c) \subseteq Conditions
  <1>1. CASE IsGroup(c)
    <2>1. c.parts \in Seq(Conditions)
      BY <1>1, ConditionsAssumption
    <2>2. \A i \in 1..Len(c.parts) : c.parts[i] \in Conditions
      BY <2>1
    <2> QED BY <2>2 DEF PartsOf
  <1>2. CASE ~IsGroup(c)
    BY <1>2 DEF PartsOf
  <1> QED BY <1>1, <1>2

\* Of some conditions one has none of them as a part.
LEMMA InnermostCondition ==
    ASSUME NEW some, some \subseteq Conditions, some # {}
    PROVE  \E c \in some : PartsOf(c) \cap some = {}
  <1>1. PICK c \in some : IsGroup(c) => \A i \in 1..Len(c.parts) : c.parts[i] \notin some
    BY ConditionsAssumption
  <1>2. PartsOf(c) \cap some = {}
    BY <1>1 DEF PartsOf
  <1> QED BY <1>2

\* What is computed of a condition depends on what is computed of its parts.
LEMMA PartsDecide ==
    ASSUME NEW kind, NEW data, NEW f, NEW g, NEW c, \A p \in PartsOf(c) : f[p] = g[p]
    PROVE  ConditionFrom(kind, data, f, c) = ConditionFrom(kind, data, g, c)
  <1>1. CASE IsGroup(c)
    <2>1. \A i \in 1..Len(c.parts) : f[c.parts[i]] = g[c.parts[i]]
      BY <1>1 DEF PartsOf
    <2>2. [i \in 1..Len(c.parts) |-> f[c.parts[i]]] = [i \in 1..Len(c.parts) |-> g[c.parts[i]]]
      BY <2>1
    <2>3. ValidFrom(f, c) = ValidFrom(g, c)
      BY <2>2 DEF ValidFrom
    <2>4. EvaluateFrom(data, f, c) = EvaluateFrom(data, g, c)
      BY <2>2 DEF EvaluateFrom
    <2>5. HoldsFrom(data, f, c) = HoldsFrom(data, g, c)
      BY <2>2 DEF HoldsFrom
    <2>6. SoughtFrom(f, c) = SoughtFrom(g, c)
      BY <2>2 DEF SoughtFrom
    <2> QED BY <2>3, <2>4, <2>5, <2>6 DEF ConditionFrom
  <1>2. CASE ~IsGroup(c)
    <2>1. SoughtFrom(f, c) = SoughtFrom(g, c)
      BY <1>2 DEF SoughtFrom
    <2> QED BY <1>2, <2>1 DEF ConditionFrom, ValidFrom, EvaluateFrom, HoldsFrom, IsGroup
  <1> QED BY <1>1, <1>2

\* A function of some conditions and all their parts that satisfies the equation.
Attempt(kind, data, D, f) ==
    /\ D \subseteq Conditions
    /\ \A c \in D : PartsOf(c) \subseteq D
    /\ f = [c \in D |-> ConditionFrom(kind, data, f, c)]

\* Two functions that satisfy the recursion on sets closed under parts agree where both do.
LEMMA AttemptsAgree ==
    ASSUME NEW kind, NEW data, NEW D, NEW f, NEW E, NEW g,
           Attempt(kind, data, D, f), Attempt(kind, data, E, g)
    PROVE  \A c \in D \cap E : f[c] = g[c]
  <1> DEFINE wrong == {c \in D \cap E : f[c] # g[c]}
  <1> SUFFICES ASSUME wrong # {} PROVE FALSE
    OBVIOUS
  <1>1. PICK c \in wrong : PartsOf(c) \cap wrong = {}
    BY InnermostCondition DEF Attempt
  <1>2. \A p \in PartsOf(c) : f[p] = g[p]
    BY <1>1 DEF Attempt
  <1>3. ConditionFrom(kind, data, f, c) = ConditionFrom(kind, data, g, c)
    BY <1>2, PartsDecide
  <1>4. f[c] = ConditionFrom(kind, data, f, c) /\ g[c] = ConditionFrom(kind, data, g, c)
    BY <1>1 DEF Attempt
  <1> QED BY <1>1, <1>3, <1>4

\* There is a function on all conditions that satisfies the recursion.
LEMMA ConditionFunction ==
    ASSUME NEW kind, NEW data
    PROVE  \E f : f = [c \in Conditions |-> ConditionFrom(kind, data, f, c)]
  <1> DEFINE covered == {c \in Conditions :
                           \E D \in SUBSET Conditions : \E f : Attempt(kind, data, D, f) /\ c \in D}
             given(c) == CHOOSE v : \E D \in SUBSET Conditions : \E f :
                           Attempt(kind, data, D, f) /\ c \in D /\ v = f[c]
             F == [c \in covered |-> given(c)]
  <1>1. ASSUME NEW D, NEW f, Attempt(kind, data, D, f), NEW c \in D
        PROVE  c \in covered /\ F[c] = f[c] /\ PartsOf(c) \subseteq D
    <2>1. D \in SUBSET Conditions /\ PartsOf(c) \subseteq D
      BY <1>1 DEF Attempt
    <2>2. c \in covered
      BY <1>1, <2>1
    <2>3. PICK E, g : Attempt(kind, data, E, g) /\ c \in E /\ given(c) = g[c]
      <3>1. \E v : \E E \in SUBSET Conditions : \E g :
              Attempt(kind, data, E, g) /\ c \in E /\ v = g[c]
        BY <1>1, <2>1
      <3> QED BY <3>1, Zenon
    <2>4. f[c] = g[c]
      BY <1>1, <2>3, AttemptsAgree
    <2> QED BY <2>1, <2>2, <2>3, <2>4
  <1>2. Attempt(kind, data, covered, F)
    <2>1. ASSUME NEW c \in covered
          PROVE  PartsOf(c) \subseteq covered /\ F[c] = ConditionFrom(kind, data, F, c)
      <3>1. PICK D, f : Attempt(kind, data, D, f) /\ c \in D
        OBVIOUS
      <3> HIDE DEF covered, F
      <3>2. \A p \in PartsOf(c) : p \in D /\ p \in covered /\ f[p] = F[p]
        BY <1>1, <3>1
      <3>3. F[c] = f[c]
        BY <1>1, <3>1
      <3>4. f[c] = ConditionFrom(kind, data, f, c)
        BY <3>1 DEF Attempt
      <3>5. ConditionFrom(kind, data, f, c) = ConditionFrom(kind, data, F, c)
        BY <3>2, PartsDecide
      <3> QED BY <3>2, <3>3, <3>4, <3>5
    <2>2. F = [c \in covered |-> F[c]] /\ covered \subseteq Conditions
      OBVIOUS
    <2> HIDE DEF covered, F
    <2> QED BY <2>1, <2>2 DEF Attempt
  <1>3. Conditions \subseteq covered
    <2> SUFFICES ASSUME Conditions \ covered # {} PROVE FALSE
      OBVIOUS
    <2>1. PICK c \in Conditions \ covered : PartsOf(c) \cap (Conditions \ covered) = {}
      BY InnermostCondition
    <2>2. PartsOf(c) \subseteq covered
      BY <2>1, PartsAreConditions
    <2> DEFINE D == covered \cup {c}
               G == [d \in D |-> IF d \in covered THEN F[d] ELSE ConditionFrom(kind, data, F, c)]
    <2>3. D \in SUBSET Conditions /\ c \notin covered
      BY <2>1
    <2> HIDE DEF covered, F
    <2>4. ASSUME NEW d \in D
          PROVE  PartsOf(d) \subseteq D /\ G[d] = ConditionFrom(kind, data, G, d)
      <3>1. PartsOf(d) \subseteq covered
        BY <1>2, <2>2 DEF Attempt
      <3>2. \A p \in PartsOf(d) : F[p] = G[p]
        BY <3>1
      <3>3. ConditionFrom(kind, data, F, d) = ConditionFrom(kind, data, G, d)
        <4> HIDE DEF G
        <4> QED BY <3>2, PartsDecide
      <3>4. G[d] = ConditionFrom(kind, data, F, d)
        <4>1. CASE d \in covered
          BY <4>1, <1>2 DEF Attempt
        <4>2. CASE d = c
          BY <4>2, <2>3
        <4> QED BY <4>1, <4>2
      <3> QED BY <3>1, <3>3, <3>4
    <2>5. Attempt(kind, data, D, G)
      <3>1. G = [d \in D |-> G[d]]
        OBVIOUS
      <3> HIDE DEF D, G
      <3> QED BY <2>3, <2>4, <3>1 DEF Attempt
    <2> QED BY <2>3, <2>5 DEF covered
  <1>4. covered = Conditions
    BY <1>3
  <1>5. F = [c \in Conditions |-> ConditionFrom(kind, data, F, c)]
    <2> HIDE DEF F, covered
    <2> QED BY <1>2, <1>4 DEF Attempt
  <1> HIDE DEF F
  <1> QED BY <1>5

\* The equations of the four functions.
LEMMA ValidConditionIs ==
    \E valid : \A c \in Conditions :
      ValidCondition(c) = valid[c] /\ valid[c] = ValidFrom(valid, c)
  <1> DEFINE body(f) == [c \in Conditions |-> ValidFrom(f, c)]
             valid == CHOOSE g : g = body(g)
  <1>1. PICK f : f = [c \in Conditions |-> ConditionFrom("valid", <<>>, f, c)]
    BY ConditionFunction
  <1>2. \A c \in Conditions : ConditionFrom("valid", <<>>, f, c) = ValidFrom(f, c)
    BY DEF ConditionFrom
  <1>3. f = body(f)
    BY <1>1, <1>2
  <1>4. \A c : ValidCondition(c) = valid[c]
    BY DEF ValidCondition, ValidFrom
  <1>5. valid = body(valid)
    <2> HIDE DEF body
    <2> QED BY <1>3
  <1> HIDE DEF valid
  <1>6. \A c \in Conditions : valid[c] = ValidFrom(valid, c)
    BY <1>5
  <1> QED BY <1>4, <1>6

\* _evaluate_condition is what its recursion says.
LEMMA EvaluateIs ==
    ASSUME NEW object
    PROVE  \E value : \A c \in Conditions :
             Evaluate(object, c) = value[c] /\ value[c] = EvaluateFrom(object, value, c)
  <1> DEFINE body(f) == [c \in Conditions |-> EvaluateFrom(object, f, c)]
             value == CHOOSE g : g = body(g)
  <1>1. PICK f : f = [c \in Conditions |-> ConditionFrom("evaluate", object, f, c)]
    BY ConditionFunction
  <1>2. \A c \in Conditions : ConditionFrom("evaluate", object, f, c) = EvaluateFrom(object, f, c)
    BY DEF ConditionFrom
  <1>3. f = body(f)
    BY <1>1, <1>2
  <1>4. \A c : Evaluate(object, c) = value[c]
    BY DEF Evaluate, EvaluateFrom
  <1>5. value = body(value)
    <2> HIDE DEF body
    <2> QED BY <1>3
  <1> HIDE DEF value
  <1>6. \A c \in Conditions : value[c] = EvaluateFrom(object, value, c)
    BY <1>5
  <1> QED BY <1>4, <1>6

\* So is what a condition means.
LEMMA HoldsIs ==
    ASSUME NEW read
    PROVE  \E held : \A c \in Conditions :
             Holds(read, c) = held[c] /\ held[c] = HoldsFrom(read, held, c)
  <1> DEFINE body(f) == [c \in Conditions |-> HoldsFrom(read, f, c)]
             held == CHOOSE g : g = body(g)
  <1>1. PICK f : f = [c \in Conditions |-> ConditionFrom("holds", read, f, c)]
    BY ConditionFunction
  <1>2. \A c \in Conditions : ConditionFrom("holds", read, f, c) = HoldsFrom(read, f, c)
    BY DEF ConditionFrom
  <1>3. f = body(f)
    BY <1>1, <1>2
  <1>4. \A c : Holds(read, c) = held[c]
    BY DEF Holds, HoldsFrom
  <1>5. held = body(held)
    <2> HIDE DEF body
    <2> QED BY <1>3
  <1> HIDE DEF held
  <1>6. \A c \in Conditions : held[c] = HoldsFrom(read, held, c)
    BY <1>5
  <1> QED BY <1>4, <1>6

\* And the fields a condition looks into.
LEMMA SoughtIs ==
    \E sought : \A c \in Conditions :
      Sought(c) = sought[c] /\ sought[c] = SoughtFrom(sought, c)
  <1> DEFINE body(f) == [c \in Conditions |-> SoughtFrom(f, c)]
             sought == CHOOSE g : g = body(g)
  <1>1. PICK f : f = [c \in Conditions |-> ConditionFrom("sought", <<>>, f, c)]
    BY ConditionFunction
  <1>2. \A c \in Conditions : ConditionFrom("sought", <<>>, f, c) = SoughtFrom(f, c)
    BY DEF ConditionFrom
  <1>3. f = body(f)
    BY <1>1, <1>2
  <1>4. \A c : Sought(c) = sought[c]
    BY DEF Sought, SoughtFrom
  <1>5. sought = body(sought)
    <2> HIDE DEF body
    <2> QED BY <1>3
  <1> HIDE DEF sought
  <1>6. \A c \in Conditions : sought[c] = SoughtFrom(sought, c)
    BY <1>5
  <1> QED BY <1>4, <1>6

-----------------------------------------------------------------------------
(* A condition says of an object what it says of the fields as sets, unless  *)
(* the evaluation raises.                                                    *)

IsObject(x) ==
    /\ x = [f \in Fields |-> x[f]]
    /\ \A f \in Fields : IsValue(x[f])

AsSet(w) == [kind |-> w.kind, values |-> ToSet(w.items)]

Depicts(r, x) == r = [f \in Fields |-> AsSet(x[f])]

Says(test, holds) ==
    /\ test \in {"true", "false", "raises"}
    /\ test # "raises" => (test = "true" <=> holds)

\* The five kinds of values.
LEMMA KindsOfValues ==
    ASSUME NEW w, IsValue(w)
    PROVE  w.kind \in {"list", "text", "missing", "number", "null"}
  BY DEF IsValue, Text, List, Missing, Number, Null

LEMMA SameText == \A s, t : Text(s) = Text(t) <=> s = t
  BY DEF Text

\* "in" and "==" of Python, of a value and of what it is as a set.
LEMMA TestMeans ==
    ASSUME NEW x, NEW c, IsValue(x[c.field]), c.type \in SupportedConditions
    PROVE  Says(Test(x, c), Compares(AsSet(x[c.field]), c))
  <1> DEFINE w == x[c.field]
             set == AsSet(w)
             v == c.value
  <1>1. /\ w.kind = "text" => \E t : w = Text(t) /\ w.items = <<t>> /\ set.values = {t}
        /\ w.kind \notin {"text", "list"} => set.values = {}
        /\ set.kind = w.kind
        /\ w.kind \in {"list", "text", "missing", "number", "null"}
    <2>1. w.kind = "text" => \E t \in ToSet(w.items) : w = Text(t) /\ w.items = <<t>>
      BY ValueKinds
    <2>2. w.kind \notin {"text", "list"} => ToSet(w.items) = {}
      BY ValueKinds
    <2>3. w.kind \in {"list", "text", "missing", "number", "null"}
      BY KindsOfValues
    <2>4. set.values = ToSet(w.items) /\ set.kind = w.kind
      BY DEF AsSet
    <2> HIDE DEF w, set
    <2>5. ASSUME w.kind = "text"
          PROVE  \E t : w = Text(t) /\ w.items = <<t>> /\ set.values = {t}
      <3>1. PICK t \in ToSet(w.items) : w = Text(t) /\ w.items = <<t>>
        BY <2>1, <2>5
      <3>2. set.values = {t}
        BY <2>4, <3>1, OneText
      <3> QED BY <3>1, <3>2
    <2> QED BY <2>2, <2>3, <2>4, <2>5
  <1>2. w = Text(v) <=> set.kind = "text" /\ v \in set.values
    <2>1. CASE w.kind = "text"
      <3>1. PICK t : w = Text(t) /\ set.values = {t}
        BY <1>1, <2>1
      <3> HIDE DEF w, set
      <3> QED BY <1>1, <2>1, <3>1, SameText
    <2>2. CASE w.kind # "text"
      <3> HIDE DEF w, set
      <3> QED BY <1>1, <2>2, OneText
    <2> QED BY <2>1, <2>2
  <1> DEFINE within == \/ set.kind = "list" /\ v \in set.values
                       \/ set.kind = "missing" /\ <<v, "">> \in Substrings
                       \/ set.kind = "text" /\ \E t \in set.values : <<v, t>> \in Substrings
  <1>3. Within(v, w) <=> within
    <2>1. CASE w.kind = "text"
      <3>1. PICK t : w.items = <<t>> /\ set.values = {t}
        BY <1>1, <2>1
      <3>2. w.items[1] = t
        BY <3>1
      <3> HIDE DEF w, set
      <3> QED BY <1>1, <2>1, <3>1, <3>2 DEF Within
    <2>2. CASE w.kind = "list"
      BY <1>1, <2>2 DEF AsSet, Within
    <2>3. CASE w.kind \notin {"text", "list"}
      <3> HIDE DEF w, set
      <3> QED BY <1>1, <2>3 DEF Within
    <2> QED BY <2>1, <2>2, <2>3
  <1>8. Compares(set, c) <=> CASE c.type = "eq" -> set.kind = "text" /\ v \in set.values
                               [] c.type = "not_eq" -> ~(set.kind = "text" /\ v \in set.values)
                               [] c.type = "contains" -> within
                               [] OTHER -> ~within
    BY DEF Compares
  <1> HIDE DEF set, within
  <1>4. CASE c.type = "eq"
    BY <1>2, <1>4, <1>8 DEF Says, Test, Truth, set
  <1>5. CASE c.type = "not_eq"
    BY <1>2, <1>5, <1>8 DEF Says, Test, Truth, set
  <1>6. CASE c.type = "contains"
    BY <1>3, <1>6, <1>8 DEF Says, Test, Truth, set
  <1>7. CASE c.type = "not_contains"
    <2>1. /\ Test(x, c) \in {"true", "false", "raises"}
          /\ Test(x, c) = "true" => ~Within(v, w)
          /\ Test(x, c) = "false" => Within(v, w)
      <3> DEFINE is == Within(v, w)
      <3>1. (is = (c.type = "contains")) <=> ~is
        BY <1>7 DEF Within
      <3> HIDE DEF is
      <3>2. Test(x, c) = IF w.kind \in {"number", "null"} THEN "raises" ELSE Truth(~is)
        BY <1>7, <3>1 DEF Test, Truth, is
      <3> QED BY <3>2 DEF Truth, is
    <2>2. Compares(set, c) <=> ~within
      BY <1>7, <1>8
    <2> QED BY <1>3, <2>1, <2>2 DEF Says, set
  <1> QED BY <1>4, <1>5, <1>6, <1>7 DEF SupportedConditions

\* all() and any(), which stop at the first part that decides.
LEMMA FirstDecides ==
    ASSUME NEW n \in Nat, NEW outcomes, Len(outcomes) = n, NEW usual
    PROVE  \/ FirstOther(outcomes, usual) = usual /\ \A i \in 1..n : outcomes[i] = usual
           \/ \E i \in 1..n : outcomes[i] # usual /\ FirstOther(outcomes, usual) = outcomes[i]
  <1> DEFINE others == {i \in 1..n : outcomes[i] # usual}
             first == CHOOSE i \in others : \A j \in others : i <= j
  <1>1. FirstOther(outcomes, usual) = IF others = {} THEN usual ELSE outcomes[first]
    BY DEF FirstOther
  <1>2. ASSUME others # {} PROVE first \in others
    <2>1. others \subseteq Nat
      OBVIOUS
    <2> HIDE DEF others
    <2>2. PICK m \in others : \A j \in others : m <= j
      BY <1>2, <2>1, LeastNatural, Zenon
    <2> QED BY <2>2, Zenon
  <1> HIDE DEF first
  <1> QED BY <1>1, <1>2

\* A condition that start-up accepts says of an object what it says of its picture.
LEMMA ConditionMeans ==
    ASSUME NEW x, IsObject(x), NEW r, Depicts(r, x), NEW c \in Conditions, ValidCondition(c)
    PROVE  Says(Evaluate(x, c), Holds(r, c))
  <1>1. PICK valid : \A d \in Conditions :
          ValidCondition(d) = valid[d] /\ valid[d] = ValidFrom(valid, d)
    BY ValidConditionIs
  <1>2. PICK value : \A d \in Conditions :
          Evaluate(x, d) = value[d] /\ value[d] = EvaluateFrom(x, value, d)
    BY EvaluateIs
  <1>3. PICK held : \A d \in Conditions :
          Holds(r, d) = held[d] /\ held[d] = HoldsFrom(r, held, d)
    BY HoldsIs
  <1> DEFINE wrong == {d \in Conditions : valid[d] /\ ~Says(value[d], held[d])}
  <1>4. ASSUME NEW d \in Conditions, valid[d], PartsOf(d) \cap wrong = {}
        PROVE  Says(value[d], held[d])
    <2> DEFINE n == Len(d.parts)
               values == [i \in 1..n |-> value[d.parts[i]]]
               helds == [i \in 1..n |-> held[d.parts[i]]]
    <2>1. ValidFrom(valid, d) /\ value[d] = EvaluateFrom(x, value, d) /\ held[d] = HoldsFrom(r, held, d)
      BY <1>1, <1>2, <1>3, <1>4
    <2>2. CASE d.type = "none"
      BY <2>1, <2>2 DEF EvaluateFrom, HoldsFrom, Says
    <2>3. CASE IsGroup(d)
      <3>1. d.parts \in Seq(Conditions) /\ n \in Nat
        BY <2>3, ConditionsAssumption
      <3>2. \A i \in 1..n : d.parts[i] \in Conditions /\ d.parts[i] \in PartsOf(d)
        BY <2>3, <3>1 DEF PartsOf
      <3>3. \A i \in 1..n : valid[d.parts[i]]
        BY <2>1, <2>3 DEF ValidFrom, IsGroup
      <3>4. \A i \in 1..n : Says(value[d.parts[i]], held[d.parts[i]])
        BY <1>4, <3>2, <3>3
      <3>5. \A i \in 1..n : values[i] = value[d.parts[i]] /\ helds[i] = held[d.parts[i]]
        OBVIOUS
      <3>6. Len(values) = n
        BY <3>1
      <3>7. CASE d.type = "and"
        <4>1. value[d] = FirstOther(values, "true") /\ (held[d] <=> \A i \in 1..n : helds[i])
          BY <2>1, <3>7 DEF EvaluateFrom, HoldsFrom
        <4> HIDE DEF n, values, helds
        <4> QED BY <3>1, <3>4, <3>5, <3>6, <4>1, FirstDecides DEF Says
      <3>8. CASE d.type = "or"
        <4>1. value[d] = FirstOther(values, "false") /\ (held[d] <=> \E i \in 1..n : helds[i])
          BY <2>1, <3>8 DEF EvaluateFrom, HoldsFrom
        <4> HIDE DEF n, values, helds
        <4> QED BY <3>1, <3>4, <3>5, <3>6, <4>1, FirstDecides DEF Says
      <3> QED BY <2>3, <3>7, <3>8 DEF IsGroup
    <2>4. CASE ~IsGroup(d) /\ d.type # "none"
      <3>1. d.field \in Fields /\ d.type \in SupportedConditions
        BY <2>1, <2>4, ConditionsAssumption DEF ValidFrom
      <3>2. value[d] = Test(x, d) /\ held[d] = Compares(r[d.field], d)
        BY <2>1, <2>4 DEF EvaluateFrom, HoldsFrom, IsGroup
      <3>3. IsValue(x[d.field]) /\ r[d.field] = AsSet(x[d.field])
        BY <3>1 DEF IsObject, Depicts
      <3> QED BY <3>1, <3>2, <3>3, TestMeans
    <2> QED BY <2>2, <2>3, <2>4
  <1>5. wrong = {}
    <2> SUFFICES ASSUME wrong # {} PROVE FALSE
      OBVIOUS
    <2>1. wrong \subseteq Conditions
      OBVIOUS
    <2>2. PICK d \in wrong : PartsOf(d) \cap wrong = {}
      <3> HIDE DEF wrong
      <3> QED BY <2>1, InnermostCondition
    <2> QED BY <1>4, <2>2
  <1> QED BY <1>1, <1>2, <1>3, <1>5

-----------------------------------------------------------------------------
(* A list without repetitions as a set: append, list.remove, Distinct.       *)

\* An item added at the end.
LEMMA Appended ==
    ASSUME NEW S, NEW s \in Seq(S), NEW e \in S
    PROVE  /\ ToSet(Append(s, e)) = ToSet(s) \cup {e}
           /\ NoRepetition(s) /\ e \notin ToSet(s) => NoRepetition(Append(s, e))
  <1>1. /\ Append(s, e) \in Seq(S) /\ Len(Append(s, e)) = Len(s) + 1 /\ Len(s) \in Nat
        /\ \A i \in 1..Len(s) : Append(s, e)[i] = s[i]
        /\ Append(s, e)[Len(s) + 1] = e
    OBVIOUS
  <1>2. /\ ToSet(s) = {s[i] : i \in 1..Len(s)}
        /\ ToSet(Append(s, e)) = {Append(s, e)[i] : i \in 1..(Len(s) + 1)}
    BY <1>1, ItemsOf
  <1>3. \A i \in 1..(Len(s) + 1) : i = Len(s) + 1 \/ i \in 1..Len(s)
    BY <1>1
  <1>4. /\ \A i \in 1..Len(s) : i \in 1..(Len(s) + 1)
        /\ Len(s) + 1 \in 1..(Len(s) + 1)
    BY <1>1
  <1> DEFINE t == Append(s, e)
             n == Len(s) + 1
             D == 1..Len(s)
  <1>5. ToSet(t) = ToSet(s) \cup {e}
    <2>1. ToSet(t) = {t[i] : i \in 1..n} /\ ToSet(s) = {s[i] : i \in D}
      BY <1>2
    <2>2. \A i \in 1..n : i = n \/ i \in D
      BY <1>3
    <2>3. /\ \A i \in D : i \in 1..n /\ t[i] = s[i]
          /\ n \in 1..n /\ t[n] = e
      BY <1>1, <1>4
    <2> HIDE DEF t, n, D
    <2> QED BY <2>1, <2>2, <2>3, Zenon
  <1>6. ASSUME NoRepetition(s), e \notin ToSet(s)
        PROVE  NoRepetition(t)
    <2>1. \A i \in 1..Len(s) : s[i] # e
      BY <1>2, <1>6
    <2> QED BY <1>1, <1>3, <1>6, <2>1 DEF NoRepetition
  <1> QED BY <1>5, <1>6

\* list.remove, of a list without repetition.
LEMMA RemovedFirst ==
    ASSUME NEW S, NEW s \in Seq(S), NEW e, NoRepetition(s), e \in ToSet(s)
    PROVE  /\ ToSet(RemoveFirst(s, e)) = ToSet(s) \ {e}
           /\ NoRepetition(RemoveFirst(s, e))
  <1> DEFINE found == {i \in 1..Len(s) : s[i] = e}
             t == RemoveFirst(s, e)
             n == Len(s)
  <1>0. n \in Nat /\ ToSet(s) = {s[i] : i \in 1..n}
    BY ItemsOf
  <1>1. found # {} /\ found \subseteq Nat
    BY <1>0
  <1>2. PICK m \in found : \A i \in found : m <= i
    BY <1>1, LeastNatural, Zenon
  <1>3. Min(found) \in found
    BY <1>2, Zenon DEF Min
  <1>4. t = SubSeq(s, 1, Min(found) - 1) \o SubSeq(s, Min(found) + 1, Len(s))
    BY <1>1 DEF RemoveFirst, RemoveAt, SelectInSeq
  <1> HIDE DEF found, t
  <1>5. PICK k \in 1..n : k = Min(found) /\ s[k] = e
    BY <1>3 DEF found
  <1> DEFINE front == SubSeq(s, 1, k - 1)
             back == SubSeq(s, k + 1, n)
  <1>6. /\ front \in Seq(S) /\ Len(front) = k - 1 /\ \A i \in 1..(k - 1) : front[i] = s[i]
        /\ back \in Seq(S) /\ Len(back) = n - k /\ \A i \in 1..(n - k) : back[i] = s[k + i]
    BY <1>0
  <1>7. /\ t = front \o back /\ Len(t) = n - 1 /\ t \in Seq(S)
        /\ \A i \in 1..(n - 1) : t[i] = IF i < k THEN s[i] ELSE s[i + 1]
    <2>1. t = front \o back
      BY <1>4, <1>5
    <2> HIDE DEF front, back, n
    <2>2. t \in Seq(S) /\ Len(t) = n - 1
      BY <1>0, <1>6, <2>1
    <2>3. ASSUME NEW i \in 1..(n - 1), i < k PROVE t[i] = s[i]
      BY <1>0, <1>6, <2>1, <2>3
    <2>4. ASSUME NEW i \in 1..(n - 1), ~(i < k) PROVE t[i] = s[i + 1]
      <3>1. t[i] = back[i - (k - 1)]
        BY <1>0, <1>6, <2>1, <2>4
      <3>2. i - (k - 1) \in 1..(n - k) /\ k + (i - (k - 1)) = i + 1
        BY <1>0, <2>4
      <3> QED BY <1>6, <3>1, <3>2
    <2> QED BY <2>1, <2>2, <2>3, <2>4
  <1> HIDE DEF front, back
  <1>8. ToSet(t) = {t[i] : i \in 1..(n - 1)}
    <2> HIDE DEF n
    <2>1. t \in Seq(S) /\ Len(t) = n - 1
      BY <1>7
    <2>2. ToSet(t) = {t[i] : i \in 1..Len(t)}
      BY <2>1, ItemsOf
    <2> QED BY <2>1, <2>2
  <1>9. \A i, j \in 1..n : s[i] = s[j] => i = j
    BY DEF NoRepetition
  <1> HIDE DEF n
  <1> DEFINE at(i) == IF i < k THEN i ELSE i + 1
  <1>10. ASSUME NEW i \in 1..(n - 1)
         PROVE  at(i) \in 1..n /\ at(i) # k /\ t[i] = s[at(i)]
    <2>1. at(i) \in 1..n /\ at(i) # k
      BY <1>0
    <2>2. t[i] = s[at(i)]
      BY <1>7
    <2> QED BY <2>1, <2>2
  <1>11. ASSUME NEW j \in 1..n, j # k
         PROVE  \E i \in 1..(n - 1) : at(i) = j
    <2>1. CASE j < k
      <3>1. j \in 1..(n - 1) /\ at(j) = j
        BY <1>0, <2>1
      <3> QED BY <3>1
    <2>2. CASE ~(j < k)
      <3>1. j - 1 \in 1..(n - 1) /\ at(j - 1) = j
        BY <1>0, <1>11, <2>2
      <3> QED BY <3>1
    <2> QED BY <2>1, <2>2
  <1>12. \A i, j \in 1..(n - 1) : at(i) = at(j) => i = j
    BY <1>0
  <1> HIDE DEF at
  <1>13. ToSet(t) = ToSet(s) \ {e}
    <2>1. ASSUME NEW v \in ToSet(t) PROVE v \in ToSet(s) /\ v # e
      <3>1. PICK i \in 1..(n - 1) : v = t[i]
        BY <1>8, <2>1
      <3>2. at(i) \in 1..n /\ at(i) # k /\ v = s[at(i)]
        BY <1>10, <3>1
      <3> QED BY <1>0, <1>5, <1>9, <3>2
    <2>2. ASSUME NEW v \in ToSet(s), v # e PROVE v \in ToSet(t)
      <3>1. PICK j \in 1..n : v = s[j]
        BY <1>0, <2>2
      <3>2. PICK i \in 1..(n - 1) : at(i) = j
        BY <1>5, <1>11, <2>2, <3>1
      <3> QED BY <1>8, <1>10, <3>1, <3>2
    <2> QED BY <2>1, <2>2
  <1>14. NoRepetition(t)
    <2> SUFFICES ASSUME NEW i \in 1..(n - 1), NEW j \in 1..(n - 1), t[i] = t[j] PROVE i = j
      BY <1>7 DEF NoRepetition
    <2>1. at(i) \in 1..n /\ at(j) \in 1..n /\ s[at(i)] = s[at(j)]
      BY <1>10
    <2>2. at(i) = at(j)
      BY <1>9, <2>1
    <2> QED BY <1>12, <2>2
  <1> QED BY <1>13, <1>14 DEF t

\* Without duplicates, a list has the same items.
LEMMA DistinctAsSet ==
    ASSUME NEW S, NEW s \in Seq(S)
    PROVE  /\ ToSet(Distinct(s)) = ToSet(s)
           /\ NoRepetition(Distinct(s))
  <1>1. PICK acc :
          /\ acc[1..0] = <<>>
          /\ \A n \in 1..Len(s) : acc[1..n] = Kept(acc[1..(n - 1)], s[n])
          /\ Distinct(s) = acc[1..Len(s)]
    BY DistinctFold
  <1> DEFINE right == {n \in Nat : n <= Len(s) =>
                         /\ acc[1..n] \in Seq(S)
                         /\ ToSet(acc[1..n]) = {s[i] : i \in 1..n}
                         /\ NoRepetition(acc[1..n])}
  <1>2. 0 \in right
    <2>1. <<>> \in Seq(S) /\ ToSet(<<>>) = {} /\ NoRepetition(<<>>)
      BY DEF ToSet, NoRepetition
    <2>2. {s[i] : i \in 1..0} = {}
      OBVIOUS
    <2> QED BY <1>1, <2>1, <2>2
  <1>3. ASSUME NEW n \in Nat, n \in right PROVE n + 1 \in right
    <2> SUFFICES ASSUME n + 1 <= Len(s)
                 PROVE  /\ acc[1..(n + 1)] \in Seq(S)
                        /\ ToSet(acc[1..(n + 1)]) = {s[i] : i \in 1..(n + 1)}
                        /\ NoRepetition(acc[1..(n + 1)])
      OBVIOUS
    <2>1. n + 1 \in 1..Len(s) /\ (n + 1) - 1 = n /\ s[n + 1] \in S
      OBVIOUS
    <2>2. /\ acc[1..n] \in Seq(S) /\ NoRepetition(acc[1..n])
          /\ ToSet(acc[1..n]) = {s[i] : i \in 1..n}
      BY <1>3, <2>1
    <2>3. acc[1..(n + 1)] = Kept(acc[1..n], s[n + 1])
      BY <1>1, <2>1
    <2>4. {s[i] : i \in 1..(n + 1)} = {s[i] : i \in 1..n} \cup {s[n + 1]}
      <3>1. \A i \in 1..(n + 1) : i = n + 1 \/ i \in 1..n
        OBVIOUS
      <3>2. n + 1 \in 1..(n + 1) /\ \A i \in 1..n : i \in 1..(n + 1)
        OBVIOUS
      <3> QED BY <3>1, <3>2, Zenon
    <2> HIDE DEF right
    <2>5. CASE s[n + 1] \in ToSet(acc[1..n])
      <3>1. acc[1..(n + 1)] = acc[1..n]
        BY <2>3, <2>5 DEF Kept
      <3>2. {s[i] : i \in 1..(n + 1)} = ToSet(acc[1..n])
        BY <2>2, <2>4, <2>5
      <3> QED BY <2>2, <3>1, <3>2
    <2>6. CASE s[n + 1] \notin ToSet(acc[1..n])
      <3>1. acc[1..(n + 1)] = Append(acc[1..n], s[n + 1])
        BY <2>3, <2>6 DEF Kept
      <3>2. Append(acc[1..n], s[n + 1]) \in Seq(S)
        BY <2>1, <2>2
      <3>3. /\ ToSet(Append(acc[1..n], s[n + 1])) = ToSet(acc[1..n]) \cup {s[n + 1]}
            /\ NoRepetition(Append(acc[1..n], s[n + 1]))
        BY <2>1, <2>2, <2>6, Appended
      <3> QED BY <2>2, <2>4, <3>1, <3>2, <3>3
    <2> QED BY <2>5, <2>6
  <1>4. Len(s) \in right
    <2>1. Len(s) \in Nat
      OBVIOUS
    <2> HIDE DEF right
    <2> QED BY <1>2, <1>3, <2>1, Induct
  <1>5. ToSet(s) = {s[i] : i \in 1..Len(s)}
    BY ItemsOf
  <1> QED BY <1>1, <1>4, <1>5

-----------------------------------------------------------------------------
(* The steps do to an object what they mean for its fields as sets.          *)

\* No list of the object repeats an item.
Tidy(x) ==
    \A f \in DOMAIN FIELDS : FIELDS[f].kind = "list" => NoRepetition(x[f].items)

\* What a step that applies makes of its field.
Changed(step, current) ==
    CASE step.action = "set" -> [kind |-> "text", values |-> {step.value}]
      [] step.action = "add" -> [kind |-> "list", values |-> current.values \cup {step.value}]
      [] step.action = "delete" /\ FIELDS[step.field].kind = "list" ->
           [kind |-> current.kind, values |-> current.values \ {step.value}]
      [] OTHER -> [kind |-> "missing", values |-> {}]

\* A step whose condition holds changes one field of the picture, any other none.
LEMMA MeantIs ==
    ASSUME NEW r, NEW step, NEW x, Depicts(r, x), step.field \in Fields
    PROVE  Meant(r, step) = IF Holds(r, step.condition)
                            THEN [r EXCEPT ![step.field] = Changed(step, r[step.field])]
                            ELSE r
  <1>1. CASE Holds(r, step.condition)
    <2>1. CASE step.action = "set"
      BY <1>1, <2>1 DEF Meant, Changed
    <2>2. CASE step.action = "add"
      BY <1>1, <2>2 DEF Meant, Changed
    <2>3. CASE step.action \notin {"set", "add"}
      BY <1>1, <2>3 DEF Meant, Changed
    <2> QED BY <2>1, <2>2, <2>3
  <1>2. CASE ~Holds(r, step.condition)
    BY <1>2 DEF Meant
  <1> QED BY <1>1, <1>2

\* Lists, texts and missing fields, with their pictures.
LEMMA ListValue ==
    ASSUME NEW S, NEW s \in Seq(S)
    PROVE  IsValue(List(s)) /\ AsSet(List(s)) = [kind |-> "list", values |-> ToSet(s)]
  <1>1. s \in Seq(ToSet(s))
    BY ItemsOf
  <1> QED BY <1>1 DEF IsValue, AsSet, List

LEMMA TextValue ==
    ASSUME NEW t
    PROVE  IsValue(Text(t)) /\ AsSet(Text(t)) = [kind |-> "text", values |-> {t}]
  <1>1. Text(t).items = <<t>> /\ ToSet(<<t>>) = {t} /\ Text(t).kind = "text"
    BY OneText
  <1>2. <<t>> \in Seq({t}) /\ t \in {t}
    OBVIOUS
  <1> QED BY <1>1, <1>2 DEF IsValue, AsSet

LEMMA NoValue == IsValue(Missing) /\ AsSet(Missing) = [kind |-> "missing", values |-> {}]
  <1>1. Missing.items = <<>> /\ ToSet(<<>>) = {} /\ <<>> \in Seq({}) /\ Missing.kind = "missing"
    BY DEF Missing, ToSet
  <1> QED BY <1>1 DEF IsValue, AsSet

\* What a step makes of a field depicts what it means.
LEMMA PerformMeans ==
    ASSUME NEW step, ValidStep(step), NEW w, IsValue(w), ~WrongShape(step, w),
           FIELDS[step.field].kind = "list" => NoRepetition(w.items)
    PROVE  /\ IsValue(Perform(step, w))
           /\ AsSet(Perform(step, w)) = Changed(step, AsSet(w))
           /\ FIELDS[step.field].kind = "list" => NoRepetition(Perform(step, w).items)
  <1> DEFINE isList == FIELDS[step.field].kind = "list"
             v == step.value
             after == Perform(step, w)
  <1>1. \/ step.action = "set" /\ ~isList
        \/ step.action = "add" /\ isList
        \/ step.action = "delete"
    BY DEF ValidStep, FIELDS
  <1>2. /\ w.items \in Seq(ToSet(w.items))
        /\ w.kind = "list" => w = List(w.items)
        /\ w.kind \notin {"list", "text"} => w.items = <<>> /\ ToSet(w.items) = {}
    BY ValueKinds
  <1>3. AsSet(w).kind = w.kind /\ AsSet(w).values = ToSet(w.items)
    BY DEF AsSet
  <1>4. CASE step.action = "set" /\ ~isList
    <2>1. after = Text(v)
      BY <1>4 DEF Perform
    <2>2. Changed(step, AsSet(w)) = [kind |-> "text", values |-> {v}]
      BY <1>4 DEF Changed
    <2> QED BY <1>4, <2>1, <2>2, TextValue
  <1>5. CASE step.action = "add" /\ isList
    <2>1. Changed(step, AsSet(w)) = [kind |-> "list", values |-> ToSet(w.items) \cup {v}]
      BY <1>3, <1>5 DEF Changed
    <2>2. CASE w.kind # "list"
      <3>1. after = List(<<v>>)
        BY <1>5, <2>2 DEF Perform
      <3>2. ToSet(w.items) = {}
        BY <1>2, <1>5, <2>2 DEF WrongShape
      <3>3. <<v>> \in Seq({v}) /\ ToSet(<<v>>) = {v} /\ NoRepetition(<<v>>)
        BY OneText DEF NoRepetition
      <3>4. {v} = ToSet(w.items) \cup {v}
        BY <3>2
      <3> QED BY <2>1, <3>1, <3>3, <3>4, ListValue, OneList
    <2>3. CASE w.kind = "list" /\ v \in ToSet(w.items)
      <3>1. after = w
        BY <1>5, <2>3 DEF Perform
      <3>2. ToSet(w.items) = ToSet(w.items) \cup {v}
        BY <2>3
      <3>3. AsSet(w) = [kind |-> "list", values |-> ToSet(w.items)]
        BY <2>3 DEF AsSet
      <3> QED BY <1>5, <2>1, <3>1, <3>2, <3>3
    <2>4. CASE w.kind = "list" /\ v \notin ToSet(w.items)
      <3> DEFINE S == ToSet(w.items) \cup {v}
                 s == Append(w.items, v)
      <3>1. after = List(s)
        BY <1>5, <2>4 DEF Perform
      <3>2. w.items \in Seq(S) /\ v \in S
        <4>1. ToSet(w.items) \subseteq S /\ v \in S
          OBVIOUS
        <4> HIDE DEF S
        <4> QED BY <1>2, <4>1
      <3>3. s \in Seq(S) /\ ToSet(s) = ToSet(w.items) \cup {v} /\ NoRepetition(s)
        <4> HIDE DEF S
        <4> QED BY <1>5, <2>4, <3>2, Appended
      <3> HIDE DEF s, S
      <3> QED BY <2>1, <3>1, <3>3, ListValue, OneList
    <2> QED BY <2>2, <2>3, <2>4
  <1>6. CASE step.action = "delete" /\ isList
    <2>1. Changed(step, AsSet(w)) = [kind |-> w.kind, values |-> ToSet(w.items) \ {v}]
      BY <1>3, <1>6 DEF Changed
    <2>2. CASE v \notin ToSet(w.items)
      <3>1. after = w
        BY <1>6, <2>2 DEF Perform
      <3>2. ToSet(w.items) = ToSet(w.items) \ {v}
        BY <2>2
      <3>3. AsSet(w) = [kind |-> w.kind, values |-> ToSet(w.items)]
        BY DEF AsSet
      <3> QED BY <1>6, <2>1, <3>1, <3>2, <3>3
    <2>3. CASE v \in ToSet(w.items)
      <3> DEFINE s == RemoveFirst(w.items, v)
      <3>1. after = List(s)
        BY <1>6, <2>3 DEF Perform
      <3>2. w.kind = "list"
        BY <1>2, <1>6, <2>3 DEF WrongShape
      <3>3. /\ s \in Seq(ToSet(w.items)) /\ ToSet(s) = ToSet(w.items) \ {v}
            /\ NoRepetition(s)
        BY <1>2, <1>6, <2>3, RemoveFirstItems, RemovedFirst
      <3> HIDE DEF s
      <3> QED BY <2>1, <3>1, <3>2, <3>3, ListValue, OneList
    <2> QED BY <2>2, <2>3
  <1>7. CASE step.action = "delete" /\ ~isList
    <2>1. after = Missing
      BY <1>7 DEF Perform
    <2>2. Changed(step, AsSet(w)) = [kind |-> "missing", values |-> {}]
      BY <1>7 DEF Changed
    <2> QED BY <1>7, <2>1, <2>2, NoValue
  <1> QED BY <1>1, <1>4, <1>5, <1>6, <1>7

IsRun(run) == run = [raised |-> run.raised, object |-> run.object]

\* A run that has not raised holds an object that looks as it is meant to.
Means(run, r) ==
    /\ IsRun(run)
    /\ run.raised \in BOOLEAN
    /\ ~run.raised =>
         IsObject(run.object) /\ Tidy(run.object) /\ Depicts(r, run.object)

\* A run that raises is still a run, and has raised.
LEMMA RunRaised ==
    ASSUME NEW run, IsRun(run)
    PROVE  LET after == [run EXCEPT !.raised = TRUE] IN
             IsRun(after) /\ after.raised /\ after.object = run.object
  <1> DEFINE z == [run EXCEPT !.raised = TRUE]
             D == {"raised", "object"}
  <1>1. DOMAIN run = D /\ "raised" # "object"
    BY DEF IsRun
  <1>2. z = [f \in D |-> IF f = "raised" THEN TRUE ELSE run[f]]
    BY <1>1
  <1>3. z.raised /\ z.object = run.object /\ z = [f \in D |-> z[f]]
    BY <1>1, <1>2
  <1> HIDE DEF z
  <1>4. z = [raised |-> z.raised, object |-> z.object]
    BY <1>3
  <1> QED BY <1>3, <1>4 DEF IsRun, z

\* A run that goes on with another object.
LEMMA RunGoesOn ==
    ASSUME NEW run, IsRun(run), NEW y
    PROVE  LET after == [run EXCEPT !.object = y] IN
             IsRun(after) /\ after.raised = run.raised /\ after.object = y
  <1> DEFINE z == [run EXCEPT !.object = y]
             D == {"raised", "object"}
  <1>1. DOMAIN run = D /\ "raised" # "object"
    BY DEF IsRun
  <1>2. z = [f \in D |-> IF f = "object" THEN y ELSE run[f]]
    BY <1>1
  <1>3. z.raised = run.raised /\ z.object = y /\ z = [f \in D |-> z[f]]
    BY <1>1, <1>2
  <1> HIDE DEF z
  <1>4. z = [raised |-> z.raised, object |-> z.object]
    BY <1>3
  <1> QED BY <1>3, <1>4 DEF IsRun, z

\* One step keeps a run and its picture together.
LEMMA ApplyMeans ==
    ASSUME NEW step, ValidStep(step), step.condition \in Conditions,
           NEW run, NEW r, Means(run, r)
    PROVE  Means(Apply(run, step), Meant(r, step))
  <1> DEFINE x == run.object
             field == step.field
             test == Evaluate(x, step.condition)
             done == Perform(step, x[field])
             y == [x EXCEPT ![field] = done]
  <1>0. field \in DOMAIN FIELDS /\ field \in Fields /\ ValidCondition(step.condition)
    BY FieldsAssumption DEF ValidStep
  <1>1. CASE run.raised
    <2>1. Apply(run, step) = run
      BY <1>1 DEF Apply
    <2> QED BY <1>1, <2>1 DEF Means
  <1>2. CASE ~run.raised
    <2>1. IsObject(x) /\ Tidy(x) /\ Depicts(r, x)
      BY <1>2 DEF Means
    <2>2. Says(test, Holds(r, step.condition))
      BY <1>0, <2>1, ConditionMeans
    <2>3. Meant(r, step) = IF Holds(r, step.condition)
                           THEN [r EXCEPT ![field] = Changed(step, r[field])]
                           ELSE r
      BY <1>0, <2>1, MeantIs
    <2>4. CASE test = "raises" \/ (test = "true" /\ WrongShape(step, x[field]))
      <3>1. Apply(run, step) = [run EXCEPT !.raised = TRUE]
        BY <1>2, <2>4 DEF Apply
      <3> DEFINE after == [run EXCEPT !.raised = TRUE]
      <3>2. IsRun(after) /\ after.raised
        BY RunRaised DEF Means
      <3> HIDE DEF after
      <3> QED BY <3>1, <3>2 DEF Means, after
    <2>5. CASE test = "false"
      <3>1. Apply(run, step) = run
        BY <2>5 DEF Apply
      <3>2. Meant(r, step) = r
        BY <2>2, <2>3, <2>5 DEF Says
      <3> QED BY <3>1, <3>2
    <2>6. CASE test = "true" /\ ~WrongShape(step, x[field])
      <3>1. Apply(run, step) = [run EXCEPT !.object = y]
        BY <1>2, <2>6 DEF Apply
      <3>2. Meant(r, step) = [r EXCEPT ![field] = Changed(step, r[field])]
        BY <2>2, <2>3, <2>6 DEF Says
      <3>3. /\ IsValue(done) /\ AsSet(done) = Changed(step, AsSet(x[field]))
            /\ FIELDS[field].kind = "list" => NoRepetition(done.items)
        BY <1>0, <2>1, <2>6, PerformMeans DEF IsObject, Tidy
      <3> HIDE DEF done
      <3>4. /\ y = [f \in Fields |-> y[f]]
            /\ y[field] = done
            /\ \A f \in Fields : f # field => y[f] = x[f]
        BY <1>0, <2>1 DEF IsObject
      <3> HIDE DEF y
      <3>5. IsObject(y) /\ Tidy(y)
        BY <2>1, <3>3, <3>4, FieldsAssumption DEF IsObject, Tidy
      <3>6. Depicts(Meant(r, step), y)
        <4>1. r = [f \in Fields |-> AsSet(x[f])]
          BY <2>1 DEF Depicts
        <4>2. Meant(r, step) = [f \in Fields |->
                                  IF f = field THEN Changed(step, r[field]) ELSE r[f]]
          BY <3>2, <4>1
        <4>3. Changed(step, r[field]) = AsSet(done)
          BY <1>0, <3>3, <4>1
        <4>4. \A f \in Fields :
                (IF f = field THEN Changed(step, r[field]) ELSE r[f]) = AsSet(y[f])
          BY <3>4, <4>1, <4>3
        <4> QED BY <4>2, <4>4 DEF Depicts
      <3> DEFINE after == [run EXCEPT !.object = y]
      <3>7. IsRun(after) /\ after.raised = run.raised /\ after.object = y
        BY RunGoesOn DEF Means
      <3> HIDE DEF after
      <3>8. Means(after, Meant(r, step))
        BY <3>5, <3>6, <3>7 DEF Means
      <3> QED BY <3>1, <3>8 DEF after
    <2> QED BY <2>2, <2>4, <2>5, <2>6 DEF Says
  <1> QED BY <1>1, <1>2 DEF Means

MeantFrom(read, steps, acc, part) ==
    IF part = {} THEN read ELSE Meant(acc[part \ {Max(part)}], steps[Max(part)])

\* What steps mean, one after the other.
LEMMA MeantFold ==
    ASSUME NEW read, NEW S, NEW steps \in Seq(S)
    PROVE  \E acc :
             /\ acc[1..0] = read
             /\ \A n \in 1..Len(steps) : acc[1..n] = Meant(acc[1..(n - 1)], steps[n])
             /\ AllMeant(read, steps) = acc[1..Len(steps)]
  <1>0. DOMAIN steps = 1..Len(steps)
    OBVIOUS
  <1>1. \A f, p : FoldedFrom("meant", read, steps, f, p) = MeantFrom(read, steps, f, p)
    BY DEF FoldedFrom, Folded, MeantFrom
  <1>2. PICK f : f = [p \in SUBSET DOMAIN steps |-> MeantFrom(read, steps, f, p)]
    <2>1. PICK f : IsFold(f, "meant", read, steps)
      BY FoldExists, Zenon
    <2>2. [p \in SUBSET (1..Len(steps)) |-> FoldedFrom("meant", read, steps, f, p)]
            = [p \in SUBSET (1..Len(steps)) |-> MeantFrom(read, steps, f, p)]
      BY <1>1
    <2> QED BY <1>0, <2>1, <2>2, Zenon DEF IsFold
  <1>3. AllMeant(read, steps)
          = (CHOOSE g : g = [p \in SUBSET DOMAIN steps |-> MeantFrom(read, steps, g, p)])[DOMAIN steps]
    BY DEF AllMeant, FoldLeft, MapThenFoldSet, MeantFrom
  <1>4. PICK acc : acc = [p \in SUBSET DOMAIN steps |-> MeantFrom(read, steps, acc, p)]
                     /\ AllMeant(read, steps) = acc[DOMAIN steps]
    BY <1>2, <1>3
  <1>5. IsFold(acc, "meant", read, steps)
    <2>1. [p \in SUBSET (1..Len(steps)) |-> FoldedFrom("meant", read, steps, acc, p)]
            = [p \in SUBSET (1..Len(steps)) |-> MeantFrom(read, steps, acc, p)]
      BY <1>1
    <2> QED BY <1>0, <1>4, <2>1, Zenon DEF IsFold
  <1>6. /\ acc[1..0] = read
        /\ \A n \in 1..Len(steps) : acc[1..n] = Folded("meant", acc[1..(n - 1)], steps[n])
    BY <1>5, FoldSteps
  <1> QED BY <1>0, <1>4, <1>6 DEF Folded

\* All steps, one after the other.
LEMMA RunMeans ==
    ASSUME NEW S, NEW steps \in Seq(S),
           \A k \in 1..Len(steps) : ValidStep(steps[k]) /\ steps[k].condition \in Conditions,
           NEW v, IsObject(v), Tidy(v), NEW read, Depicts(read, v)
    PROVE  Means(RunSteps(v, steps), AllMeant(read, steps))
  <1>1. PICK runs :
          /\ runs[1..0] = Started(v)
          /\ \A n \in 1..Len(steps) : runs[1..n] = Apply(runs[1..(n - 1)], steps[n])
          /\ RunSteps(v, steps) = runs[1..Len(steps)]
    BY RunFold
  <1>2. PICK meanings :
          /\ meanings[1..0] = read
          /\ \A n \in 1..Len(steps) : meanings[1..n] = Meant(meanings[1..(n - 1)], steps[n])
          /\ AllMeant(read, steps) = meanings[1..Len(steps)]
    BY MeantFold
  <1> DEFINE right == {n \in Nat : n <= Len(steps) => Means(runs[1..n], meanings[1..n])}
  <1>3. 0 \in right
    <2> DEFINE run == Started(v)
    <2>1. run = [raised |-> FALSE, object |-> v] /\ ~run.raised /\ run.object = v
      BY DEF Started
    <2>2. IsRun(run) /\ run.raised \in BOOLEAN
      BY <2>1 DEF IsRun
    <2> HIDE DEF run
    <2>3. Means(run, read)
      BY <2>1, <2>2 DEF Means
    <2> QED BY <1>1, <1>2, <2>3 DEF run
  <1>4. ASSUME NEW n \in Nat, n \in right PROVE n + 1 \in right
    <2> SUFFICES ASSUME n + 1 <= Len(steps) PROVE Means(runs[1..(n + 1)], meanings[1..(n + 1)])
      OBVIOUS
    <2>1. n + 1 \in 1..Len(steps) /\ (n + 1) - 1 = n
      OBVIOUS
    <2>2. Means(runs[1..n], meanings[1..n])
      BY <1>4, <2>1
    <2>3. /\ runs[1..(n + 1)] = Apply(runs[1..n], steps[n + 1])
          /\ meanings[1..(n + 1)] = Meant(meanings[1..n], steps[n + 1])
      BY <1>1, <1>2, <2>1
    <2> HIDE DEF right
    <2> QED BY <2>1, <2>2, <2>3, ApplyMeans
  <1>5. Len(steps) \in right
    <2>1. Len(steps) \in Nat
      OBVIOUS
    <2> HIDE DEF right
    <2> QED BY <1>3, <1>4, <2>1, Induct
  <1> QED BY <1>1, <1>2, <1>5

-----------------------------------------------------------------------------
(* The values the steps are given are what the object means.                 *)

\* The readable value of a ref of a field.
NameOf(f, ref, au, ma) == IF f = Author THEN Value(ref, au) ELSE MarkingValue(ref, ma)

ReadWith(o, au, ma) ==
    [f \in DOMAIN o |->
       [kind |-> o[f].kind,
        values |-> {CASE f = Author   -> Value(x, au)
                      [] f = Markings -> MarkingValue(x, ma)
                      [] OTHER        -> x : x \in ToSet(o[f].items)}]]

\* "Read" is what the resolver of the state makes of an object.
LEMMA ReadIs == \A o : Read(o) = ReadWith(o, authors, markings)
  BY DEF Read, ReadWith, MarkingValue

Names(f, w, au, ma) ==
    [kind |-> w.kind, values |-> {NameOf(f, y, au, ma) : y \in ToSet(w.items)}]

\* Two fields are read through names, the others as they are.
LEMMA ReadFields ==
    ASSUME NEW o, DOMAIN o = Fields, NEW au, NEW ma
    PROVE  LET r == ReadWith(o, au, ma) IN
             /\ r = [f \in Fields |-> r[f]]
             /\ \A f \in {Author, Markings} : r[f] = Names(f, o[f], au, ma)
             /\ \A f \in Fields \ {Author, Markings} : r[f] = AsSet(o[f])
  <1> DEFINE r == ReadWith(o, au, ma)
  <1>1. r = [f \in Fields |-> r[f]]
    BY DEF ReadWith
  <1>2. r[Author] = Names(Author, o[Author], au, ma)
    BY TwoFields DEF ReadWith, Names, NameOf
  <1>3. r[Markings] = Names(Markings, o[Markings], au, ma)
    BY TwoFields DEF ReadWith, Names, NameOf
  <1>4. ASSUME NEW f \in Fields, f \notin {Author, Markings}
        PROVE  r[f] = AsSet(o[f])
    <2>1. r[f] = [kind |-> o[f].kind, values |-> {x : x \in ToSet(o[f].items)}]
      BY <1>4 DEF ReadWith
    <2>2. {x : x \in ToSet(o[f].items)} = ToSet(o[f].items)
      OBVIOUS
    <2> QED BY <2>1, <2>2 DEF AsSet
  <1> QED BY <1>1, <1>2, <1>3, <1>4

\* Neither a list of authors nor markings that are a text.
Clean(o) ==
    /\ IsObject(o)
    /\ NoRepetition(o.labels.items)
    /\ o[Author].kind # "list" /\ o[Markings].kind # "text"

\* The refs of a clean object are the items of its two fields.
LEMMA CleanRefs ==
    ASSUME NEW o, Clean(o)
    PROVE  /\ DOMAIN o = Fields
           /\ \A f \in Fields : IsValue(o[f])
           /\ Refs(o, Markings) = o[Markings].items
           /\ o[Markings].items \in Seq(ToSet(o[Markings].items))
           /\ \/ o[Author].kind # "text" /\ ToSet(o[Author].items) = {} /\ Refs(o, Author) = <<>>
              \/ \E t : /\ o[Author] = Text(t) /\ ToSet(o[Author].items) = {t}
                        /\ Refs(o, Author) = IF t \in StixIds THEN <<t>> ELSE <<>>
  <1>1. DOMAIN o = Fields /\ \A f \in Fields : IsValue(o[f])
    BY DEF Clean, IsObject
  <1>2. Refs(o, Markings) = o[Markings].items
    BY DEF Clean, Refs, Iterated
  <1>3. o[Markings].items \in Seq(ToSet(o[Markings].items))
    BY <1>1, TwoFields, ValueKinds
  <1>4. CASE o[Author].kind # "text"
    <2>1. ToSet(o[Author].items) = {}
      BY <1>1, <1>4, TwoFields, ValueKinds DEF Clean
    <2>2. Refs(o, Author) = <<>>
      BY <1>4, TwoFields DEF Refs
    <2> QED BY <1>1, <1>2, <1>3, <1>4, <2>1, <2>2
  <1>5. CASE o[Author].kind = "text"
    <2>1. PICK t : o[Author] = Text(t) /\ o[Author].items = <<t>>
      BY <1>1, <1>5, TwoFields, ValueKinds
    <2>2. ToSet(o[Author].items) = {t} /\ o[Author].items[1] = t
      BY <2>1, OneText
    <2>3. Refs(o, Author) = IF t \in StixIds THEN <<t>> ELSE <<>>
      BY <1>5, <2>2, TwoFields DEF Refs
    <2> QED BY <1>1, <1>2, <1>3, <2>1, <2>2, <2>3
  <1> QED BY <1>4, <1>5

\* to_values depicts what is read, in lists without repetition.
LEMMA ValuesMean ==
    ASSUME NEW o, Clean(o), NEW au, NEW ma, DOMAIN au \subseteq StixIds
    PROVE  LET v == ToValues(o, au, ma) IN
             /\ IsObject(v) /\ Tidy(v) /\ Depicts(ReadWith(o, au, ma), v)
             /\ v[Author].kind = o[Author].kind /\ v[Markings].kind = o[Markings].kind
  <1> DEFINE v == ToValues(o, au, ma)
             refs == Refs(o, Markings)
             vals == MarkingValues(o, ma)
  <1>0. /\ DOMAIN o = Fields /\ \A f \in Fields : IsValue(o[f])
        /\ refs = o[Markings].items /\ refs \in Seq(ToSet(o[Markings].items))
    BY CleanRefs
  <1>1. /\ v = [f \in Fields |-> v[f]]
        /\ v[Author] = IF Refs(o, Author) # <<>> THEN Text(Value(Refs(o, Author)[1], au))
                       ELSE o[Author]
        /\ v[Markings] = IF refs # <<>> THEN List(Distinct(vals)) ELSE o[Markings]
        /\ \A f \in Fields \ {Author, Markings} : v[f] = o[f]
    BY <1>0, TwoFields DEF ToValues, MarkingValues
  <1> HIDE DEF v
  <1>2. IsValue(v[Author]) /\ AsSet(v[Author]) = Names(Author, o[Author], au, ma)
    <2>1. CASE o[Author].kind # "text"
      <3>1. ToSet(o[Author].items) = {} /\ Refs(o, Author) = <<>>
        BY <2>1, CleanRefs, OneText
      <3>2. v[Author] = o[Author]
        BY <1>1, <3>1
      <3>3. {NameOf(Author, y, au, ma) : y \in ToSet(o[Author].items)} = ToSet(o[Author].items)
        BY <3>1
      <3> QED BY <1>0, <3>2, <3>3, TwoFields DEF AsSet, Names
    <2>2. CASE o[Author].kind = "text"
      <3>1. PICK t : /\ o[Author] = Text(t) /\ ToSet(o[Author].items) = {t}
                     /\ Refs(o, Author) = IF t \in StixIds THEN <<t>> ELSE <<>>
        BY <2>2, CleanRefs
      <3>2. Names(Author, o[Author], au, ma) = [kind |-> "text", values |-> {Value(t, au)}]
        <4>1. {NameOf(Author, y, au, ma) : y \in {t}} = {Value(t, au)}
          BY DEF NameOf
        <4> QED BY <2>2, <3>1, <4>1 DEF Names
      <3>3. v[Author] = Text(Value(t, au))
        <4>1. CASE t \in StixIds
          <5>1. <<t>> # <<>> /\ <<t>>[1] = t
            OBVIOUS
          <5> QED BY <1>1, <3>1, <4>1, <5>1
        <4>2. CASE t \notin StixIds
          <5>1. Value(t, au) = t
            BY <4>2 DEF Value
          <5> QED BY <1>1, <3>1, <4>2, <5>1
        <4> QED BY <4>1, <4>2
      <3> QED BY <3>2, <3>3, TextValue
    <2> QED BY <2>1, <2>2
  <1>3. /\ IsValue(v[Markings]) /\ AsSet(v[Markings]) = Names(Markings, o[Markings], au, ma)
        /\ NoRepetition(v[Markings].items)
    <2>1. CASE refs = <<>>
      <3>1. v[Markings] = o[Markings] /\ o[Markings].items = <<>> /\ ToSet(<<>>) = {}
        BY <1>0, <1>1, <2>1 DEF ToSet
      <3>2. {NameOf(Markings, y, au, ma) : y \in ToSet(o[Markings].items)} = ToSet(o[Markings].items)
        BY <3>1
      <3>3. NoRepetition(v[Markings].items)
        BY <3>1 DEF NoRepetition
      <3> QED BY <1>0, <3>1, <3>2, <3>3, TwoFields DEF AsSet, Names
    <2>2. CASE refs # <<>>
      <3>1. o[Markings].kind = "list"
        <4>1. IsValue(o[Markings]) /\ o[Markings].kind # "text"
          BY <1>0, TwoFields DEF Clean
        <4> QED BY <1>0, <2>2, <4>1, ValueKinds
      <3> DEFINE names == {MarkingValue(y, ma) : y \in ToSet(o[Markings].items)}
      <3>2. /\ Len(refs) \in Nat /\ refs \in Seq(ToSet(o[Markings].items))
            /\ ToSet(o[Markings].items) = {refs[i] : i \in 1..Len(refs)}
        BY <1>0, ItemsOf
      <3>3. vals = [i \in 1..Len(refs) |-> MarkingValue(refs[i], ma)]
        BY DEF MarkingValues
      <3> HIDE DEF refs, vals
      <3>4. /\ vals \in Seq(names) /\ Len(vals) = Len(refs)
            /\ \A i \in 1..Len(refs) : vals[i] = MarkingValue(refs[i], ma)
        <4>1. \A i \in 1..Len(refs) : MarkingValue(refs[i], ma) \in names
          BY <3>2
        <4> HIDE DEF names
        <4> QED BY <3>2, <3>3, <4>1
      <3>5. ToSet(vals) = names
        <4>1. ToSet(vals) = {vals[i] : i \in 1..Len(refs)}
          BY <3>4, ItemsOf
        <4> QED BY <3>2, <3>4, <4>1, Zenon
      <3> HIDE DEF names
      <3>6. Distinct(vals) \in Seq(names) /\ ToSet(Distinct(vals)) = names /\ NoRepetition(Distinct(vals))
        BY <3>4, <3>5, DistinctItems, DistinctAsSet
      <3>7. v[Markings] = List(Distinct(vals))
        BY <1>1, <2>2
      <3>8. Names(Markings, o[Markings], au, ma) = [kind |-> "list", values |-> names]
        BY <3>1, TwoFields DEF Names, NameOf, names
      <3> QED BY <3>6, <3>7, <3>8, ListValue, OneList
    <2> QED BY <2>1, <2>2
  <1>4. IsObject(v)
    BY <1>0, <1>1, <1>2, <1>3 DEF IsObject
  <1>5. Tidy(v)
    <2>1. \A f \in DOMAIN FIELDS : FIELDS[f].kind = "list" => f = Markings \/ (f = "labels" /\ f \notin {Author, Markings})
      BY DEF FIELDS, Author, Markings
    <2> QED BY <1>1, <1>3, <2>1, FieldsAssumption DEF Tidy, Clean
  <1>6. Depicts(ReadWith(o, au, ma), v)
    <2> DEFINE r == ReadWith(o, au, ma)
    <2>1. /\ r = [f \in Fields |-> r[f]]
          /\ \A f \in {Author, Markings} : r[f] = Names(f, o[f], au, ma)
          /\ \A f \in Fields \ {Author, Markings} : r[f] = AsSet(o[f])
      BY <1>0, ReadFields
    <2> HIDE DEF r
    <2>2. \A f \in Fields : r[f] = AsSet(v[f])
      BY <1>1, <1>2, <1>3, <2>1
    <2> QED BY <2>1, <2>2 DEF Depicts, r
  <1>7. v[Author].kind = o[Author].kind /\ v[Markings].kind = o[Markings].kind
    BY <1>2, <1>3 DEF AsSet, Names
  <1> QED BY <1>4, <1>5, <1>6, <1>7 DEF v

-----------------------------------------------------------------------------
(* A name survives its way to a ref and back.                                *)

\* How "Canonical" writes a value of a field.
Clear(f, x, words) == IF x \in words \ StixIds THEN PlatformId(TypeFor(f), x) ELSE x

\* A value of a field that stands for itself, if it is an id; otherwise what has its
\* platform id is it.
Faithful(f, v, au, ma) ==
    IF v \in StixIds THEN NameOf(f, v, au, ma) = v
    ELSE LET id == PlatformId(TypeFor(f), v)
         IN  id \in StixIds /\ NameOf(f, id, au, ma) \in {v, id}

\* A value the object had, by the ref "y", or a step has added.
ReadOrAdded(o, f, v, au, ma, words) ==
    \/ \E y \in ToSet(o[f].items) : y \in words /\ v = NameOf(f, y, au, ma)
    \/ v \in words /\ Faithful(f, v, au, ma)

\* The refs that have a readable value.
LEMMA NamedRefs ==
    ASSUME NEW o, Clean(o), NEW au, NEW ma, DOMAIN au \subseteq StixIds,
           NEW f \in {Author, Markings}, NEW y \in ToSet(o[f].items),
           NameOf(f, y, au, ma) # y
    PROVE  Originals(o, au, ma, f, NameOf(f, y, au, ma)) # {}
  <1>1. CASE f = Author
    <2>1. y \in DOMAIN au /\ NameOf(f, y, au, ma) = au[y] /\ y \in StixIds
      BY <1>1 DEF NameOf, Value
    <2>2. Refs(o, Author) = <<y>>
      <3>1. PICK t : /\ ToSet(o[Author].items) = {t}
                     /\ Refs(o, Author) = IF t \in StixIds THEN <<t>> ELSE <<>>
        BY <1>1, CleanRefs
      <3>2. y = t
        BY <1>1, <3>1
      <3> QED BY <2>1, <3>1, <3>2
    <2>3. 1 \in 1..Len(<<y>>) /\ <<y>>[1] = y
      OBVIOUS
    <2>4. 1 \in Originals(o, au, ma, f, NameOf(f, y, au, ma))
      BY <1>1, <2>1, <2>2, <2>3 DEF Originals
    <2> QED BY <2>4
  <1>2. CASE f = Markings
    <2> DEFINE refs == Refs(o, Markings)
    <2>1. ToSet(o[Markings].items) = {refs[i] : i \in 1..Len(refs)}
      <3>1. refs = o[Markings].items /\ o[Markings].items \in Seq(ToSet(o[Markings].items))
        BY CleanRefs
      <3> QED BY <3>1, ItemsOf
    <2>2. PICK i \in 1..Len(refs) : y = refs[i]
      BY <1>2, <2>1
    <2>3. NameOf(f, y, au, ma) = MarkingValue(y, ma) /\ y \in DOMAIN TlpValues \cup DOMAIN ma
      BY <1>2, TwoFields DEF NameOf, MarkingValue, Value
    <2>4. i \in Originals(o, au, ma, f, NameOf(f, y, au, ma))
      BY <1>2, <2>2, <2>3, TwoFields DEF Originals
    <2> QED BY <2>4
  <1> QED BY <1>1, <1>2

\* The ref that "setdefault" has kept for a value is read as this value.
LEMMA OriginalsRead ==
    ASSUME NEW o, NEW au, NEW ma, NEW f \in {Author, Markings}, NEW v,
           NEW i \in Originals(o, au, ma, f, v)
    PROVE  NameOf(f, Refs(o, f)[i], au, ma) = v
  <1>1. CASE f = Author
    BY <1>1 DEF Originals, NameOf, Value
  <1>2. CASE f = Markings
    BY <1>2, TwoFields DEF Originals, NameOf
  <1> QED BY <1>1, <1>2

\* What to_refs writes for a value is read as this value, or as its platform id.
LEMMA NameComesBack ==
    ASSUME NEW o, Clean(o), NEW au, NEW ma, DOMAIN au \subseteq StixIds,
           NoIds(au), NoIds(ma), NoIds(TlpValues), NEW f \in {Author, Markings},
           NEW words, \A w \in words : Faithful(f, w, au, ma) \/ w \in StixIds,
           NEW v, ReadOrAdded(o, f, v, au, ma, words)
    PROVE  Clear(f, NameOf(f, Written(o, au, ma, f, v), au, ma), words) = Clear(f, v, words)
  <1> DEFINE w == Written(o, au, ma, f, v)
             from == Originals(o, au, ma, f, v)
  <1>1. /\ v \in StixIds => w = v
        /\ v \notin StixIds /\ from # {} => \E i \in from : w = Refs(o, f)[i]
        /\ v \notin StixIds /\ from = {} => w = PlatformId(TypeFor(f), v)
    <2>1. Len(Refs(o, f)) \in Nat
      <3>1. CASE f = Author
        <4>1. \E t : Refs(o, Author) \in {<<>>, <<t>>}
          BY CleanRefs
        <4> QED BY <3>1, <4>1
      <3>2. CASE f = Markings
        BY <3>2, CleanRefs
      <3> QED BY <3>1, <3>2
    <2> QED BY <2>1, WrittenIs
  <1> HIDE DEF w
  <1>2. CASE v \in StixIds
    <2>1. NameOf(f, v, au, ma) = v
      <3>1. CASE \E y \in ToSet(o[f].items) : v = NameOf(f, y, au, ma)
        <4>1. PICK y \in ToSet(o[f].items) : v = NameOf(f, y, au, ma)
          BY <3>1
        <4>2. y = v
          BY <1>2, <4>1 DEF NameOf, Value, MarkingValue, NoIds
        <4> QED BY <4>1, <4>2
      <3>2. CASE Faithful(f, v, au, ma)
        BY <1>2, <3>2 DEF Faithful
      <3> QED BY <3>1, <3>2 DEF ReadOrAdded
    <2> QED BY <1>1, <1>2, <2>1 DEF w
  <1>3. CASE v \notin StixIds /\ from # {}
    <2>1. PICK i \in from : w = Refs(o, f)[i]
      BY <1>1, <1>3
    <2>2. NameOf(f, w, au, ma) = v
      BY <2>1, OriginalsRead
    <2> QED BY <2>2 DEF w
  <1>4. CASE v \notin StixIds /\ from = {}
    <2> DEFINE id == PlatformId(TypeFor(f), v)
    <2>1. v \in words
      <3>1. ASSUME NEW y \in ToSet(o[f].items), y \in words, v = NameOf(f, y, au, ma)
            PROVE  v \in words
        <4>1. v = y
          BY <1>4, <3>1, NamedRefs
        <4> QED BY <3>1, <4>1
      <3> QED BY <3>1 DEF ReadOrAdded
    <2>2. id \in StixIds /\ NameOf(f, id, au, ma) \in {v, id}
      BY <1>4, <2>1 DEF Faithful
    <2>3. w = id
      BY <1>1, <1>4
    <2>4. Clear(f, v, words) = id /\ Clear(f, id, words) = id
      BY <1>4, <2>1, <2>2 DEF Clear
    <2> HIDE DEF id
    <2> QED BY <2>2, <2>3, <2>4 DEF w
  <1> QED BY <1>2, <1>3, <1>4

\* Fields with the same values, up to the names that stand for their platform ids.
LEMMA CanonicalIs ==
    ASSUME NEW r, NEW q, DOMAIN r = Fields, DOMAIN q = Fields, NEW words,
           \A f \in Fields \ {Author, Markings} : r[f] = q[f],
           \A f \in {Author, Markings} :
             /\ r[f].kind = q[f].kind
             /\ {Clear(f, x, words) : x \in r[f].values} = {Clear(f, x, words) : x \in q[f].values}
    PROVE  Canonical(r, words) = Canonical(q, words)
  <1> DEFINE image(w, f) ==
               IF f \notin DOMAIN Types THEN w[f]
               ELSE [kind |-> w[f].kind,
                     values |-> {IF x \in words \ StixIds THEN PlatformId(Types[f], x) ELSE x :
                                   x \in w[f].values}]
  <1>1. ASSUME NEW f \in Fields
        PROVE  image(r, f) = image(q, f)
    <2>1. CASE f \in DOMAIN Types
      <3>1. f \in {Author, Markings} /\ Types[f] = TypeFor(f)
        BY <2>1, FieldTypes
      <3>2. \A w : image(w, f) = [kind |-> w[f].kind,
                                  values |-> {Clear(f, x, words) : x \in w[f].values}]
        BY <2>1, <3>1 DEF Clear
      <3> HIDE DEF image
      <3> QED BY <3>1, <3>2
    <2>2. CASE f \notin DOMAIN Types
      <3>1. f \in Fields \ {Author, Markings}
        BY <2>2, FieldTypes
      <3> QED BY <2>2, <3>1
    <2> QED BY <2>1, <2>2
  <1>2. /\ Canonical(r, words) = [f \in Fields |-> image(r, f)]
        /\ Canonical(q, words) = [f \in Fields |-> image(q, f)]
    BY DEF Canonical
  <1> HIDE DEF image
  <1> QED BY <1>1, <1>2

\* The value of a step is one of the words.
LEMMA StepWords ==
    ASSUME NEW o, NEW steps, NEW k \in 1..Len(steps)
    PROVE  steps[k].value \in Words(o, steps)
  BY DEF Words, StepTexts

\* The refs that the values of a field become.
AllWritten(x, o, au, ma, f) == {Written(o, au, ma, f, t) : t \in ToSet(x[f].items)}

\* What to_refs makes of the author and the markings that a run leaves.
LEMMA RefsWritten ==
    ASSUME NEW o, NEW au, NEW ma, NEW x, IsObject(x),
           x[Author].kind # "list", x[Markings].kind # "text"
    PROVE  LET r == ToRefs(x, o, au, ma) IN
             /\ DOMAIN r = Fields
             /\ \A f \in Fields \ {Author, Markings} : r[f] = x[f]
             /\ \A f \in {Author, Markings} :
                  /\ r[f].kind = x[f].kind
                  /\ ToSet(r[f].items) = AllWritten(x, o, au, ma, f)
  <1> DEFINE r == ToRefs(x, o, au, ma)
             written(f, t) == Written(o, au, ma, f, t)
  <1>1. /\ DOMAIN r = Fields
        /\ \A f \in Fields \ {Author, Markings} : r[f] = x[f]
        /\ r[Author] = IF x[Author].kind = "text" THEN Text(written(Author, x[Author].items[1]))
                       ELSE x[Author]
        /\ r[Markings] = IF x[Markings].kind = "list"
                         THEN List(Distinct([i \in 1..Len(x[Markings].items) |->
                                               written(Markings, x[Markings].items[i])]))
                         ELSE x[Markings]
    BY TwoFields DEF IsObject, ToRefs, Written, TypeFor
  <1>2. IsValue(x[Author]) /\ IsValue(x[Markings])
    BY TwoFields DEF IsObject
  <1> HIDE DEF r, written
  <1>3. r[Author].kind = x[Author].kind /\ ToSet(r[Author].items) = {written(Author, t) : t \in ToSet(x[Author].items)}
    <2>1. CASE x[Author].kind = "text"
      <3>1. PICK t : x[Author] = Text(t) /\ x[Author].items = <<t>>
        BY <1>2, <2>1, ValueKinds
      <3>2. ToSet(x[Author].items) = {t} /\ x[Author].items[1] = t
        BY <3>1, OneText
      <3>3. r[Author] = Text(written(Author, t))
        BY <1>1, <2>1, <3>2
      <3>4. ToSet(r[Author].items) = {written(Author, t)} /\ r[Author].kind = "text"
        BY <3>3, OneText
      <3> QED BY <2>1, <3>2, <3>4
    <2>2. CASE x[Author].kind # "text"
      <3>1. ToSet(x[Author].items) = {} /\ r[Author] = x[Author]
        BY <1>1, <1>2, <2>2, ValueKinds
      <3> QED BY <3>1
    <2> QED BY <2>1, <2>2
  <1>4. r[Markings].kind = x[Markings].kind /\ ToSet(r[Markings].items) = {written(Markings, t) : t \in ToSet(x[Markings].items)}
    <2>1. CASE x[Markings].kind = "list"
      <3> DEFINE items == x[Markings].items
                 ids == [i \in 1..Len(items) |-> written(Markings, items[i])]
                 values == {written(Markings, t) : t \in ToSet(items)}
      <3>0. items \in Seq(ToSet(items))
        BY <1>2, ValueKinds
      <3>1. Len(items) \in Nat /\ ToSet(items) = {items[i] : i \in 1..Len(items)}
        <4> HIDE DEF items
        <4> QED BY <3>0, LengthOf, ItemsOf
      <3>2. r[Markings] = List(Distinct(ids))
        BY <1>1, <2>1
      <3> HIDE DEF items
      <3>3. /\ ids \in Seq(values) /\ Len(ids) = Len(items)
            /\ \A i \in 1..Len(items) : ids[i] = written(Markings, items[i])
        <4>1. \A i \in 1..Len(items) : written(Markings, items[i]) \in values
          BY <3>1
        <4> HIDE DEF values
        <4> QED BY <3>1, <4>1
      <3> HIDE DEF ids
      <3>4. ToSet(ids) = values
        <4>1. ToSet(ids) = {ids[i] : i \in 1..Len(items)}
          BY <3>3, ItemsOf
        <4> QED BY <3>1, <3>3, <4>1, Zenon
      <3> HIDE DEF values
      <3>5. ToSet(Distinct(ids)) = values
        BY <3>3, <3>4, DistinctAsSet
      <3>6. ToSet(r[Markings].items) = values /\ r[Markings].kind = "list"
        BY <3>2, <3>5, OneList
      <3> QED BY <2>1, <3>6 DEF values, items
    <2>2. CASE x[Markings].kind # "list"
      <3>1. ToSet(x[Markings].items) = {} /\ r[Markings] = x[Markings]
        BY <1>1, <1>2, <2>2, ValueKinds
      <3> QED BY <3>1
    <2> QED BY <2>1, <2>2
  <1> QED BY <1>1, <1>3, <1>4 DEF AllWritten, r, written

\* to_values, the steps and to_refs: the result is read as what the steps mean.
LEMMA ResultMeans ==
    ASSUME NEW o, Clean(o), NEW au, NEW ma, DOMAIN au \subseteq StixIds,
           NoIds(au), NoIds(ma), NoIds(TlpValues),
           NEW S, NEW steps \in Seq(S),
           \A k \in 1..Len(steps) : ValidStep(steps[k]) /\ steps[k].condition \in Conditions,
           ~Run(o, steps, au, ma).raised,
           \A f \in {Author, Markings} :
             /\ \A w \in Words(o, steps) : Faithful(f, w, au, ma) \/ w \in StixIds
             /\ \A w \in AddedTo(steps, f) : Faithful(f, w, au, ma)
    PROVE  Canonical(ReadWith(Result(o, steps, au, ma), au, ma), Words(o, steps))
             = Canonical(AllMeant(ReadWith(o, au, ma), steps), Words(o, steps))
  <1> DEFINE v == ToValues(o, au, ma)
             run == RunSteps(v, steps)
             x == run.object
             meant == AllMeant(ReadWith(o, au, ma), steps)
             r == ToRefs(x, o, au, ma)
             words == Words(o, steps)
  <1>1. /\ IsObject(v) /\ Tidy(v) /\ Depicts(ReadWith(o, au, ma), v)
        /\ v[Author].kind = o[Author].kind /\ v[Markings].kind = o[Markings].kind
    BY ValuesMean
  <1> HIDE DEF v
  <1>2. Means(run, meant)
    BY <1>1, RunMeans
  <1>3. Follows(run, v, steps)
    <2>1. v = [f \in Fields |-> v[f]] /\ IsValue(v[Markings])
      BY <1>1, TwoFields DEF IsObject
    <2>2. v[Markings].items \in Seq(ToSet(v[Markings].items))
      BY <2>1, ValueKinds
    <2> QED BY <2>1, <2>2, RunFollows
  <1>4. ~run.raised /\ Result(o, steps, au, ma) = r
    BY DEF Run, Result, v
  <1> HIDE DEF run, meant, r
  <1>5. IsObject(x) /\ Depicts(meant, x) /\ Became(x, v, steps)
    BY <1>2, <1>3, <1>4 DEF Means, Follows
  <1> HIDE DEF x
  <1>6. x[Author].kind # "list" /\ x[Markings].kind # "text"
    <2>1. x[Author] \in {v[Author], Missing} \cup {Text(t) : t \in AddedTo(steps, Author)}
      BY <1>5 DEF Became
    <2>2. x[Markings] = v[Markings] \/ \E s : x[Markings] = List(s)
      BY <1>5 DEF Became
    <2>3. Missing.kind # "list"
      BY DEF Missing
    <2> QED BY <1>1, <2>1, <2>2, <2>3, OneText, OneList DEF Clean
  <1>7. /\ DOMAIN o = Fields /\ DOMAIN r = Fields
        /\ \A f \in Fields \ {Author, Markings} : r[f] = x[f]
        /\ \A f \in {Author, Markings} :
             /\ r[f].kind = x[f].kind
             /\ ToSet(r[f].items) = AllWritten(x, o, au, ma, f)
    <2>1. DOMAIN o = Fields
      BY CleanRefs
    <2>2. /\ DOMAIN r = Fields
          /\ \A f \in Fields \ {Author, Markings} : r[f] = x[f]
          /\ \A f \in {Author, Markings} :
               /\ r[f].kind = x[f].kind
               /\ ToSet(r[f].items) = AllWritten(x, o, au, ma, f)
      <3>1. IsObject(x) /\ x[Author].kind # "list" /\ x[Markings].kind # "text"
        BY <1>5, <1>6
      <3> QED BY <3>1, RefsWritten DEF r
    <2> QED BY <2>1, <2>2
  <1>8. ASSUME NEW f \in {Author, Markings}, NEW t \in ToSet(x[f].items)
        PROVE  ReadOrAdded(o, f, t, au, ma, words)
    <2>1. \/ t \in AddedTo(steps, f)
          \/ t \in ToSet(v[f].items)
      <3>1. CASE f = Author
        <4>1. x[Author] \in {v[Author], Missing} \cup {Text(s) : s \in AddedTo(steps, Author)}
          BY <1>5 DEF Became
        <4>2. Missing.items = <<>> /\ ToSet(<<>>) = {}
          BY DEF Missing, ToSet
        <4>3. \A s : ToSet(Text(s).items) = {s}
          BY OneText
        <4>4. CASE x[Author] = Missing
          <5>1. ToSet(x[Author].items) = {}
            BY <4>2, <4>4
          <5> QED BY <1>8, <3>1, <5>1
        <4>5. ASSUME NEW s \in AddedTo(steps, Author), x[Author] = Text(s)
              PROVE  t \in AddedTo(steps, f)
          <5>1. ToSet(x[Author].items) = {s}
            BY <4>3, <4>5
          <5> QED BY <1>8, <3>1, <4>5, <5>1
        <4>6. CASE x[Author] = v[Author]
          BY <1>8, <3>1, <4>6
        <4> QED BY <4>1, <4>4, <4>5, <4>6
      <3>2. CASE f = Markings
        <4> DEFINE W == ToSet(v[Markings].items) \cup AddedTo(steps, Markings)
        <4>1. x[Markings] = v[Markings] \/ \E s \in Seq(W) : x[Markings] = List(s)
          BY <1>5 DEF Became
        <4> HIDE DEF W
        <4>2. ASSUME NEW s \in Seq(W), x[Markings] = List(s)
              PROVE  t \in W
          <5>1. x[Markings].items = s
            BY <4>2, OneList
          <5> QED BY <1>8, <3>2, <5>1, ItemsOf
        <4> QED BY <1>8, <3>2, <4>1, <4>2 DEF W
      <3> QED BY <3>1, <3>2
    <2>2. ASSUME t \in AddedTo(steps, f)
          PROVE  t \in words /\ Faithful(f, t, au, ma)
      <3>1. PICK k \in 1..Len(steps) : t = steps[k].value
        BY <2>2 DEF AddedTo, Addressing
      <3>2. t \in words
        BY <3>1, StepWords
      <3> QED BY <2>2, <3>2
    <2>3. ASSUME t \in ToSet(v[f].items)
          PROVE  \E y \in ToSet(o[f].items) : y \in words /\ t = NameOf(f, y, au, ma)
      <3>1. AsSet(v[f]) = Names(f, o[f], au, ma)
        <4>1. ReadWith(o, au, ma)[f] = AsSet(v[f])
          BY <1>1, TwoFields DEF Depicts
        <4> QED BY <1>7, <4>1, ReadFields
      <3>2. PICK y \in ToSet(o[f].items) : t = NameOf(f, y, au, ma)
        BY <2>3, <3>1 DEF AsSet, Names
      <3>3. y \in words
        BY <1>7, <3>2, FieldTypes, TwoFields DEF Words, RefTexts
      <3> QED BY <3>2, <3>3
    <2> QED BY <2>1, <2>2, <2>3 DEF ReadOrAdded
  <1>9. ASSUME NEW f \in {Author, Markings}
        PROVE  LET names == Names(f, r[f], au, ma).values IN
                 {Clear(f, y, words) : y \in names} = {Clear(f, t, words) : t \in ToSet(x[f].items)}
    <2> DEFINE written(t) == Written(o, au, ma, f, t)
               name(t) == NameOf(f, t, au, ma)
    <2>1. \A t \in ToSet(x[f].items) : Clear(f, name(written(t)), words) = Clear(f, t, words)
      <3>1. \A w \in words : Faithful(f, w, au, ma) \/ w \in StixIds
        OBVIOUS
      <3> HIDE DEF words
      <3> QED BY <1>8, <3>1, NameComesBack
    <2>2. Names(f, r[f], au, ma).values = {name(z) : z \in {written(t) : t \in ToSet(x[f].items)}}
      <3>1. ToSet(r[f].items) = {written(t) : t \in ToSet(x[f].items)}
        BY <1>7 DEF AllWritten
      <3>2. Names(f, r[f], au, ma).values = {name(z) : z \in ToSet(r[f].items)}
        BY DEF Names
      <3> HIDE DEF written, name
      <3> QED BY <3>1, <3>2
    <2> HIDE DEF written, name, words
    <2> QED BY <2>1, <2>2
  <1>10. Canonical(ReadWith(r, au, ma), words) = Canonical(meant, words)
    <2> DEFINE q == ReadWith(r, au, ma)
    <2>1. /\ q = [f \in Fields |-> q[f]]
          /\ \A f \in {Author, Markings} : q[f] = Names(f, r[f], au, ma)
          /\ \A f \in Fields \ {Author, Markings} : q[f] = AsSet(r[f])
      BY <1>7, ReadFields
    <2> HIDE DEF q, words
    <2>2. DOMAIN q = Fields
      BY <2>1
    <2>3. DOMAIN meant = Fields /\ \A f \in Fields : meant[f] = AsSet(x[f])
      BY <1>5 DEF Depicts
    <2>4. \A f \in Fields \ {Author, Markings} : q[f] = meant[f]
      BY <1>7, <2>1, <2>3
    <2>5. ASSUME NEW f \in {Author, Markings}
          PROVE  /\ q[f].kind = meant[f].kind
                 /\ {Clear(f, y, words) : y \in q[f].values} = {Clear(f, y, words) : y \in meant[f].values}
      <3>1. meant[f].kind = x[f].kind /\ meant[f].values = ToSet(x[f].items)
        BY <2>3, TwoFields DEF AsSet
      <3>2. q[f] = Names(f, r[f], au, ma)
        BY <2>1
      <3>3. q[f].kind = x[f].kind
        <4>1. r[f].kind = x[f].kind
          BY <1>7
        <4>2. Names(f, r[f], au, ma).kind = r[f].kind
          BY DEF Names
        <4> QED BY <3>2, <4>1, <4>2
      <3> QED BY <1>9, <3>1, <3>2, <3>3
    <2>6. Canonical(q, words) = Canonical(meant, words)
      BY <2>2, <2>3, <2>4, <2>5, CanonicalIs
    <2> QED BY <2>6 DEF q
  <1> QED BY <1>4, <1>10 DEF meant, words

-----------------------------------------------------------------------------
(* What the intel of a server says of the names that occur.                  *)

\* What has been found is stored.
KnownFrom(found, type) ==
    \A ref \in DOMAIN found :
      \E r \in Storable : StoredUnder(r, type, ref) /\ found[ref] = r.value

\* The resolver knows stored rows only, and authors by their STIX ids only.
LEMMA LookUps ==
    ASSUME XInv, OInv, stage = "done"
    PROVE  /\ KnownFrom(authors, "identity") /\ KnownFrom(markings, "marking-definition")
           /\ DOMAIN authors \subseteq StixIds
  <1>1. rows \subseteq Storable /\ \A r \in rows : r.id \in Nat
    BY TablesAssumption DEF Storable, OInv, RowsInv
  <1>2. PICK early \in SUBSET ReadableRows :
          authors = FoundIn(early, "identity", AuthorRefs(Objects))
    BY DEF XInv, AuthorsInv
  <1>3. PICK late \in SUBSET ReadableRows :
          markings = FoundIn(late, "marking-definition", MarkingRefs(Objects))
    BY DEF XInv, MarkingsInv
  <1>4. early \subseteq rows /\ late \subseteq rows
    BY DEF ReadableRows
  <1>5. KnownFrom(authors, "identity")
    BY <1>1, <1>2, <1>4, FoundRow DEF KnownFrom, StoredUnder
  <1>6. KnownFrom(markings, "marking-definition")
    BY <1>1, <1>3, <1>4, FoundRow DEF KnownFrom, StoredUnder
  <1>7. DOMAIN authors \subseteq AuthorRefs(Objects)
    BY <1>1, <1>2, <1>4, FoundRow
  <1>8. ASSUME NEW ref \in AuthorRefs(Objects) PROVE ref \in StixIds
    <2>1. PICK o \in Objects : \E i \in 1..Len(Refs(o, Author)) : ref = Refs(o, Author)[i]
      BY DEF AuthorRefs, RefsOf
    <2>2. \/ Refs(o, Author) = <<>>
          \/ \E t \in StixIds : Refs(o, Author) = <<t>>
      BY TwoFields DEF Refs
    <2>3. Len(<<>>) = 0 /\ \A t : Len(<<t>>) = 1 /\ <<t>>[1] = t
      OBVIOUS
    <2> QED BY <2>1, <2>2, <2>3
  <1> QED BY <1>5, <1>6, <1>7, <1>8

\* A text is all that is known under its platform id.
LEMMA TextsFaithful ==
    ASSUME PlatformIdsAreUnique, NEW au, NEW ma,
           KnownFrom(au, "identity"), KnownFrom(ma, "marking-definition"),
           NEW f \in {Author, Markings}, NEW w \in Texts, w \notin StixIds
    PROVE  Faithful(f, w, au, ma)
  <1> DEFINE id == PlatformId(TypeFor(f), w)
  <1>1. /\ id \in StixIds
        /\ \A r \in Storable : StoredUnder(r, TypeFor(f), id) => r.value = w
        /\ id \in DOMAIN TlpValues => TlpValues[id] = w
    BY FieldTypes DEF PlatformIdsAreUnique
  <1> HIDE DEF id
  <1>2. NameOf(f, id, au, ma) \in {w, id}
    <2>1. CASE f = Author
      <3>1. TypeFor(f) = "identity" /\ NameOf(f, id, au, ma) = Value(id, au)
        BY <2>1 DEF TypeFor, NameOf
      <3>2. id \in DOMAIN au => au[id] = w
        BY <1>1, <3>1 DEF KnownFrom
      <3> QED BY <3>1, <3>2 DEF Value
    <2>2. CASE f = Markings
      <3>1. TypeFor(f) = "marking-definition" /\ NameOf(f, id, au, ma) = MarkingValue(id, ma)
        BY <2>2, TwoFields DEF TypeFor, NameOf
      <3>2. id \in DOMAIN ma => ma[id] = w
        BY <1>1, <3>1 DEF KnownFrom
      <3> QED BY <1>1, <3>1, <3>2 DEF MarkingValue, Value
    <2> QED BY <2>1, <2>2
  <1> QED BY <1>1, <1>2 DEF Faithful, id

\* Nothing is known under an id that a step writes.
LEMMA IdsFaithful ==
    ASSUME StepsWriteNames, NEW au, NEW ma,
           KnownFrom(au, "identity"), KnownFrom(ma, "marking-definition"),
           NEW f \in {Author, Markings}, NEW s \in AllSteps,
           s.field = f, s.action \in {"set", "add"}, s.value \in StixIds
    PROVE  Faithful(f, s.value, au, ma)
  <1>1. /\ s.value \notin DOMAIN TlpValues
        /\ \A r \in Storable : ~StoredUnder(r, TypeFor(f), s.value)
    BY FieldTypes DEF StepsWriteNames
  <1>2. CASE f = Author
    BY <1>1, <1>2 DEF TypeFor, KnownFrom, NameOf, Value, Faithful
  <1>3. CASE f = Markings
    BY <1>1, <1>3, TwoFields DEF TypeFor, KnownFrom, NameOf, MarkingValue, Value, Faithful
  <1> QED BY <1>2, <1>3

\* In a state that has results, they mean what the steps say.
LEMMA MeaningsHold ==
    ASSUME NamesAreNoIds, PlatformIdsAreUnique, StepsWriteNames, XInv, OInv
    PROVE  ActsOnMeanings
  <1> SUFFICES ASSUME stage = "done", NEW i \in 1..Len(batch),
                      NoRepetition(batch[i].labels.items),
                      batch[i][Markings].kind # "text", batch[i][Author].kind # "list"
               PROVE  LET words == Words(batch[i], pipeline.steps)
                          meant == AllMeant(Read(batch[i]), pipeline.steps)
                      IN  Canonical(Read(results[i]), words) = Canonical(meant, words)
    BY DEF ActsOnMeanings
  <1> DEFINE o == batch[i]
             steps == pipeline.steps
  <1>1. o \in Received /\ Clean(o)
    <2>1. PICK b \in Buckets : batch \in Pending[b]
      BY DEF OInv, BatchInv
    <2>2. batch \in Seq(ToSet(batch))
      BY <2>1, PendingAssumption
    <2>3. o \in ToSet(batch)
      BY <2>2
    <2>4. o = [g \in Fields |-> o[g]] /\ \A g \in Fields : IsValue(o[g])
      BY <2>1, <2>3, PendingAssumption
    <2>5. o \in Received
      BY <2>1, <2>3 DEF Received
    <2> QED BY <2>4, <2>5 DEF Clean, IsObject
  <1>2. pipeline \in Pipelines(config) /\ config \in Configs /\ phase = "ready"
    BY DEF XInv, StageInv, IInv, TypeInv
  <1>3. /\ steps \in Seq(ToSet(steps))
        /\ \A s \in ToSet(steps) : s.condition \in Conditions
    BY <1>2, StepsAssumption
  <1>4. \A k \in 1..Len(steps) : ValidStep(steps[k])
    <2>1. PICK n \in 1..Len(config.pipelines) : pipeline = config.pipelines[n]
      BY <1>2 DEF Pipelines
    <2>2. ValidPipeline(config, pipeline)
      BY <1>2, <2>1 DEF OInv, LoadedInv
    <2> QED BY <2>2 DEF ValidPipeline
  <1>5. \A k \in 1..Len(steps) : steps[k] \in AllSteps /\ steps[k].condition \in Conditions
    <2>1. \A k \in 1..Len(steps) : steps[k] \in ToSet(steps)
      BY <1>3
    <2>2. pipeline \in Configured
      BY <1>2 DEF Configured
    <2>3. ToSet(steps) \subseteq AllSteps
      BY <2>2 DEF AllSteps
    <2> QED BY <1>3, <2>1, <2>3
  <1>6. Words(o, steps) \subseteq Texts
    <2>1. RefTexts(o) \subseteq TextsReceived
      BY <1>1 DEF TextsReceived
    <2>2. pipeline \in Configured
      BY <1>2 DEF Configured
    <2>3. StepTexts(steps) \subseteq TextsWritten
      BY <2>2 DEF TextsWritten
    <2> QED BY <2>1, <2>3 DEF Words, Texts
  <1>7. /\ KnownFrom(authors, "identity") /\ KnownFrom(markings, "marking-definition")
        /\ DOMAIN authors \subseteq StixIds
    BY LookUps
  <1>8. NoIds(authors) /\ NoIds(markings) /\ NoIds(TlpValues)
    BY <1>7 DEF KnownFrom, NoIds, NamesAreNoIds
  <1>9. results[i] = Result(o, steps, authors, markings) /\ ~Run(o, steps, authors, markings).raised
    BY DEF XInv, ResultsInv, OInv, NoneRaised
  <1> HIDE DEF o, steps
  <1>10. ASSUME NEW f \in {Author, Markings}
         PROVE  /\ \A w \in Words(o, steps) : Faithful(f, w, authors, markings) \/ w \in StixIds
                /\ \A w \in AddedTo(steps, f) : Faithful(f, w, authors, markings)
    <2>1. \A w \in Words(o, steps) : Faithful(f, w, authors, markings) \/ w \in StixIds
      BY <1>6, <1>7, TextsFaithful
    <2>2. ASSUME NEW w \in AddedTo(steps, f) PROVE Faithful(f, w, authors, markings)
      <3>1. PICK k \in 1..Len(steps) :
              w = steps[k].value /\ steps[k].field = f /\ steps[k].action \in {"set", "add"}
        BY DEF AddedTo, Addressing
      <3>2. w \in Words(o, steps)
        BY <3>1, StepWords
      <3> QED BY <1>5, <1>7, <2>1, <3>1, <3>2, IdsFaithful
    <2> QED BY <2>1, <2>2
  <1>11. Canonical(ReadWith(Result(o, steps, authors, markings), authors, markings), Words(o, steps))
           = Canonical(AllMeant(ReadWith(o, authors, markings), steps), Words(o, steps))
    BY <1>1, <1>3, <1>4, <1>5, <1>7, <1>8, <1>9, <1>10, ResultMeans
  <1> QED BY <1>9, <1>11, ReadIs DEF o, steps

-----------------------------------------------------------------------------
(* What makes a batch fail.                                                  *)

Unlike(x, f) == x[f].kind \in {"number", "null"}

\* A condition raises only where it looks into a number or null.
LEMMA RaisesWhereSought ==
    ASSUME NEW x, NEW c \in Conditions, Evaluate(x, c) = "raises"
    PROVE  \E f \in Sought(c) \cap Fields : Unlike(x, f)
  <1>1. PICK value : \A d \in Conditions :
          Evaluate(x, d) = value[d] /\ value[d] = EvaluateFrom(x, value, d)
    BY EvaluateIs
  <1>2. PICK sought : \A d \in Conditions :
          Sought(d) = sought[d] /\ sought[d] = SoughtFrom(sought, d)
    BY SoughtIs
  <1> DEFINE wrong == {d \in Conditions :
                         value[d] = "raises" /\ ~\E f \in sought[d] \cap Fields : Unlike(x, f)}
  <1>3. ASSUME NEW d \in Conditions, value[d] = "raises", PartsOf(d) \cap wrong = {}
        PROVE  \E f \in sought[d] \cap Fields : Unlike(x, f)
    <2> DEFINE n == Len(d.parts)
               values == [i \in 1..n |-> value[d.parts[i]]]
               seeks == [i \in 1..n |-> sought[d.parts[i]]]
    <2>1. value[d] = EvaluateFrom(x, value, d) /\ sought[d] = SoughtFrom(sought, d)
      BY <1>1, <1>2
    <2>2. CASE IsGroup(d)
      <3>1. d.parts \in Seq(Conditions) /\ n \in Nat
        BY <2>2, ConditionsAssumption
      <3>2. \A i \in 1..n : d.parts[i] \in Conditions /\ d.parts[i] \in PartsOf(d)
        BY <2>2, <3>1 DEF PartsOf
      <3>3. \A i \in 1..n : values[i] = value[d.parts[i]] /\ seeks[i] = sought[d.parts[i]]
        OBVIOUS
      <3>4. Len(values) = n
        BY <3>1
      <3>5. PICK usual \in {"true", "false"} : value[d] = FirstOther(values, usual)
        BY <2>1, <2>2 DEF EvaluateFrom, IsGroup
      <3>6. PICK i \in 1..n : values[i] = "raises"
        <4> HIDE DEF n, values
        <4>1. FirstOther(values, usual) = "raises" /\ usual # "raises"
          BY <1>3, <3>5
        <4> QED BY <3>1, <3>4, <4>1, FirstDecides
      <3>7. \E f \in sought[d.parts[i]] \cap Fields : Unlike(x, f)
        BY <1>3, <3>2, <3>3, <3>6
      <3>8. sought[d] = UNION {seeks[k] : k \in 1..n}
        BY <2>1, <2>2 DEF SoughtFrom, IsGroup
      <3>9. seeks[i] \subseteq sought[d]
        <4> HIDE DEF seeks, n
        <4> QED BY <3>8
      <3> QED BY <3>3, <3>7, <3>9
    <2>3. CASE ~IsGroup(d)
      <3>1. d.type # "none" /\ value[d] = Test(x, d)
        BY <1>3, <2>1, <2>3 DEF EvaluateFrom, IsGroup
      <3>2. d.type \in {"contains", "not_contains"} /\ Unlike(x, d.field)
        BY <1>3, <3>1 DEF Test, Truth, Unlike
      <3>3. sought[d] = {d.field} /\ d.field \in Fields
        BY <2>1, <2>3, <3>1, <3>2, ConditionsAssumption DEF SoughtFrom
      <3> QED BY <3>2, <3>3
    <2> QED BY <2>2, <2>3
  <1>4. wrong = {}
    <2> SUFFICES ASSUME wrong # {} PROVE FALSE
      OBVIOUS
    <2>1. wrong \subseteq Conditions
      OBVIOUS
    <2>2. PICK d \in wrong : PartsOf(d) \cap wrong = {}
      <3> HIDE DEF wrong
      <3> QED BY <2>1, InnermostCondition
    <2> QED BY <1>3, <2>2
  <1> QED BY <1>1, <1>2, <1>4

\* A field of x has the kind it has in o, or one that fits every step.
Fits(x, o) ==
    \A f \in Fields :
      \/ x[f].kind = o[f].kind
      \/ x[f].kind = "list"
      \/ x[f].kind \in {"text", "missing"} /\ (f \in DOMAIN FIELDS => FIELDS[f].kind # "list")

\* A run that leaves the object fit, or has raised for a cause.
Blames(run, o, steps) ==
    /\ IsRun(run)
    /\ run.object = [f \in Fields |-> run.object[f]]
    /\ Fits(run.object, o)
    /\ run.raised => \E k \in 1..Len(steps) : UnfitFor(o, steps[k])

\* What a step makes of a field fits every step.
LEMMA PerformFits ==
    ASSUME NEW step, ValidStep(step), NEW w
    PROVE  \/ Perform(step, w) = w
           \/ Perform(step, w).kind = "list"
           \/ FIELDS[step.field].kind # "list" /\ Perform(step, w).kind \in {"text", "missing"}
  <1>1. /\ step.action \in FIELDS[step.field].actions /\ step.field \in DOMAIN FIELDS
    BY DEF ValidStep
  <1>2. CASE step.action = "set"
    <2>1. FIELDS[step.field].kind # "list"
      BY <1>1, <1>2 DEF FIELDS
    <2> QED BY <1>2, <2>1 DEF Perform, Text
  <1>3. CASE step.action = "add"
    BY <1>3 DEF Perform, List
  <1>4. CASE step.action = "delete"
    BY <1>4 DEF Perform, List, Missing
  <1>5. step.action \in {"set", "add", "delete"}
    BY <1>1 DEF FIELDS
  <1> QED BY <1>2, <1>3, <1>4, <1>5

\* A field whose shape is wrong for a step was received with it.
LEMMA ShapeReceived ==
    ASSUME NEW step, ValidStep(step), NEW x, NEW o, Fits(x, o),
           WrongShape(step, x[step.field])
    PROVE  UnfitFor(o, step)
  <1>1. step.field \in Fields /\ step.field \in DOMAIN FIELDS
        /\ step.action \in FIELDS[step.field].actions
    BY FieldsAssumption DEF ValidStep
  <1>2. step.action = "add" => FIELDS[step.field].kind = "list"
    BY <1>1 DEF FIELDS
  <1>3. /\ FIELDS[step.field].kind = "list"
        /\ x[step.field].kind \notin {"list", "missing"}
        /\ x[step.field].kind = "null" => step.action = "delete"
    BY <1>2 DEF WrongShape
  <1>4. x[step.field].kind = o[step.field].kind
    BY <1>1, <1>3 DEF Fits
  <1> QED BY <1>3, <1>4 DEF UnfitFor

\* A step that raises does so for what was received.
LEMMA ApplyBlames ==
    ASSUME NEW S, NEW steps \in Seq(S), NEW k \in 1..Len(steps), ValidStep(steps[k]),
           steps[k].condition \in Conditions, NEW o, NEW run, Blames(run, o, steps)
    PROVE  Blames(Apply(run, steps[k]), o, steps)
  <1> DEFINE step == steps[k]
             field == step.field
             x == run.object
             done == Perform(step, x[field])
             y == [x EXCEPT ![field] = done]
             test == Evaluate(x, step.condition)
             stops == test = "raises" \/ WrongShape(step, x[field])
  <1>0. field \in Fields
    BY FieldsAssumption DEF ValidStep
  <1>1. run.raised \/ test = "false" => Apply(run, step) = run
    BY DEF Apply
  <1>2. ~run.raised /\ test # "false" /\ stops => Apply(run, step) = [run EXCEPT !.raised = TRUE]
    BY DEF Apply
  <1>3. ~run.raised /\ test # "false" /\ ~stops => Apply(run, step) = [run EXCEPT !.object = y]
    BY DEF Apply
  <1>4. /\ IsRun(run) /\ x = [f \in Fields |-> x[f]] /\ Fits(x, o)
        /\ run.raised => \E n \in 1..Len(steps) : UnfitFor(o, steps[n])
    BY DEF Blames
  <1>5. ASSUME test = "raises" PROVE UnfitFor(o, step)
    <2>1. PICK f \in Sought(step.condition) \cap Fields : Unlike(x, f)
      BY <1>5, RaisesWhereSought
    <2>2. o[f].kind \in {"number", "null"}
      <3> HIDE DEF x
      <3> QED BY <1>4, <2>1 DEF Fits, Unlike
    <2> QED BY <2>1, <2>2 DEF UnfitFor
  <1>6. WrongShape(step, x[field]) => UnfitFor(o, step)
    BY <1>4, ShapeReceived
  <1>7. y = [f \in Fields |-> y[f]] /\ Fits(y, o)
    <2>1. /\ y = [f \in Fields |-> y[f]]
          /\ y[field] = done
          /\ \A f \in Fields : f # field => y[f] = x[f]
      BY <1>0, <1>4
    <2>2. \/ done = x[field] \/ done.kind = "list"
          \/ FIELDS[field].kind # "list" /\ done.kind \in {"text", "missing"}
      BY PerformFits
    <2> HIDE DEF y, done, x, field
    <2> QED BY <1>4, <2>1, <2>2 DEF Fits
  <1> DEFINE raised == [run EXCEPT !.raised = TRUE]
             next == [run EXCEPT !.object = y]
  <1>8. IsRun(raised) /\ raised.raised /\ raised.object = x
    BY <1>4, RunRaised
  <1>9. IsRun(next) /\ next.raised = run.raised /\ next.object = y
    BY <1>4, RunGoesOn
  <1>10. CASE run.raised \/ test = "false"
    BY <1>1, <1>10
  <1>11. CASE ~run.raised /\ test # "false" /\ stops
    <2>1. UnfitFor(o, step)
      BY <1>5, <1>6, <1>11
    <2>2. Apply(run, step) = raised
      BY <1>2, <1>11
    <2> HIDE DEF raised, x
    <2> QED BY <1>4, <1>8, <2>1, <2>2 DEF Blames
  <1>12. CASE ~run.raised /\ test # "false" /\ ~stops
    <2>1. Apply(run, step) = next
      BY <1>3, <1>12
    <2> HIDE DEF next, y
    <2> QED BY <1>7, <1>9, <1>12, <2>1 DEF Blames
  <1> QED BY <1>10, <1>11, <1>12

\* A run of all steps raises only for what was received.
LEMMA RunBlames ==
    ASSUME NEW S, NEW steps \in Seq(S),
           \A k \in 1..Len(steps) : ValidStep(steps[k]) /\ steps[k].condition \in Conditions,
           NEW v, v = [f \in Fields |-> v[f]], NEW o, Fits(v, o)
    PROVE  Blames(RunSteps(v, steps), o, steps)
  <1>1. PICK runs :
          /\ runs[1..0] = Started(v)
          /\ \A n \in 1..Len(steps) : runs[1..n] = Apply(runs[1..(n - 1)], steps[n])
          /\ RunSteps(v, steps) = runs[1..Len(steps)]
    BY RunFold
  <1> DEFINE right == {n \in Nat : n <= Len(steps) => Blames(runs[1..n], o, steps)}
  <1>2. 0 \in right
    <2> DEFINE run == Started(v)
    <2>1. run = [raised |-> FALSE, object |-> v] /\ ~run.raised /\ run.object = v
      BY DEF Started
    <2>2. IsRun(run)
      BY <2>1 DEF IsRun
    <2> HIDE DEF run
    <2>3. Blames(run, o, steps)
      BY <2>1, <2>2 DEF Blames
    <2> QED BY <1>1, <2>3 DEF run
  <1>3. ASSUME NEW n \in Nat, n \in right PROVE n + 1 \in right
    <2> SUFFICES ASSUME n + 1 <= Len(steps) PROVE Blames(runs[1..(n + 1)], o, steps)
      OBVIOUS
    <2>1. n + 1 \in 1..Len(steps) /\ (n + 1) - 1 = n
      OBVIOUS
    <2>2. Blames(runs[1..n], o, steps)
      BY <1>3, <2>1
    <2>3. runs[1..(n + 1)] = Apply(runs[1..n], steps[n + 1])
      BY <1>1, <2>1
    <2> HIDE DEF right
    <2> QED BY <2>1, <2>2, <2>3, ApplyBlames
  <1>4. Len(steps) \in right
    <2>1. Len(steps) \in Nat
      OBVIOUS
    <2> HIDE DEF right
    <2> QED BY <1>2, <1>3, <2>1, Induct
  <1> QED BY <1>1, <1>4

\* Values in the place of refs fit every step that the refs fitted.
LEMMA ValuesFit ==
    ASSUME NEW o, o = [f \in Fields |-> o[f]], NEW au, NEW ma
    PROVE  LET v == ToValues(o, au, ma) IN v = [f \in Fields |-> v[f]] /\ Fits(v, o)
  <1> DEFINE v == ToValues(o, au, ma)
  <1>1. DOMAIN o = Fields
    OBVIOUS
  <1>2. v = [f \in Fields |-> v[f]]
    BY <1>1 DEF ToValues
  <1>3. ASSUME NEW f \in Fields
        PROVE  v[f].kind \in {o[f].kind, "list"}
    <2>1. CASE f = Author /\ Refs(o, f) # <<>>
      <3>1. o[f].kind = "text"
        BY <2>1, TwoFields DEF Refs
      <3>2. v[f] = Text(Value(Refs(o, f)[1], au))
        BY <1>1, <2>1, TwoFields DEF ToValues
      <3> HIDE DEF v
      <3> QED BY <3>1, <3>2, OneText
    <2>2. CASE f = Markings /\ Refs(o, f) # <<>>
      <3>1. v[f] = List(Distinct([i \in 1..Len(Refs(o, f)) |->
                                    MarkingValue(Refs(o, f)[i], ma)]))
        BY <1>1, <2>2, TwoFields DEF ToValues
      <3> QED BY <3>1, OneList
    <2>3. CASE ~(f = Author /\ Refs(o, f) # <<>>) /\ ~(f = Markings /\ Refs(o, f) # <<>>)
      <3>1. v[f] = o[f]
        BY <1>1, <2>3 DEF ToValues
      <3> QED BY <3>1
    <2> QED BY <2>1, <2>2, <2>3
  <1> HIDE DEF v
  <1>4. Fits(v, o)
    BY <1>3 DEF Fits
  <1> QED BY <1>2, <1>4 DEF v

\* The objects and steps of a running batch.
LEMMA BatchRuns ==
    ASSUME XInv, OInv, stage # "idle"
    PROVE  /\ \A i \in 1..Len(batch) : batch[i] = [f \in Fields |-> batch[i][f]]
           /\ pipeline.steps \in Seq(ToSet(pipeline.steps))
           /\ \A k \in 1..Len(pipeline.steps) :
                /\ ValidStep(pipeline.steps[k])
                /\ pipeline.steps[k].condition \in Conditions
  <1> DEFINE steps == pipeline.steps
  <1>1. ASSUME NEW i \in 1..Len(batch) PROVE batch[i] = [f \in Fields |-> batch[i][f]]
    <2>1. PICK b \in Buckets : batch \in Pending[b]
      BY DEF OInv, BatchInv
    <2>2. batch \in Seq(ToSet(batch))
      BY <2>1, PendingAssumption
    <2>3. batch[i] \in ToSet(batch)
      BY <2>2
    <2> QED BY <2>1, <2>3, PendingAssumption
  <1>2. pipeline \in Pipelines(config) /\ config \in Configs /\ phase = "ready"
    BY DEF XInv, StageInv, IInv, TypeInv
  <1>3. /\ steps \in Seq(ToSet(steps))
        /\ \A s \in ToSet(steps) : s.condition \in Conditions
    BY <1>2, StepsAssumption
  <1>4. \A k \in 1..Len(steps) : ValidStep(steps[k])
    <2>1. PICK n \in 1..Len(config.pipelines) : pipeline = config.pipelines[n]
      BY <1>2 DEF Pipelines
    <2>2. ValidPipeline(config, pipeline)
      BY <1>2, <2>1 DEF OInv, LoadedInv
    <2> QED BY <2>2 DEF ValidPipeline
  <1>5. \A k \in 1..Len(steps) : steps[k] \in ToSet(steps)
    BY <1>3
  <1> QED BY <1>1, <1>3, <1>4, <1>5

\* A step of the worker that fails a batch finds the cause in it.
LEMMA FailsStep ==
    ASSUME XInv, OInv, FailsForCause, [Next]_vars
    PROVE  FailsForCause'
  <1> DEFINE Cause == \E i \in 1..Len(batch) : Unfit(batch[i], pipeline.steps)
  <1>1. CASE UNCHANGED executionVars
    BY <1>1 DEF FailsForCause, executionVars
  <1>2. CASE Store
    BY <1>2 DEF Store, FailsForCause
  <1>3. CASE Acquire
    BY <1>3 DEF Acquire, FailsForCause
  <1>4. CASE FindAuthors
    <2>1. PrefetchRaises(Objects) => Cause
      BY DEF PrefetchRaises, Objects, Unfit
    <2>2. UNCHANGED <<batch, pipeline>> /\ (stage' = "failed" => PrefetchRaises(Objects))
      BY <1>4 DEF FindAuthors
    <2> QED BY <2>1, <2>2 DEF FailsForCause
  <1>5. CASE FindMarkings
    BY <1>5 DEF FindMarkings, FailsForCause
  <1>6. CASE Execute
    <2>1. ASSUME NEW i \in 1..Len(batch), Run(batch[i], pipeline.steps, authors, markings).raised
          PROVE  Cause
      <3> DEFINE o == batch[i]
                 steps == pipeline.steps
                 v == ToValues(o, authors, markings)
      <3>1. stage # "idle"
        BY <1>6 DEF Execute
      <3>2. /\ o = [f \in Fields |-> o[f]]
            /\ steps \in Seq(ToSet(steps))
            /\ \A k \in 1..Len(steps) : ValidStep(steps[k]) /\ steps[k].condition \in Conditions
        BY <3>1, BatchRuns
      <3>3. RunSteps(v, steps).raised
        BY <2>1 DEF Run
      <3> HIDE DEF steps, o
      <3>4. v = [f \in Fields |-> v[f]] /\ Fits(v, o)
        BY <3>2, ValuesFit
      <3> HIDE DEF v
      <3>5. Blames(RunSteps(v, steps), o, steps)
        BY <3>2, <3>4, RunBlames
      <3>6. Unfit(o, steps)
        BY <3>3, <3>5 DEF Blames, Unfit
      <3> QED BY <3>6 DEF o, steps
    <2>2. UNCHANGED <<batch, pipeline>>
      BY <1>6 DEF Execute
    <2>3. stage' = "failed" =>
            \E i \in 1..Len(batch) : Run(batch[i], pipeline.steps, authors, markings).raised
      BY <1>6 DEF Execute
    <2> QED BY <2>1, <2>2, <2>3 DEF FailsForCause
  <1> QED BY <1>1, <1>2, <1>3, <1>4, <1>5, <1>6 DEF Next, vars

-----------------------------------------------------------------------------

\* The types of every reachable state, and a result for each object of a batch that
\* did not fail, for every configuration.
THEOREM ExecutionTypeCorrect == Spec => []TypeOK
  <1>1. XInv => TypeOK
    <2> SUFFICES ASSUME XInv PROVE TypeOK
      OBVIOUS
    <2>1. ManagerTypeOK
      BY DEF XInv, IInv, TypeInv, SimplePath, ManagerTypeOK
    <2>2. DOMAIN results = IF stage = "done" THEN 1..Len(batch) ELSE {}
      BY DEF XInv, StageInv, ResultsInv
    <2> QED BY <2>1, <2>2 DEF XInv, StageInv, TypeOK
  <1> QED BY <1>1, ExecutionInit, ExecutionInductive, PTL DEF Spec

\* A worker that runs pipelines has rejected every cycle, and nothing else as one.
THEOREM StartsRight == Spec => []Verdict
  <1>1. XInv => Verdict
    BY VerdictHolds DEF XInv
  <1> QED BY <1>1, ExecutionInit, ExecutionInductive, PTL DEF Spec

\* No result depends on a row the role cannot read, or on another object of the batch.
THEOREM Confined == Spec => []NonInterference
  <1>1. XInv => NonInterference
    <2> SUFFICES ASSUME XInv, stage = "done" PROVE NonInterference
      BY DEF NonInterference
    <2>1. PICK early \in SUBSET ReadableRows :
            authors = FoundIn(early, "identity", AuthorRefs(Objects))
      BY DEF XInv, AuthorsInv
    <2>2. PICK late \in SUBSET ReadableRows :
            markings = FoundIn(late, "marking-definition", MarkingRefs(Objects))
      BY DEF XInv, MarkingsInv
    <2>3. ASSUME NEW i \in 1..Len(batch)
          PROVE  results[i] = Result(batch[i], pipeline.steps,
                   FoundIn(early, "identity", AuthorRefs({batch[i]})),
                   FoundIn(late, "marking-definition", MarkingRefs({batch[i]})))
      <3>1. results[i] = Result(batch[i], pipeline.steps, authors, markings)
        BY DEF XInv, ResultsInv
      <3>2. batch[i] \in Objects
        BY DEF Objects
      <3> QED BY <3>1, <3>2, <2>1, <2>2, AloneInTheBatch
    <2> QED BY <2>3 DEF NonInterference, ReadableRows, FoundIn
  <1> QED BY <1>1, ExecutionInit, ExecutionInductive, PTL DEF Spec

\* No pipeline writes a ref that neither the object nor its steps had, and a field that
\* no step addresses comes back as it was, for every configuration, table and batch:
\* as long as no name looks like a STIX id (is_stix_id in ref_for).
THEOREM RefsAreOriginal ==
    ASSUME NamesAreNoIds
    PROVE  Spec => []OriginalRefs
  <1>1. XInv /\ OInv => OriginalRefs
    BY NoInventedRef
  <1>2. Init => XInv /\ OInv
    BY ExecutionInit, OInit
  <1>3. XInv /\ OInv /\ [Next]_vars => XInv' /\ OInv'
    BY ExecutionInductive, OStep
  <1> QED BY <1>1, <1>2, <1>3, PTL DEF Spec

\* The result of every batch means what its steps say about sets of readable values, for
\* every configuration, table and batch: names do not look like STIX ids, platform ids
\* are nobody else's, and steps write names.
THEOREM StepsActOnMeanings ==
    ASSUME NamesAreNoIds, PlatformIdsAreUnique, StepsWriteNames
    PROVE  Spec => []ActsOnMeanings
  <1>1. XInv /\ OInv => ActsOnMeanings
    BY MeaningsHold
  <1>2. Init => XInv /\ OInv
    BY ExecutionInit, OInit
  <1>3. XInv /\ OInv /\ [Next]_vars => XInv' /\ OInv'
    BY ExecutionInductive, OStep
  <1> QED BY <1>1, <1>2, <1>3, PTL DEF Spec

\* A batch that fails, and with it its source, has an object that some step cannot take
\* as it was received, for every configuration, table and batch: no list of steps fails
\* a batch by what it made of it, and no look-up does.
THEOREM BatchesFailForCause == Spec => []FailsForCause
  <1>1. Init => XInv /\ OInv /\ FailsForCause
    BY ExecutionInit, OInit DEF Init, FailsForCause
  <1>2. XInv /\ OInv /\ FailsForCause /\ [Next]_vars => XInv' /\ OInv' /\ FailsForCause'
    BY ExecutionInductive, OStep, FailsStep
  <1> QED BY <1>1, <1>2, PTL DEF Spec
=============================================================================

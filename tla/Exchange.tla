------------------------------- MODULE Exchange -------------------------------
(***************************************************************************)
(* The TAXII 2.1 routes (routes/taxii2.py), ingestion (services/ingest.py, *)
(* processors/stix.py) and the queries of DatabaseBucketRepository under   *)
(* them, beside the user administration that decides who may do what.      *)
(*                                                                         *)
(* A request checks out a connection when it authenticates its user and a  *)
(* second one for its first look at a bucket; both return to the pool when *)
(* its transactions commit, after the answer.                              *)
(***************************************************************************)
EXTENDS Users, FiniteSets

CONSTANTS
    Buckets,
    Readers,            \* TAXII clients that follow the pages of a collection
    Writers,            \* TAXII clients that add objects to a collection
    UserOf,             \* the account whose key each client presents
    Collections,        \* the active collections: bucket, can_read, can_write
    CanRead, CanWrite,  \* the buckets a role may read and write
    Batches,            \* what a writer may send: sequences of objects
    Limits,             \* the page sizes a reader may ask for
    PlatformId(_, _),   \* uuid5 of the contributing properties: value and refs
    Capacities          \* connections in the pool, with its overflow: a choice for each mix

Clients == Readers \cup Writers

ASSUME ActorsAssumption ==
    /\ IsFiniteSet(Admins) /\ IsFiniteSet(Clients)
    /\ Readers \cap Writers = {}

ASSUME BatchesAssumption == \A batch \in Batches : Len(batch) \in Nat

ASSUME CapacitiesAssumption == Capacities \in [Budgets -> SUBSET Nat]

ASSUME LimitsAssumption == Limits \subseteq Nat \ {0}

ASSUME CollectionsAssumption ==
    \A c \in DOMAIN Collections : Collections[c].bucket \in Buckets

VARIABLES
    rows,       \* committed rows of stix_entity_model, by id
    nextRow,    \* its id sequence
    pc,         \* where each client's request is
    call,       \* what it asks for
    ins,        \* the rows its transaction has inserted
    trip,       \* how far each reader has followed the pages
    capacity    \* the size of the pool

exchangeVars == <<rows, nextRow, pc, call, ins, trip, capacity>>
vars == <<adminVars, budget, exchangeVars>>

NoRows == [i \in {} |-> 0]
NoCall == [collection |-> "none"]

-----------------------------------------------------------------------------
(* The connection pool                                                       *)

InUse ==
    Cardinality({a \in Admins : stage[a] # "idle"})
      + Cardinality({c \in Clients : pc[c] = "bucket"})
      + 2 * Cardinality({c \in Clients : pc[c] \in {"ingest", "open"}})

\* Mistake: max_overflow=-1, a pool without a bound.
AvailableAlways == TRUE

Available == InUse < capacity

-----------------------------------------------------------------------------
(* Access: get_current_user, and the checks of the two routes.               *)

Granted(c, grants) == UNION {grants[r] : r \in users[UserOf[c]].roles}

\* Not 401, not 404, and neither of the two 403.
Allowed(c) ==
    /\ UserOf[c] \in DOMAIN users
    /\ call[c].collection \in DOMAIN Collections
    /\ LET config == Collections[call[c].collection] IN
         IF c \in Readers
         THEN config.can_read /\ config.bucket \in Granted(c, CanRead)
         ELSE config.can_write /\ config.bucket \in Granted(c, CanWrite)

BucketOf(c) == Collections[call[c].collection].bucket

-----------------------------------------------------------------------------
(* get_entities: the rows of a bucket by id, from an offset.                 *)

InBucket(b) == {i \in DOMAIN rows : rows[i].bucket = b}

\* The position of row i among the rows of its bucket.
Rank(b, i) == Cardinality({j \in InBucket(b) : j <= i})

\* The first "limit" of the limit + 1 rows read, and whether there was one more.
Page(b, offset, limit) ==
    {i \in InBucket(b) : Rank(b, i) > offset /\ Rank(b, i) <= offset + limit}

More(b, offset, limit) == \E i \in InBucket(b) : Rank(b, i) > offset + limit

\* Mistake: the cursor skips the row that was read to find out if there is more.
NextOffsetPastPeek(offset, limit) == offset + limit + 1

\* Mistake: the cursor names the last row of the page, not the one after it.
NextOffsetOfLast(offset, limit) == offset + limit - 1

NextOffset(offset, limit) == offset + limit

-----------------------------------------------------------------------------
(* ingest_objects.  An object has an id given by its source, a value, the    *)
(* refs of a relationship (no refs for any other type), and is valid if it   *)
(* has the required fields and a processor.                                  *)

Last(S) == CHOOSE n \in S : \A m \in S : m <= n
First(S) == CHOOSE n \in S : \A m \in S : n <= m

\* Mistake: an object that fails is in the id_map.
NamesAny(batch, S, x) == {n \in S : batch[n].id = x}

\* The positions whose processing has put x into the id_map.
Names(batch, S, x) == {n \in S : batch[n].valid /\ batch[n].id = x}

Plain(batch)       == {n \in 1..Len(batch) : batch[n].refs = <<>>}
Referencing(batch) == {n \in 1..Len(batch) : batch[n].refs # <<>>}

\* The refs to look up: those the plain objects of the batch do not satisfy.
Missing(batch) ==
    {x \in UNION {{batch[n].refs[k] : k \in 1..Len(batch[n].refs)}
                    : n \in 1..Len(batch)} :
       Names(batch, Plain(batch), x) = {}}

Stored(b, x) == {i \in InBucket(b) : rows[i].orig = x}

\* resolve_stix_ids: the oldest row wins.
ResolveStixIds(b, wanted) ==
    [x \in {x \in wanted : Stored(b, x) # {}} |-> rows[First(Stored(b, x))].id]

\* What process makes of the refs of the n-th object: each is replaced through the
\* relationships before it, the plain objects, and what was found in the bucket.
\* "refs" has those of the other objects.
ProcessedRefs(batch, found, refs, n) ==
    [k \in 1..Len(batch[n].refs) |->
       LET x       == batch[n].refs[k]
           earlier == Names(batch, Referencing(batch) \cap (1..(n - 1)), x)
           plain   == Names(batch, Plain(batch), x)
           id(m)   == PlatformId(batch[m].value, refs[m])
       IN  IF earlier # {} THEN id(Last(earlier))
           ELSE IF plain # {} THEN id(Last(plain))
           ELSE IF x \in DOMAIN found THEN found[x]
           ELSE x]

Rewritten(batch, found) ==
    LET refs[n \in 1..Len(batch)] == ProcessedRefs(batch, found, refs, n) IN refs

Valid(batch) == {n \in 1..Len(batch) : batch[n].valid}

\* The ids of the objects that have been processed when the n-th one is a relationship
\* and its turn comes: the plain ones, and the relationships before it.
Processed(batch, n) ==
    {batch[m].id : m \in Valid(batch) \cap (Plain(batch) \cup (1..(n - 1)))}

\* The row of the n-th object.  "raw" and "known" are history: the refs as sent, and
\* the objects its refs had to be resolved to: those processed before it, and those
\* in the bucket at the look-up.
EntityRow(c, n) ==
    LET batch == call[c].batch
        refs  == Rewritten(batch, call[c].found)[n]
    IN  [bucket |-> BucketOf(c), orig |-> batch[n].id,
         id |-> PlatformId(batch[n].value, refs), refs |-> refs,
         raw |-> batch[n].refs, known |-> call[c].known \cup Processed(batch, n)]

-----------------------------------------------------------------------------
(* Requests of the TAXII clients                                             *)

Send(c, request) ==
    /\ pc[c] = "idle" /\ budget[c] > 0
    /\ budget' = [budget EXCEPT ![c] = @ - 1]
    /\ pc' = [pc EXCEPT ![c] = "auth"]
    /\ call' = [call EXCEPT ![c] = request]
    /\ UNCHANGED <<adminVars, rows, nextRow, ins, trip, capacity>>

\* The next page of the collection, of a size the client chooses anew.
AskPage(r) ==
    \E limit \in Limits, c \in DOMAIN Collections :
      /\ trip[r].state # "done"
      /\ trip[r].state = "reading" => c = trip[r].collection
      /\ Send(r, [collection |-> c, limit |-> limit])

AskAdd(w) ==
    \E batch \in Batches, c \in DOMAIN Collections :
      Send(w, [collection |-> c, batch |-> batch, found |-> NoRows, known |-> {}])

\* The end of a request and of its transactions.
End(c) ==
    /\ pc' = [pc EXCEPT ![c] = "idle"]
    /\ call' = [call EXCEPT ![c] = NoCall]
    /\ ins' = [ins EXCEPT ![c] = NoRows]

Authenticate(c) ==
    /\ pc[c] = "auth" /\ Available
    /\ \/ Allowed(c) /\ pc' = [pc EXCEPT ![c] = "bucket"] /\ UNCHANGED <<call, ins>>
       \/ ~Allowed(c) /\ End(c)
    /\ UNCHANGED <<adminVars, budget, rows, nextRow, trip, capacity>>

\* Mistake: no pool_timeout.
WaitForEver(c) == FALSE /\ End(c) /\ UNCHANGED vars

\* pool_timeout: 500, and the connection the request held is free again.
PoolTimeout(c) ==
    /\ pc[c] \in {"auth", "bucket"} /\ ~Available
    /\ End(c)
    /\ UNCHANGED <<adminVars, budget, rows, nextRow, trip, capacity>>

\* The client's traversal after the page that answers its request.
Turned(r) ==
    LET b     == BucketOf(r)
        limit == call[r].limit
        begun == IF trip[r].state = "new"
                 THEN [state |-> "reading", collection |-> call[r].collection,
                       offset |-> 0, got |-> {}, begin |-> InBucket(b), late |-> FALSE]
                 ELSE trip[r]
    IN  [state      |-> IF More(b, begun.offset, limit) THEN "reading" ELSE "done",
         collection |-> begun.collection,
         offset     |-> NextOffset(begun.offset, limit),
         got        |-> begun.got \cup Page(b, begun.offset, limit),
         begin      |-> begun.begin,
         late       |-> begun.late]

\* get_collection_objects: the page, and the cursor of the next one; the answer
\* may get lost on its way.
ReadPage(r) ==
    /\ r \in Readers /\ pc[r] = "bucket" /\ Available
    /\ pc' = [pc EXCEPT ![r] = "open"]
    /\ trip' \in {trip, [trip EXCEPT ![r] = Turned(r)]}
    /\ UNCHANGED <<adminVars, budget, rows, nextRow, call, ins, capacity>>

\* add_collection_objects: what resolve_stix_ids finds committed now.
LookupRefs(w) ==
    /\ w \in Writers /\ pc[w] = "bucket" /\ Available
    /\ pc' = [pc EXCEPT ![w] = "ingest"]
    /\ call' = [call EXCEPT ![w].found =
                  ResolveStixIds(BucketOf(w), Missing(call[w].batch)),
                              ![w].known = {rows[i].orig : i \in InBucket(BucketOf(w))}]
    /\ UNCHANGED <<adminVars, budget, rows, nextRow, ins, trip, capacity>>

\* add_entities, for the valid objects in the order of the batch; then 202.
AddEntities(w) ==
    /\ w \in Writers /\ pc[w] = "ingest"
    /\ pc' = [pc EXCEPT ![w] = "open"]
    /\ LET valid == Valid(call[w].batch)
           at(i) == CHOOSE n \in valid :
                      Cardinality({m \in valid : m < n}) = i - nextRow
       IN  /\ ins' = [ins EXCEPT ![w] =
                 [i \in nextRow .. (nextRow + Cardinality(valid) - 1) |->
                    EntityRow(w, at(i))]]
           /\ nextRow' = nextRow + Cardinality(valid)
    /\ UNCHANGED <<adminVars, budget, rows, call, trip, capacity>>

\* "late" is history: since the reader's first page, a row has been committed
\* before one it already has.
AfterCommit(r, new) ==
    IF /\ trip[r].state = "reading"
       /\ \E i \in DOMAIN new, j \in trip[r].got :
            i < j /\ new[i].bucket = Collections[trip[r].collection].bucket
    THEN [trip[r] EXCEPT !.late = TRUE]
    ELSE trip[r]

\* The sessions are closed after the answer.
Commit(c) ==
    /\ pc[c] = "open"
    /\ rows' = [i \in DOMAIN rows \cup DOMAIN ins[c] |->
                  IF i \in DOMAIN ins[c] THEN ins[c][i] ELSE rows[i]]
    /\ trip' = [r \in Readers |-> AfterCommit(r, ins[c])]
    /\ End(c)
    /\ UNCHANGED <<adminVars, budget, nextRow, capacity>>

\* A statement or the commit fails, or the server dies: nothing is written.
Fail(c) ==
    /\ pc[c] \in {"bucket", "ingest", "open"}
    /\ End(c)
    /\ UNCHANGED <<adminVars, budget, rows, nextRow, trip, capacity>>

-----------------------------------------------------------------------------
(* A request with the admin key takes one connection for its look-up.        *)
Administer(a) ==
    /\ AdminStep(a)
    /\ stage[a] = "idle" => Available
    /\ UNCHANGED exchangeVars

Init ==
    /\ InitUsers
    /\ rows = NoRows /\ nextRow = 1
    /\ pc = [c \in Clients |-> "idle"]
    /\ call = [c \in Clients |-> NoCall]
    /\ ins = [c \in Clients |-> NoRows]
    /\ trip = [r \in Readers |-> [state |-> "new", collection |-> "none", offset |-> 0,
                                  got |-> {}, begin |-> {}, late |-> FALSE]]
    /\ capacity \in Capacities[budget]

\* What the server does for a client by itself.
Serve(c) ==
    \/ Authenticate(c) \/ PoolTimeout(c) \/ ReadPage(c) \/ LookupRefs(c)
    \/ AddEntities(c) \/ Commit(c)

Next ==
    \/ \E r \in Readers : AskPage(r)
    \/ \E w \in Writers : AskAdd(w)
    \/ \E c \in Clients : Serve(c) \/ Fail(c)
    \/ \E a \in Admins : Administer(a)

Spec == Init /\ [][Next]_vars

\* The event loop runs every handler, and an administrator's too.
FairSpec ==
    /\ Spec
    /\ \A c \in Clients : WF_vars(Serve(c))

-----------------------------------------------------------------------------
(* Properties *)

IsTable(t) ==
    /\ t = [i \in DOMAIN t |-> t[i]]
    /\ DOMAIN t \subseteq 1..(nextRow - 1)
    /\ \A i \in DOMAIN t : t[i].bucket \in Buckets

Trip == [state : {"new", "reading", "done"},
         collection : DOMAIN Collections \cup {"none"},
         offset : Nat, got : SUBSET Nat, begin : SUBSET Nat, late : BOOLEAN]

\* Type invariant.  Connections in use never exceed the pool.
TypeOK ==
    /\ UsersTypeOK
    /\ nextRow \in Nat \ {0}
    /\ IsTable(rows)
    /\ pc \in [Clients -> {"idle", "auth", "bucket", "ingest", "open"}]
    /\ call = [c \in Clients |-> call[c]]
    /\ ins = [c \in Clients |-> ins[c]]
    /\ \A c \in Clients : IsTable(ins[c])
    /\ trip \in [Readers -> Trip]
    /\ capacity \in Nat
    /\ InUse <= capacity

\* A client that follows "next" to the last page has received every object that
\* was in the collection at its first page: whatever is committed in between,
\* also before the offset, whatever sizes it asks for, and whatever requests fail.
NothingMissed ==
    \A r \in Readers : trip[r].state = "done" => trip[r].begin \subseteq trip[r].got

\* Pages are disjoint as long as rows are committed in the order of their ids.
PagesDisjoint ==
    [][\A r \in Readers : ReadPage(r) /\ ~trip[r].late =>
         trip[r].got \cap Page(BucketOf(r), trip[r].offset, call[r].limit) = {}]_vars

\* A stored ref leads to an object stored in the same bucket under the original id
\* it was sent with.  It is left as sent only if that object was not in the bucket
\* when the refs of the batch were looked up, and in the batch was neither a plain
\* object nor a relationship before it: to a later relationship a ref stays raw.
RefsResolve ==
    \A i \in DOMAIN rows : \A k \in 1..Len(rows[i].raw) :
      LET x == rows[i].raw[k] IN
      \/ \E j \in Stored(rows[i].bucket, x) : rows[i].refs[k] = rows[j].id
      \/ rows[i].refs[k] = x /\ x \notin rows[i].known

\* Every request is answered: clients that each hold a connection and wait for
\* their second one do not wait for each other for ever.
EventuallyAnswered ==
    \A c \in Clients : pc[c] # "idle" ~> pc[c] = "idle"
=============================================================================

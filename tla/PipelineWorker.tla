---------------------------- MODULE PipelineWorker ----------------------------
(***************************************************************************)
(* The pipeline workers (worker/__main__.py) over the tables of            *)
(* PostgreSQL, as DatabaseBucketRepository uses them.  A worker process    *)
(* loops over the (pipeline, source) pairs; each pair is one transaction   *)
(* at READ COMMITTED: what it writes stays in the transaction until the    *)
(* commit, and the rows it acquired are locked until it ends.  Every await *)
(* of process_batch is a step of its own, so the workers, the ingesting    *)
(* server and the failures interleave between them.                        *)
(***************************************************************************)
EXTENDS EntityTable, FiniteSets

CONSTANTS
    Workers,        \* worker processes
    BatchSize,      \* settings.WORKER_BATCH_SIZE
    Fails,          \* <<p, o>>: a step of p raises on an entity o
    Targets,        \* buckets that collections and collectors write to
    Provisioned,    \* buckets there are when the workers start
    Signalled,      \* workers that may be sent SIGINT or SIGTERM
    MaxIngest,      \* bound: entities the server ingests
    MaxFailures     \* bound: crashes and database errors together

ASSUME BatchSizeAssumption == BatchSize \in Nat \ {0}

ASSUME MaxIngestAssumption == MaxIngest \in Nat

ASSUME BucketsAssumption == Provisioned \subseteq Buckets /\ Targets \subseteq Buckets

\* The worker refuses to start when its pipelines form a cycle
\* (PipelineManager._validate_no_cycles): the buckets can be layered.
ASSUME AcyclicAssumption ==
    \E layer \in [Buckets -> 1..Cardinality(Buckets)] :
      \A n \in 1..Len(Pairs) :
        LET to == Sinks[Pairs[n].pipeline] IN
        \A k \in 1..Len(to) : layer[Pairs[n].source] < layer[to[k]]

VARIABLES
    rows,       \* committed rows of stix_entity_model, by id
    nextId,     \* its id sequence; a rollback does not give ids back
    clock,      \* datetime.now(UTC), advancing as workers read it
    exists,     \* committed rows of bucket_model, by name
    ingested,   \* entities ingested so far
    failures,   \* crashes and database errors so far
    pc,         \* where each worker is
    at,         \* the pair of run_once's loop it is at
    found,      \* run_once's total is above zero
    stop,       \* Worker._stop
    batch,      \* the ids acquire_entities returned, in order; locked
    mark,       \* the status its transaction has given those rows
    now,        \* the timestamp its outputs get
    slot,       \* the sink it writes next
    ins         \* the rows its transaction has inserted, by id

world == <<rows, exists, ingested>>
tx    == <<batch, mark, now, slot, ins>>
loop  == <<at, found, stop>>
vars  == <<rows, nextId, clock, exists, ingested, failures, pc, at, found,
           stop, batch, mark, now, slot, ins>>

PipelineOf(w) == Pairs[at[w]].pipeline
SourceOf(w)   == Pairs[at[w]].source

\* The rows w has locked.
Held(w) == {batch[w][n] : n \in 1..Len(batch[w])}

\* The states of a worker inside process_batch.
Busy == {"resolve", "execute", "write", "commit"}

NoRows == [i \in {} |-> 0]

-----------------------------------------------------------------------------
(* acquire_entities: pending, oldest first, skipping the locked, up to n.   *)

\* Mistake: a plain SELECT, which does not see the locks.
AvailableUnlocked(b) ==
    {i \in DOMAIN rows : rows[i].bucket = b /\ rows[i].status = "pending"}

\* Mistake: the status filter is lost.
AvailableAnyStatus(b) ==
    {i \in DOMAIN rows : /\ rows[i].bucket = b
                         /\ \A v \in Workers : i \notin Held(v)}

Available(b) ==
    {i \in DOMAIN rows : /\ rows[i].bucket = b
                         /\ rows[i].status = "pending"
                         /\ \A v \in Workers : i \notin Held(v)}

\* The lists SELECT ... ORDER BY platform_modified LIMIT n may return: rows
\* of one timestamp come in any order.
OldestFirst(s, avail) ==
    /\ \A m, n \in 1..Len(s) : m # n => s[m] # s[n]
    /\ \A m, n \in 1..Len(s) : m < n => rows[s[m]].modified <= rows[s[n]].modified
    /\ \A i \in avail \ {s[n] : n \in 1..Len(s)} :
         /\ Len(s) = BatchSize
         /\ \A n \in 1..Len(s) : rows[s[n]].modified <= rows[i].modified

\* The transaction is over, one way or the other.
EndTx(w) ==
    /\ batch' = [batch EXCEPT ![w] = <<>>]
    /\ ins'   = [ins EXCEPT ![w] = NoRows]
    /\ mark'  = [mark EXCEPT ![w] = "pending"]
    /\ slot'  = [slot EXCEPT ![w] = 1]
    /\ now'   = [now EXCEPT ![w] = 0]

NextPair(w) ==
    /\ pc' = [pc EXCEPT ![w] = "pass"]
    /\ at' = [at EXCEPT ![w] = @ + 1]

-----------------------------------------------------------------------------
(* run_once and run *)

\* Mistake: stop ends the pass, but the loop of run goes on.
ExitPass(w) ==
    /\ pc[w] = "pass" /\ stop[w]
    /\ pc' = [pc EXCEPT ![w] = IF found[w] THEN "pass" ELSE "sleep"]
    /\ at' = [at EXCEPT ![w] = 1]
    /\ found' = [found EXCEPT ![w] = FALSE]
    /\ UNCHANGED <<world, nextId, clock, failures, stop, tx>>

\* "if self._stop.is_set()" before every pair, and the wait that wakes early.
Exit(w) ==
    /\ pc[w] \in {"pass", "sleep"} /\ stop[w]
    /\ pc' = [pc EXCEPT ![w] = "done"]
    /\ UNCHANGED <<world, nextId, clock, failures, loop, tx>>

\* The source bucket does not exist, or nothing in it is pending.
SkipPair(w) ==
    /\ pc[w] = "pass" /\ ~stop[w] /\ at[w] \in 1..Len(Pairs)
    /\ SourceOf(w) \in exists => Available(SourceOf(w)) = {}
    /\ NextPair(w)
    /\ UNCHANGED <<world, nextId, clock, failures, found, stop, tx>>

\* A pass that found nothing sleeps; any other is followed by the next.
EndPass(w) ==
    /\ pc[w] = "pass" /\ at[w] = Len(Pairs) + 1
    /\ pc' = [pc EXCEPT ![w] = IF found[w] THEN "pass" ELSE "sleep"]
    /\ at' = [at EXCEPT ![w] = 1]
    /\ found' = [found EXCEPT ![w] = FALSE]
    /\ UNCHANGED <<world, nextId, clock, failures, stop, tx>>

\* poll_interval is over; run looks at the stop event afterwards.
Wake(w) ==
    /\ pc[w] = "sleep"
    /\ pc' = [pc EXCEPT ![w] = "pass"]
    /\ UNCHANGED <<world, nextId, clock, failures, loop, tx>>

-----------------------------------------------------------------------------
(* process_batch *)

\* One worker at a time gets a row: the lock is taken in the same statement.
Acquire(w) ==
    /\ pc[w] = "pass" /\ ~stop[w] /\ at[w] \in 1..Len(Pairs)
    /\ SourceOf(w) \in exists
    /\ LET avail == Available(SourceOf(w)) IN
         \E k \in 1..BatchSize : \E s \in [1..k -> avail] :
           /\ OldestFirst(s, avail)
           /\ batch' = [batch EXCEPT ![w] = s]
    /\ mark' = [mark EXCEPT ![w] = "processing"]
    /\ pc' = [pc EXCEPT ![w] = "resolve"]
    /\ UNCHANGED <<world, nextId, clock, failures, loop, now, slot, ins>>

\* Mistake: a failing batch is retried before the loop moves on.
RollbackRetry(w) ==
    /\ EndTx(w)
    /\ pc' = [pc EXCEPT ![w] = "pass"]
    /\ UNCHANGED <<world, nextId, clock, at, found, stop>>

\* An exception in the transaction: logged, rolled back, next pair.
Rollback(w) ==
    /\ EndTx(w)
    /\ NextPair(w)
    /\ UNCHANGED <<world, nextId, clock, found, stop>>

\* The table once w's transaction has committed.
Committed(w) ==
    [i \in DOMAIN rows \cup DOMAIN ins[w] |->
       IF i \in DOMAIN ins[w] THEN ins[w][i]
       ELSE IF i \in Held(w) THEN [rows[i] EXCEPT !.status = mark[w]]
       ELSE rows[i]]

\* _sinks_for, before any write.
SinksExist(p) == \A k \in 1..Len(Sinks[p]) : Sinks[p][k] \in exists

ResolveSinks(w) ==
    /\ pc[w] = "resolve" /\ SinksExist(PipelineOf(w))
    /\ pc' = [pc EXCEPT ![w] = "execute"]
    /\ UNCHANGED <<world, nextId, clock, failures, loop, tx>>

\* Mistake: the exception is caught inside the session, which then commits.
SinkNotFoundCommits(w) ==
    /\ pc[w] = "resolve" /\ ~SinksExist(PipelineOf(w))
    /\ rows' = Committed(w)
    /\ EndTx(w)
    /\ NextPair(w)
    /\ UNCHANGED <<nextId, clock, exists, ingested, failures, found, stop>>

SinkNotFound(w) ==
    /\ pc[w] = "resolve" /\ ~SinksExist(PipelineOf(w))
    /\ Rollback(w) /\ UNCHANGED failures

\* execute_pipeline: one result per entity, or an exception for the batch.
Raises(w) == \E i \in Held(w) : <<PipelineOf(w), rows[i].origin>> \in Fails

Execute(w) ==
    /\ pc[w] = "execute" /\ ~Raises(w)
    /\ pc' = [pc EXCEPT ![w] = "write"]
    /\ now' = [now EXCEPT ![w] = clock]
    /\ clock' = clock + 1
    /\ UNCHANGED <<world, nextId, failures, loop, batch, mark, slot, ins>>

ExecutionError(w) ==
    /\ pc[w] = "execute" /\ Raises(w)
    /\ Rollback(w) /\ UNCHANGED failures

\* add_entities for one sink: the results in order, ids from the sequence.
AddEntities(w) ==
    /\ pc[w] = "write" /\ slot[w] <= Len(Sinks[PipelineOf(w)])
    /\ LET new == nextId .. (nextId + Len(batch[w]) - 1)
           src(i) == batch[w][i - nextId + 1]
       IN  ins' = [ins EXCEPT ![w] =
             [i \in DOMAIN ins[w] \cup new |->
               IF i \in new
               THEN Derived(rows[src(i)], src(i), PipelineOf(w), slot[w], now[w])
               ELSE ins[w][i]]]
    /\ nextId' = nextId + Len(batch[w])
    /\ slot' = [slot EXCEPT ![w] = @ + 1]
    /\ UNCHANGED <<world, clock, failures, pc, loop, batch, mark, now>>

\* Mistake: update_entities is left out.
MarkForgotten(w) ==
    /\ pc[w] = "write" /\ slot[w] > Len(Sinks[PipelineOf(w)])
    /\ found' = [found EXCEPT ![w] = TRUE]
    /\ pc' = [pc EXCEPT ![w] = "commit"]
    /\ UNCHANGED <<world, nextId, clock, failures, at, stop, tx>>

\* update_entities; process_batch returns, and run_once counts the batch
\* before the transaction has committed.
MarkProcessed(w) ==
    /\ pc[w] = "write" /\ slot[w] > Len(Sinks[PipelineOf(w)])
    /\ mark' = [mark EXCEPT ![w] = "processed"]
    /\ found' = [found EXCEPT ![w] = TRUE]
    /\ pc' = [pc EXCEPT ![w] = "commit"]
    /\ UNCHANGED <<world, nextId, clock, failures, at, stop, batch, now, slot, ins>>

\* get_session commits on leaving the block.
Commit(w) ==
    /\ pc[w] = "commit"
    /\ rows' = Committed(w)
    /\ EndTx(w)
    /\ NextPair(w)
    /\ UNCHANGED <<nextId, clock, exists, ingested, failures, found, stop>>

-----------------------------------------------------------------------------
(* Failures, and the rest of the system *)

\* A statement or the commit fails: get_session rolls back, run_once logs.
DbError(w) ==
    /\ failures < MaxFailures
    /\ pc[w] \in Busy
    /\ failures' = failures + 1
    /\ Rollback(w)

\* The process or its connection dies: PostgreSQL rolls back and unlocks.
Crash(w) ==
    /\ failures < MaxFailures
    /\ pc[w] \notin {"down", "done"}
    /\ failures' = failures + 1
    /\ pc' = [pc EXCEPT ![w] = "down"]
    /\ EndTx(w)
    /\ UNCHANGED <<world, nextId, clock, loop>>

\* Nothing but the rows survives: a new Worker.
Restart(w) ==
    /\ pc[w] = "down"
    /\ pc' = [pc EXCEPT ![w] = "pass"]
    /\ at' = [at EXCEPT ![w] = 1]
    /\ found' = [found EXCEPT ![w] = FALSE]
    /\ stop' = [stop EXCEPT ![w] = FALSE]
    /\ UNCHANGED <<world, nextId, clock, failures, tx>>

\* SIGINT or SIGTERM, at any moment of the worker.
Stop(w) ==
    /\ w \in Signalled /\ pc[w] \notin {"down", "done"} /\ ~stop[w]
    /\ stop' = [stop EXCEPT ![w] = TRUE]
    /\ UNCHANGED <<world, nextId, clock, failures, pc, at, found, tx>>

\* A TAXII or collector request commits a batch of entities (ingest_objects),
\* all with the timestamp it read when it began, perhaps long before; it may tie
\* with another.
Ingest ==
    \E b \in exists \cap Targets, t \in 1..clock, k \in 1..(MaxIngest - ingested) :
    \E os \in [1..k -> Origins] :
      LET new == nextId .. (nextId + k - 1) IN
      /\ rows' = [i \in DOMAIN rows \cup new |->
                    IF i \in new THEN Ingested(b, os[i - nextId + 1], t) ELSE rows[i]]
      /\ ingested' = ingested + k
      /\ nextId' = nextId + k
      /\ UNCHANGED <<clock, exists, failures, pc, loop, tx>>

\* A server starts and saves a configured bucket (module Provisioning).
Provision ==
    /\ \E b \in Buckets \ exists : exists' = exists \cup {b}
    /\ UNCHANGED <<rows, ingested, nextId, clock, failures, pc, loop, tx>>

-----------------------------------------------------------------------------
Init ==
    /\ rows = NoRows
    /\ nextId = 1
    /\ clock = 1
    /\ exists = Provisioned
    /\ ingested = 0
    /\ failures = 0
    /\ pc = [w \in Workers |-> "pass"]
    /\ at = [w \in Workers |-> 1]
    /\ found = [w \in Workers |-> FALSE]
    /\ stop = [w \in Workers |-> FALSE]
    /\ batch = [w \in Workers |-> <<>>]
    /\ mark = [w \in Workers |-> "pending"]
    /\ now = [w \in Workers |-> 0]
    /\ slot = [w \in Workers |-> 1]
    /\ ins = [w \in Workers |-> NoRows]

\* What the process does by itself, as its event loop schedules it.
Step(w) ==
    \/ Exit(w) \/ SkipPair(w) \/ EndPass(w) \/ Wake(w)
    \/ Acquire(w) \/ ResolveSinks(w) \/ SinkNotFound(w)
    \/ Execute(w) \/ ExecutionError(w) \/ AddEntities(w)
    \/ MarkProcessed(w) \/ Commit(w)

Next ==
    \/ \E w \in Workers : Step(w) \/ DbError(w) \/ Crash(w) \/ Restart(w) \/ Stop(w)
    \/ Ingest
    \/ Provision

Spec == Init /\ [][Next]_vars

\* A process that is up keeps running; nothing restarts one that is down.
FairSpec == Spec /\ \A w \in Workers : WF_vars(Step(w))

-----------------------------------------------------------------------------
(* Properties *)

\* A table: a function from ids to rows.
IsTable(t) ==
    /\ t = [i \in DOMAIN t |-> t[i]]
    /\ DOMAIN t \subseteq Nat \ {0}
    /\ \A i \in DOMAIN t : t[i] \in Row

\* Every variable keeps the type of the column or attribute it stands for.
TypeOK ==
    /\ IsTable(rows)
    /\ nextId \in Nat \ {0} /\ clock \in Nat
    /\ exists \subseteq Buckets
    /\ ingested \in Nat /\ failures \in Nat
    /\ pc \in [Workers -> Busy \cup {"pass", "sleep", "down", "done"}]
    /\ at \in [Workers -> 1..(Len(Pairs) + 1)]
    /\ found \in [Workers -> BOOLEAN] /\ stop \in [Workers -> BOOLEAN]
    /\ batch \in [Workers -> Seq(Nat \ {0})]
    /\ mark \in [Workers -> Status]
    /\ now \in [Workers -> Nat] /\ slot \in [Workers -> Nat \ {0}]
    /\ ins = [w \in Workers |-> ins[w]]
    /\ \A w \in Workers : IsTable(ins[w])

\* However workers, crashes and errors interleave, a committed entity is
\* either untouched, with nothing made from it, or processed, by one pipeline
\* that can handle it, with exactly one copy in every sink of that pipeline.
ExactlyOnce ==
    \A i \in DOMAIN rows :
      /\ rows[i].status = "pending" => Children(rows, i) = {}
      /\ rows[i].status = "processed" =>
           \E p \in Pipelines : /\ DeliveredOnce(rows, i, p)
                                /\ <<p, rows[i].origin>> \notin Fails

\* "processing" never survives a transaction: acquire_entities selects only
\* pending rows, so a row left in that state would be lost to every worker.
NothingStranded == \A i \in DOMAIN rows : rows[i].status # "processing"

\* FOR UPDATE SKIP LOCKED: no row is in the batches of two workers, and what a
\* worker holds is still the pending row of its source that it selected.
HeldApart ==
    \A w \in Workers :
      /\ \A i \in Held(w) : /\ i \in DOMAIN rows
                            /\ rows[i].status = "pending"
                            /\ rows[i].bucket = SourceOf(w)
      /\ \A v \in Workers \ {w} : Held(v) \cap Held(w) = {}

Flow == INSTANCE BucketFlow

\* The workers, with all their locks and partial work, look to every reader of
\* the table like indivisible moves of whole batches.
ImplementsFlow == Flow!Spec

-----------------------------------------------------------------------------
(* Liveness *)

Healthy(b) ==
    \A n \in 1..Len(Pairs) : Pairs[n].source = b =>
      \A o \in Origins : <<Pairs[n].pipeline, o>> \notin Fails

Drained ==
    \A i \in DOMAIN rows :
      (\E p \in Pipelines : Reads(p, rows[i].bucket)) /\ Healthy(rows[i].bucket)
        => rows[i].status = "processed"

StaysUp == \E w \in Workers : <>[](pc[w] \notin {"down", "done"})

\* As long as one worker stays up and the buckets are provisioned, everything
\* that reaches a source bucket none of whose pipelines fails is processed in
\* the end, whatever fails in other buckets and wherever other workers died.
Drains == StaysUp /\ <>(exists = Buckets) => <>[]Drained

\* A worker told to stop finishes its batch and exits; it never hangs.
StopsCleanly ==
    \A w \in Workers : stop[w] ~> (pc[w] = "done" \/ ~stop[w] \/ pc[w] = "down")
=============================================================================

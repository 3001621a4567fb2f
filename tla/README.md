# STIXHub in TLA+

STIXHub takes in cyber threat intelligence (STIX objects), keeps it in *buckets*
in PostgreSQL, moves it from bucket to bucket through *pipelines* and hands it
out over TAXII 2.1. This directory specifies the parts of it in which the order
of events decides whether an entity is lost, duplicated or stuck, model-checks
small instances with TLC, and proves all safety properties of the passing runs with
TLAPS, for every instance.

Check a run with `tlc -config <cfg> <MC module>` and the proofs with
`tlapm <module>_proofs.tla`. `PROJECT.json` lists the runs, the source
lines behind every definition, the mutants that show each property can fail,
the hazards, the findings and the theorems.

## The system

| Part | State | Operations | Interacts through |
|---|---|---|---|
| Server (`server/`, `routes/taxii2.py`) | active collections, configuration | start: provision buckets, validate collections; read and write collections | `bucket_model`, `stix_entity_model` |
| Collector API (`routes/collectors.py`) | row of `collector_model`: bucket, cursor | register, submit a page, update the cursor | HTTP from collectors, one session per request |
| Collector (`collectors/`) | thread: cursor, page token, retries | register, poll cycles, stop | remote TAXII server, Collector API |
| Ingestion (`services/ingest.py`, `processors/`) | none | resolve refs, assign platform ids, insert | called by both write routes |
| Worker (`worker/`) | stop event; one transaction per batch | acquire, execute, write sinks, mark | rows of `stix_entity_model`, row locks |
| Pipelines (`pipeline/`) | definitions | validate, execute, translate refs | called by the worker |
| Users (`routes/users.py`, `permissions.py`) | `user_model` | create, change roles, delete | every TAXII request |

Everything persistent is in PostgreSQL at READ COMMITTED; servers, workers and
collectors are processes or threads that share nothing else. Merging
(`merging/`) is made of stubs: a bucket's mode is stored and its transitions are
checked, but it never influences a write, so there is nothing to model of it.

What is hard: two workers on one queue (`FOR UPDATE SKIP LOCKED`); a failure
anywhere in a batch that writes to several sinks; a batch that always fails; a
collector whose submission and cursor update are separate requests that can be
lost, repeated, executed late, or overtake each other's commit; a server start
that races another; offset pagination over rows that commit out of order;
references that are looked up before the batch is written; requests that each
hold a connection while they wait for another; commits that come after their answer,
or never; administrators whose look-ups and writes
interleave; refs that are turned into names and back
while the objects behind them are still arriving.

What makes each part correct:

- worker: each entity processed exactly once, or untouched; no row stuck;
  failures stay local; a stop ends the process;
- collector: the cursor never passes an object that was not accepted; every
  published object arrives;
- server start: each declared bucket exists once, in its mode; append mode is
  not taken away;
- TAXII routes: a reader that follows the pages sees every object that was there
  when it began; a reference is resolved if its target was stored; every request
  is answered, although connections are scarce;
- users: one account per email; an id stands for one account, which once deleted never
  comes back; an answer comes true although it precedes the commit;
- pipelines: exactly the cyclic configurations are rejected; steps act on readable
  values and fail only for what they were given; refs they leave alone come back as
  they were; nothing outside the role's buckets influences a result.

## The modules

| Module | What it is |
|---|---|
| `EntityTable` | rows, pipelines, and what it means that a row was delivered once |
| `BucketFlow` | abstract specification: entities arrive, or a batch moves indivisibly |
| `PipelineWorker` | the workers, with transactions, locks, failures, ingestion, provisioning |
| `PipelineWorker_proofs` | theorems about `PipelineWorker` |
| `TaxiiCollector`, `TaxiiCollector_proofs` | a collector, the Collector API and the remote feed |
| `Provisioning`, `Provisioning_proofs` | servers that start on one database |
| `UserDirectory` | abstract specification: accounts that change one at a time, one per email |
| `Users`, `Users_proofs` | the handlers of `routes/users.py` on the user table |
| `Exchange`, `Exchange_proofs` | TAXII clients and administrators on one server: routes, access, ingestion, pool (extends `Users`) |
| `PipelineSteps` | conditions and actions on one object, as operators |
| `PipelineManager`, `PipelineManager_proofs` | what a worker does with its configuration before it starts (extends `PipelineSteps`) |
| `RefResolver` | refs to readable values and back, as operators (extends `PipelineSteps`) |
| `PipelineExecution`, `PipelineExecution_proofs` | start-up, then a batch through one pipeline while others commit (extends the three above) |
| `Induction` | induction over the natural numbers, for proofs |
| `MC...` | instances for TLC |

### PipelineWorker

`rows` is the committed table; `batch`, `mark` and `ins` are a worker's open
transaction: what it has locked, the status it has given those rows, and what it
has inserted. A lock is membership in somebody's `batch`. `pc` follows the awaits
of `process_batch`:

    pass --Acquire--> resolve --ResolveSinks--> execute --Execute--> write
         --AddEntities (per sink)--> write --MarkProcessed--> commit --Commit--> pass

`SinkNotFound`, `ExecutionError` and `DbError` leave through `Rollback`;
`SkipPair`, `EndPass`, `Wake` and `Exit` are the loops of `run_once` and `run`. `total`
counts a batch before its commit, so `found` is set by `MarkProcessed` and stays
set when the commit then fails. `Ingest` and `Provision` stand for the server:
each is one committed transaction: a batch of ingestion has one timestamp, which
`ingest_objects` read before its query, so that it may be older than rows committed
since. `Crash` ends the transaction and loses the
process; `compose.yml` has no restart policy, so `Restart` is not fair.

A row's carried-over columns are one value of `Origins`; `Fails` says for which
of them a pipeline raises (`execute_pipeline` fails as a whole, so one bad entity
fails its batch). `parent` and `slot` are history variables inside the row: they
are read by no action. `AvailableUnlocked` and other definitions marked *Mistake*
are the mutants.

### TaxiiCollector

The collector is a daemon thread of the server that serves `/collectors`
(`server/__main__.py:44`), so `Crash` ends the thread and every open transaction, those
already answered included. The repositories of a request are `yield` dependencies: `get_session` commits when
they are torn down, which FastAPI (0.136.3 in `uv.lock`) does after the response
is sent. So a request goes through `open`: the handler reads what is committed
and puts its effect there (`Answered`), and `Commit` applies it later. A request that
timed out is in `open` unanswered: it may be executed at any later moment, or
never (`Lose`). An answered one may fail to commit (`Abort`), which nobody tells the
thread. Updates of the collector row exclude each other (`RowLocked`).
`Prompt` names the calls whose transaction always commits before the thread's next
request: the usual course, which a run may require or not. `Fragile` names those whose
commit may fail.

The thread: `register` → `wait` → `fetch` → `submit` → `put` → next page or `wait`.
`Timeout`, `BackOff` and `Refused` are `with_retries` around whichever call is
current; `GiveUp` says what a failed call leads to: registration ends the process
(`on_fatal`), any other ends the cycle. `TurnPage` is the tail of the loop body, run in
the step that finishes the page. The dates of the feed are numbers, a cursor is a
date, and 0 is `None`; `UtcNow` is compared with dates only, so the latest date
stands for it. `max_retries` and `REGISTRATION_ATTEMPTS` are one constant.
An object in `Invalid` is one `ingest_objects` reports as a failure.
The target bucket changes only between two lives of the collector and when no
request is left over; a request that outlives a re-targeting is not explored.

### Provisioning

A server's start is a transaction: `tx` holds what it has written, `Visible` is what
it reads. `Found` is `get(bucket_name=...)` with its three outcomes: one row, none
(`None`), or several (an exception that `provision_buckets` swallows, which is why
`Save` covers both of the last). `Keep`, `UpdateMode` and `Refuse` are the mode
transitions. `Serve` is `validate_collections` with the commit. `Edit` changes the
configuration file at any time; a server keeps what it read. With `Rolling` the
operator starts servers one at a time.

### Users and UserDirectory

`users` is the committed table. A request looks the account up (`Lookup`), writes
(`Insert`, `Update`, `Delete`) and commits after its answer (`CommitUser`), and the
requests of several administrators interleave at these points. PostgreSQL does
the rest: `Unlocked` is the row lock of an UPDATE or DELETE, `EmailSettled` the wait
of an insert for an uncommitted entry of the unique index. `Overtaken` is the
exception (status 500) when the look-up no longer holds. A key is represented by
the id of its account: it is looked up by its hash and never changes. In
`UserDirectory`, `spent` are the ids that have been given out, a deleted account's
and that of a creation that failed among them; a new account has none of them. `Users`
implements it with `Spent`: all ids drawn, save those of creations still open.

### Exchange

A request of a client goes through `auth`, `bucket` and, for a writer, `ingest`, to
`open`, where it has answered and `Commit` or `Fail` is due. It takes a connection
to authenticate and a second one for its first look at a bucket, because
`get_user_repo` and `get_bucket_repo` open a session each; `InUse` counts them, with
those of the administrators, and `capacity` is `pool_size + max_overflow`.
`PoolTimeout` may strike whenever the pool is empty.

`Allowed` is what the two handlers check before they touch a bucket, on the account
as it was committed when the request authenticated. `Page` and `More` are the
query with `limit + 1` rows; a row's `Rank` is its position, so an offset is a rank.
`trip` is the client's side: what it has received, and the cursor it will send.
`begin` (what was in the collection at the first page) and `late` (a row was
committed before one already received) are history, like `raw` and `known` in a row:
the refs as they were sent, and the objects that `ingest_objects` could know when it
processed them.

`LookupRefs` is `ingest_objects` up to its only query, `AddEntities` the rest. `known`
is what is in the bucket at that query and, in a row, what has been processed before it:
the plain objects of its batch and the relationships before it. The `id_map` is not a
variable: `Names` says which positions of the batch have put an id into it, and
`Rewritten` what `process` makes of each ref, in its order. `PlatformId`
stands for `uuid5` of the contributing properties, as an uninterpreted function of the
value and the rewritten refs. Processors and their fields are reduced to `valid`.
Ids of rows are given at the insert, in one step for a batch: two batches that
are flushed at the same moment could interleave their ids, which no property
tells apart, since each row's fate depends on the commit only.

### PipelineSteps, PipelineManager, RefResolver and PipelineExecution

An object has the four fields that `FIELDS` declares and any others (`Fields`): steps
change the four, conditions look at all of them, as start-up checks a condition's type
but not its field. A value is a list of texts, a text, a number, null or missing, which
a condition takes for the empty text; objects within an object are left out. `Evaluate`
has a third outcome,
`"raises"` (`contains` on a number), and `FirstOther` keeps the short cut of
`all()` and `any()`, which decides whether the exception is met.
`ValidCondition` and `Evaluate` are recursive functions on the set of conditions
that occur, and so is `Holds`, what a condition says of sets of names.

`PipelineManager` unfolds the recursion of `visit`: `path` is the argument of that
name with the bucket of the call appended, `left` what each call's loop has
still to visit, and `VisitSink` is a call with its two checks in the order of the
code. Buckets are visited in any order, where the code sorts them. `Load` is one
turn of the loop of `_load_pipelines`.

`FindAuthors` and `FindMarkings` are the two queries of `prefetch`; `Store` commits
identities and markings before, between and after them. `Execute` runs a batch in one
step, for the loop of `execute_pipeline` does not await. `Originals` says from which
refs a value was read, and `RefFor` chooses the first of them, as `setdefault` does.
`Letters` is what Python yields when it iterates over a text.

## The runs

| Run | Shows | Bounds |
|---|---|---|
| `worker_safety` | `ExactlyOnce`, `NothingStranded`, `HeldApart`, `ImplementsFlow` | 2 workers, fork and join of 2 pipelines, batches of 2, 2 ingested entities, 1 failure |
| `worker_drain` | `Drains` | 2 workers, a chain, batches of 1, 2 entities, 1 failure |
| `worker_stop` | `StopsCleanly` | the same, 1 entity, 2 failures, both workers signalled |
| `collector_safety` | `NoSkip` | 2 buckets, 3 objects in pages of 1, the second refused, 2 faults, 2 attempts; cursor updates may fail to commit |
| `collector_live` | `EventuallyStored` | 1 bucket, 3 objects in pages of 2, the second refused, 2 faults; cursor updates late or failing to commit, registrations late |
| `provisioning_rolling` | `StartsAsConfigured`, `AppendKept` | 2 servers, 2 buckets, 6 configurations, 4 starts |
| `exchange` | `NothingMissed`, `PagesDisjoint`, `RefsResolve`, `AnswersHold`, `ImplementsDirectory`, `EventuallyAnswered` | 1 reader, 2 writers, 2 administrators, 2 collections, pages of 1 or 2; the five mixes below |
| `pipelines` | `Verdict`, `ActsOnMeanings`, `FailsForCause`, `NonInterference`, `OriginalRefs` | every pair of pipelines over 3 buckets, every triple with one source and one sink each; 12 lists of steps on some 150 batches |
| `collector_samedates`, `collector_retarget`, `collector_lost`, `provisioning_together` | counterexamples, see Findings | 2 objects, 1 fault; 2 servers |

Why the bounds are enough. *Workers*: two are needed to compete for rows, and
every lock conflict is between two. Two sinks make a batch partly written, a
sink that is a source and a bucket filled from two sides make ids and ages
interleave, two entities, committed together or one by one, fill a batch or wait behind
each other. *Collector*: three objects in pages
of one give a first, a middle and a last page, and an all-refused page in the
middle; two faults combine a late request, or a commit that fails, with a crash. *Provisioning*: four
starts let a second server come up, and the first come back, after an edit and a
crash. `MaxIngest`, `MaxFailures`, `MaxFeed`, `MaxFaults` and `MaxStarts` are
bounds in guards. *Exchange*: `Budgets` bounds the requests of each client, and
is a set, so that one run explores five mixes, each with its pool: two requests
of one administrator beside one of another (two changes overtake a third); an
administrator, a reader and a writer on three connections (an account is changed
while its key is in use); three clients on three connections (each holds one and
waits for its second); a traversal of three pages beside two writers; and two
batches of one writer beside one of another. The batches hold a relationship to
an object that is in the batch, refused in it, or stored before, and a relationship to
that relationship, which comes after it in one batch and before it in the other. *Pipelines*:
a cycle of three is found from outside, at its root and in its middle, and the
graph may branch; the objects have refs that are readable, hidden, stored late,
of one value with another, malformed, or of a wrong shape; the conditions are nested,
and look at `type` and at a missing `name` as well. The proofs remove
these bounds for every safety property; of the collector, the servers,
`OriginalRefs` and `ActsOnMeanings` they do so under the hypotheses named below.

`worker_stop` turns off deadlock checking since all workers may have stopped, `exchange` since all
requests are made, `pipelines` since start-up or the batch has ended. Symmetry
is used over workers, buckets and servers in runs without liveness.

Fairness. `PipelineWorker!FairSpec`: a worker that is up takes its next step; that
is asyncio running a coroutine whose statement returns. One fairness condition
per worker, none on a restart, a failure or on ingestion. `Drains` therefore assumes
that one worker stays up, and that the buckets are provisioned. It excludes only
entities of source buckets with a failing pipeline: retries at the head of such a
source go on for ever (`Healthy`). `TaxiiCollector!FairSpec`: the thread runs, and the
platform commits what it has answered, unless that commit fails (`Abort`, as often as
`MaxFaults` allows); the remote server and the operator owe
nothing. `EventuallyStored` excuses a collector that is stopped, dead or down, and needs
that batches commit before the next call and that no registration fails to commit.
`Exchange!FairSpec`: the server goes on with each client's request, which is the
event loop running its handlers and `pool_timeout` running out; the clients owe no
further request, and administrators no step, so that a connection one of
them holds may never come back.

## Findings

1. *Equal dates across a page boundary* (`collector_samedates`). `added_after` is strict,
   and the cursor moves page by page.
2. *A first submission to the old bucket* (`collector_retarget`). It can overtake the
   commit of the registration that re-targets the collector.
3. *Duplicate buckets* (`provisioning_together`). `bucket_model.name` is not unique; once
   there are two of a name, each later start swallows the exception and adds one.
4. *A lost batch* (`collector_lost`). The submission is answered before it commits. If
   that commit fails, or the server dies first, while the cursor update that follows
   has committed, the cursor lies past a batch that nobody asks for again.

Met on the way, without a run of their own:

- A collection without a bucket stays active: `get` returns `None`, and
  `validate_collections` waits for an exception (`specs/write-collections.md:42`).
- A registration whose commit fails after its answer leaves the collector without a row:
  each of its submissions gets a 404 until the server is restarted. (`Fragile <-
  MCRegister` in `MCTaxiiCollector_live.cfg` violates `EventuallyStored`.)
- A ref to a relationship that comes later in its batch stays as it was sent
  (`ingest.py:83`), for ever. `RefsResolve` promises nothing of it.
- A collector that dies between the submission and the cursor update ingests the
  batch again, against the criterion in `specs/taxii-collector.md:119`.
- Without `X-TAXII-Date-Added-Last` the cursor becomes the time after the submission;
  what was published since the page was fetched, and all later pages if the cycle
  fails, are skipped for good. (`HasHeader = FALSE` in `MCTaxiiCollector_safety.cfg`
  violates `NoSkip`.)
- A row that commits late, before the cursor of a traversal, shifts the offset: an
  object comes twice and the late one is missed. `PagesDisjoint` is stated for rows
  that commit in order, `NothingMissed` for those there at the first page.
- A relationship that arrives before its target keeps the original ref, and thereby gets
  another platform id than one that arrives after it, although
  `specs/write-collections.md:64` promises one id for one logical object.
- `delete` removes one occurrence from a list that repeats an item, while the comment in
  `pipeline.py:136` treats lists as sets. `ActsOnMeanings` excludes such labels.
- Markings that are a text do not raise, as `specs/pipelines.md:68` says of data of the wrong
  shape: they are iterated letter by letter, and the object leaves with invented refs.
- An identity or marking whose name looks like a STIX id: `to_refs` takes the name for a
  ref (`refs.py:136`), and the object leaves with a ref that nobody sent. (A marking
  with the value `"marking--h"` in a table of `MCPipelineExecution` violates
  `OriginalRefs`.)
- A step that writes the id of a stored identity or marking, instead of its name, acts on
  the id (`refs.py:136` lets it pass): a later condition on the name is false in this
  pipeline and true in the next one, which reads the name. (A step of
  `MCPipelineExecution` that sets the author to `"identity--acme"` violates
  `ActsOnMeanings`.)
- A new value gets its platform id unseen (`refs.py:138`). If an identity that is stored
  under another name had this id at its source, the ref is read as that one afterwards.
- A malformed ref in a marking list, or an author that is a name, is replaced by the
  platform id of that text, where `refs.py:130` says raw ids pass through unchanged.
- `README.md:222` names the states New, Pending and Processed where the code has pending,
  processing and processed, and describes merging on write that no code performs.

## The proofs

`PipelineWorker_proofs` proves, for all workers, buckets, pipelines, batch sizes and
bounds, from the named assumptions of `EntityTable` and `PipelineWorker`:

- `TypeCorrect`: `Spec => []TypeOK`
- `LocksExclude`: `Spec => []HeldApart`
- `OnceCorrect`: `Spec => []ExactlyOnce`
- `NoneStranded`: `Spec => []NothingStranded`
- `Refinement`: `Spec => ImplementsFlow`, step by step with `rows` as itself

`ExactlyOnce` is not inductive: a commit is correct only because of what the
transaction has built up. The inductive invariant `IInv` adds

- `LockInv`: a worker holds rows exactly while it is in a batch, and without
  repetition;
- `HeldApart`: held rows are unchanged, pending, and nobody else's;
- `IdsInv`: ids in the table and in all open transactions are distinct and
  already given out, so inserts never collide;
- `StageInv`: at each `pc`, the rows inserted so far are exactly one copy of each
  held row for each sink up to `slot`; at `commit`, all sinks are done and the mark
  is "processed".

One lemma per conjunct shows that a step preserves it; `CommitFacts` and its
neighbours describe the table after a commit once, and are used for `ExactlyOnce`
and for the refinement. TLC has checked `IInv` on a small instance as well.

`Users_proofs` and `Exchange_proofs`, for all clients, administrators, collections,
batches, page sizes and pools:

- `UsersTypeCorrect`, `AnswersCorrect`: `UsersSpec => []UsersTypeOK`, `[]AnswersHold`
- `DirectoryCorrect`: `UsersSpec => ImplementsDirectory`
- `AnswersAmongClients`, `DirectoryAmongClients`: the same of `Exchange`, whose steps are
  steps of `Users` or leave it alone
- `ExchangeTypeCorrect`: `Spec => []TypeOK`, with the bound of the pool
- `NothingIsMissed`, `PagesAreDisjoint`: `Spec => []NothingMissed`, `Spec => PagesDisjoint`

For the users the invariant adds that ids of new accounts are nobody else's,
that an account keeps its address, that two announced accounts have different
ones, and `UniqueEmails`. A commit is then a step of the directory: its row is
locked, or its address free, and the id of a creation has not been spent (`SpentAtEnd`),
whereas no other step spends or frees one (`SpentKept`). `NothingMissed` is strengthened to `TripKept`: what
was there at the beginning and has a rank up to the cursor has been received,
and, if nothing was late, nothing beyond it. Its preservation at a commit needs
that ranks only grow (`RankGrows`), at a page that the cursor moves over exactly
the rows returned (`Turning`), and `TablesKept`: ids in the table and in all
transactions are distinct. The pool is counted with the cardinality theorems.

`PipelineManager_proofs`, for all configurations: `ManagerTypeCorrect` and
`SearchCorrect`: `ManagerSpec => []Verdict`. The invariant: what has been
visited leads nowhere else and contains no cycle; the path is simple and follows
edges; a bucket on it leads to what was visited, to its successor, or to what is
left; every source is a root to come, visited, or on the path. A bucket is added
to the visited ones when nothing is left of it, so no cycle runs through it
(`VisitedStaysAcyclic`). This is what `AcyclicAssumption` of `PipelineWorker`
relies on.

`PipelineExecution_proofs`: `ExecutionTypeCorrect`, `StartsRight` (the same
verdict in the composition), and

- `Confined`: `Spec => []NonInterference`. The invariant says that the resolver's
  two maps are what look-ups in some table of readable rows give, each as of its
  query; the lemmas, that a result depends only on the values of the object's own
  refs, which the rest of the batch does not change (`AloneInTheBatch`). The steps
  are opaque here.
- `RefsAreOriginal`: `Spec => []OriginalRefs`, under `NamesAreNoIds`: no readable name
  looks like a STIX id. Here the steps are followed. `RunFollows` says, by
  induction, that after any number of them an item of a list is one it began
  with or one some step writes (`WrittenIs`, `WrittenAllowed`); `ReadAndWritten`, that a
  name is written back as a ref it was read from (`SoundRefs`). The invariant `OInv`
  adds that the steps are those start-up has checked, which is what keeps
  readable names and ids apart in what they write, and that every row is one of
  the table or stored late. The result is shown of the step that computes it.
- `StepsActOnMeanings`: `Spec => []ActsOnMeanings`, under `NamesAreNoIds`,
  `PlatformIdsAreUnique` and `StepsWriteNames`. An object is compared with what it
  depicts (`Depicts`), field by field a kind and a set of values:
  - `ConditionMeans`: a condition that evaluates without raising says the same of
    both, however it is nested. Were there conditions that do not, one of them
    would have no part among them (`ConditionsAssumption`: groups are finite
    trees), and its parts decide what it says;
  - `ApplyMeans`, `RunMeans`: a step on a list without repetition changes what the
    list depicts as `Meant` does, and leaves none behind (`Tidy`); so do all of
    them, by induction on their number;
  - `ValuesMean`, `NameComesBack`: `to_values` depicts what the refs are read as,
    and what `to_refs` writes for a value is read as this value, or is its platform
    id: `Canonical` takes the two as one, since no row need be stored for a new value.

  `OInv` has one more part for it, `NoneRaised`: a batch is done only if none of its
  objects has raised, in which case `execute_pipeline` gives no result at all.

  None of the three hypotheses can be left out: TLC finds `ActsOnMeanings` violated
  with a stored name that is an id, with a row of another name under a platform
  id, and with a step that writes a known id, as the findings say. The instance has
  all three (the `ASSUME` at the end of `MCPipelineExecution`, which TLC evaluates).
- `BatchesFailForCause`: `Spec => []FailsForCause`, without hypotheses. A field has the
  shape it was received with, or one that fits all steps (`Fits`): `to_values` keeps
  that, and so does each step that runs (`PerformFits`). So a shape that is wrong for a
  step was received (`ShapeReceived`), and a condition that raises looks into a number
  or null that was (`RaisesWhereSought`, by the same argument on parts as
  `ConditionMeans`). `RunBlames` is the induction over the steps.

`TaxiiCollector_proofs`, for all feeds, page lengths, invalid objects, numbers of
retries and faults, whichever commits are late or fail:

- `CollectorTypes`: `Spec => []TypeOK`
- `NothingSkipped`: `Spec => []NoSkip`, under `HasHeader`, `~SameDates`,
  `"submit" \in Prompt` (a batch commits before the thread's next request) and
  `TargetSettled` (so does a registration, or there is one bucket to collect into). The
  code guarantees none of the four; without any one of them TLC finds `NoSkip` violated,
  as the findings say.

`NoSkip` speaks of the committed cursor; `IInv` of every place a cursor is in. A cursor is
*safe* for a bucket if it is the date of an object up to which all valid ones are
accepted. `CursorInv`: the row's, the thread's and the one of the current query are
safe. `OpenInv`: so is that of each update still under way, however late it
commits, and the row already names its bucket. `RegisteredInv`: the row names
the target, or none yet, or an answered registration is open. `BatchInv`: before its
cursor update, each object of a batch is stored, or in an answered submission.
`QueryInv`: the pages so far are
an unbroken stretch of the feed after the cursor, all accepted but the last, and
the header is the date of the last object of the page. `Increasing`: no two
objects have one date, so that a strict comparison loses none.

`Provisioning_proofs`, for all servers, names and configurations:

- `ProvisioningTypes`: `Spec => []TypeOK`
- `AppendModeKept`: `Spec => []AppendKept`, under `Rolling`
- `ServersStartAsConfigured`: `Spec => StartsAsConfigured`, under `Rolling` and `DistinctNames` (a
  configuration declares a bucket once)

`provisioning_together` starts without `Rolling`, and TLC finds the conclusion violated.

`IInv`: one server at a time provisions; names are unique in the committed table and
in what each transaction sees; an open update changes no name and takes no
append mode away; what a server has dealt with so far is provided in what it
sees, and all of it in the committed table once it serves. `AsDeclared` adds that
the declarations behind it are there to the letter, as long as it has not been
refused.

In `Exchange_proofs`, `RefsAreResolved` is `Spec => []RefsResolve`, for every batch. Its invariant
`RefsKept` follows a ref through a request: what is in the bucket at the one query is found
and stays (`FoundKept`), and the rows of the transaction lead to committed ones or to
each other (`InsResolve`), unless the target was neither there nor processed before.
The refs of an object depend on the ids of the relationships before it, so
`Rewritten` is a recursive function; `RewrittenIs` shows that it exists for every
batch, and each object's refs are then `ProcessedRefs` of the others'.

`Induction` derives induction over the natural numbers from the library's theorems on
well-founded relations, with a set in place of the predicate, since the provers
cannot instantiate an operator. A fold becomes a recursive function over
positions, and what is claimed of it a set of positions.

The assumptions are named where the constants are declared: numbers are naturals
(`MaxStartsAssumption`, `MaxIngestAssumption`, `BoundsAssumption`, and the like), tables,
configurations and steps have their types (`ConfigsAssumption`, `TablesAssumption`,
`StepsAssumption`, `PendingAssumption`), objects have the fields of `FIELDS` among others
(`FieldsAssumption`), and conditions are finite trees over any of these fields, being
parsed from a file (`ConditionsAssumption`). The
hypotheses above are not among them, because the code establishes none of them:
no check rejects a duplicate declaration, a name that looks like an id or a step that
writes one, nothing holds a request back until the one before has committed, and what
a remote server sends is its own affair.

Only model-checked: `Drains`, `StopsCleanly`, `EventuallyStored` and
`EventuallyAnswered`. Liveness under fairness is out of the prover's reach.

## Not modelled

The in-memory repositories (single-threaded, for tests), `merging/` and
`PipelineManager.execute` (not called), the mock TAXII server (an example),
argument parsing, settings, logging, secrets and tokens, formatting of STIX and
TAXII documents, which property of a STIX type is its value, discovery and the
lists of collections and users (they change nothing), the 400 for a cursor that
is no number, the timing of polls and back-offs. `BucketRepository.delete` has
no caller.

## Plan

1. `PipelineWorker` with `BucketFlow`, and its proofs. *Done.*
2. `TaxiiCollector` and `Provisioning`, with the findings above. *Done.*
3. `Users` with `UserDirectory`, `Exchange`, and their proofs. *Done.*
4. `PipelineSteps`, `PipelineManager`, `RefResolver`, `PipelineExecution`, and their proofs. *Done.*
5. Proofs for `TaxiiCollector` and `Provisioning`, of `RefsResolve` and of `OriginalRefs`. *Done.*
6. A proof of `ActsOnMeanings`, over nested conditions. *Done.*
7. Commits that fail after the answer in `TaxiiCollector`, and what makes a batch fail. *Done.*

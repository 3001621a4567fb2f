---------------------------- MODULE TaxiiCollector ----------------------------
(***************************************************************************)
(* One collector (collectors/taxii_collector.py), the platform's           *)
(* /collectors API it talks to (routes/collectors.py and the collector     *)
(* repository) and the remote TAXII feed it drains.  The collector is a    *)
(* daemon thread of the server that answers it: they die together.         *)
(*                                                                         *)
(* A request runs in a database transaction of its own.  The repositories  *)
(* are "yield" dependencies: the session commits when the dependency is    *)
(* torn down, which the pinned FastAPI does after the response has been    *)
(* sent.  So an answered request is a transaction still open, which a      *)
(* crash or a failing commit undoes, and a client that times out leaves    *)
(* one behind that may commit at any later moment.                         *)
(***************************************************************************)
EXTENDS Integers, Sequences, FiniteSets, SequencesExt

CONSTANTS
    Buckets,        \* buckets the operator may configure as the target
    Invalid,        \* positions of the feed the platform refuses to store
    PageLen,        \* objects in a page of the remote server
    HasHeader,      \* the remote server sends X-TAXII-Date-Added-Last
    SameDates,      \* two objects of the feed may have one date_added
    MaxRetries,     \* config.max_retries, and REGISTRATION_ATTEMPTS
    Prompt,         \* calls whose transaction commits before the next call
    Fragile,        \* calls whose transaction may fail to commit, once answered
    MaxFeed,        \* bound: objects the remote feed ever holds
    MaxFaults       \* bound: timeouts, refusals, odd pages, failing commits,
                    \* crashes, re-targetings

ASSUME PageLenAssumption == PageLen \in Nat \ {0}
ASSUME MaxRetriesAssumption == MaxRetries \in Nat \ {0}
ASSUME BoundsAssumption == MaxFeed \in Nat /\ MaxFaults \in Nat

VARIABLES
    feed,       \* date_added of every object of the remote feed, in order
    row,        \* the committed collector row; its bucket is NoBucket at first
    stored,     \* how often object i is committed in a bucket
    open,       \* transactions of requests that have not committed yet
    faults,     \* faults so far, up to MaxFaults
    pc,         \* what the collector thread does next
    target,     \* config.target_bucket
    cursor,     \* self.cursor; 0 is None
    after,      \* added_after, fixed for the cycle
    token,      \* the page token: objects of this query already seen
    page,       \* the page in hand
    tries,      \* attempts of the current call that have failed
    waiting,    \* the thread is in a back-off
    stop        \* the stop event

platform == <<row, stored>>
thread   == <<target, cursor, after, token, page>>
vars     == <<feed, platform, open, faults, pc, thread, tries, waiting, stop>>

NoBucket == "none"
NoPage   == [objects |-> {}, last |-> 0, more |-> FALSE, next |-> FALSE]

-----------------------------------------------------------------------------
(* The remote server: objects in the order of their date_added.             *)

LastDate == IF feed = <<>> THEN 0 ELSE feed[Len(feed)]

\* The time of day, as far as it can be compared with a date_added.
UtcNow == LastDate

Publish ==
    /\ Len(feed) < MaxFeed
    /\ \E d \in {LastDate, LastDate + 1} \ {0} :
         /\ SameDates \/ d > LastDate
         /\ feed' = Append(feed, d)
    /\ UNCHANGED <<platform, open, faults, pc, thread, tries, waiting, stop>>

\* get_objects(added_after, next): the page at "token" of the query.
Before(d) == Cardinality({i \in 1..Len(feed) : feed[i] <= d})

PageAt(d, t) ==
    LET from == Before(d) + t + 1
        to   == IF from + PageLen - 1 < Len(feed) THEN from + PageLen - 1 ELSE Len(feed)
    IN  [objects |-> from..to,
         last    |-> IF HasHeader /\ from <= to THEN feed[to] ELSE 0,
         more    |-> to < Len(feed),
         next    |-> to < Len(feed)]

-----------------------------------------------------------------------------
(* The platform.  A handler reads the collector row as committed; what it   *)
(* writes waits in "open" for the commit.                                   *)

Nothing == [b \in Buckets |-> [i \in 1..MaxFeed |-> 0]]

Register(b) ==
    [op |-> "register", answered |-> TRUE, bucket |-> b, objects |-> {}, cursor |-> 0]
Submit(objs) ==
    [op |-> "submit", answered |-> TRUE, bucket |-> row.bucket,
     objects |-> objs \ Invalid, cursor |-> 0]
Put(c) ==
    [op |-> "put", answered |-> TRUE, bucket |-> row.bucket, objects |-> {}, cursor |-> c]

\* The request the thread is about to make.
Request ==
    CASE pc = "register" -> Register(target)
      [] pc = "submit"   -> Submit(page.objects)
      [] pc = "put"      -> Put(page.last)

\* _get_own_collector answers 404 while there is no committed row.
Known == pc = "register" \/ row.bucket # NoBucket

\* The transactions that update the collector row, and those that write at all.
WritesRow(t) == t.op = "put" \/ (t.op = "register" /\ t.bucket # row.bucket)
Writes(t)    == WritesRow(t) \/ t.objects # {}

Executed(t) == IF Writes(t) THEN Append(open, t) ELSE open

\* An update of the row waits for the answered transaction that holds its lock.
RowLocked == \E k \in 1..Len(open) : open[k].answered /\ WritesRow(open[k])

\* The thread's next call may overtake the commit of its last one.
Settled == \A k \in 1..Len(open) : ~(open[k].answered /\ open[k].op \in Prompt)

Calls == {"register", "fetch", "submit", "put"}

\* The thread makes a call.
Calling == pc \in Calls /\ ~waiting /\ (pc # "fetch" => Settled)

\* A call the platform answers.
Answered ==
    /\ Calling
    /\ Known
    /\ WritesRow(Request) => ~RowLocked
    /\ open' = Executed(Request)

\* Mistake: the cursor of the other bucket is kept.
RegisteredKeepingCursor(b) == [bucket |-> b, cursor |-> row.cursor]

\* A changed bucket starts from no cursor.
RegisteredRow(b) == [bucket |-> b, cursor |-> 0]

\* The session of open[k] commits.  Once a row of the unique name is there under
\* its bucket, a registration that comes late changes nothing.
Commit(k) ==
    LET t == open[k] IN
    /\ (~t.answered /\ WritesRow(t)) => ~RowLocked
    /\ open' = RemoveAt(open, k)
    /\ row' = CASE t.op = "register" /\ WritesRow(t) -> RegisteredRow(t.bucket)
                [] t.op = "put" -> [row EXCEPT !.cursor = t.cursor]
                [] OTHER -> row
    /\ stored' = [b \in Buckets |-> [i \in 1..MaxFeed |->
                    stored[b][i] + (IF b = t.bucket /\ i \in t.objects THEN 1 ELSE 0)]]
    /\ UNCHANGED <<feed, faults, pc, thread, tries, waiting, stop>>

\* A timed-out request the platform never executes.
Lose(k) ==
    /\ ~open[k].answered
    /\ open' = RemoveAt(open, k)
    /\ UNCHANGED <<feed, platform, faults, pc, thread, tries, waiting, stop>>

\* The commit of an answered request fails: get_session rolls back, and the
\* thread does not learn of it.
Abort(k) ==
    /\ open[k].answered /\ open[k].op \in Fragile \ Prompt
    /\ faults < MaxFaults
    /\ faults' = faults + 1
    /\ open' = RemoveAt(open, k)
    /\ UNCHANGED <<feed, platform, pc, thread, tries, waiting, stop>>

-----------------------------------------------------------------------------
(* with_retries, around every call of the thread.                           *)

\* Mistake: one attempt too many.
ExhaustedLate == tries = MaxRetries

\* "if attempt == max_retries"
Exhausted == tries + 1 = MaxRetries

\* What the failure of a call leads to: registration is fatal for the whole
\* process (on_fatal); in a poll the cycle ends and run_cycle logs it.
GiveUp ==
    /\ pc' = IF pc = "register" THEN "dead" ELSE "wait"
    /\ tries' = 0
    /\ UNCHANGED waiting

\* A transient error.  The platform may still execute the request.
Timeout ==
    /\ Calling
    /\ faults < MaxFaults
    /\ faults' = faults + 1
    /\ open' = IF pc # "fetch" /\ Known
               THEN Executed([Request EXCEPT !.answered = FALSE])
               ELSE open
    /\ \/ Exhausted /\ GiveUp
       \/ ~Exhausted /\ tries' = tries + 1 /\ waiting' = TRUE /\ UNCHANGED pc
    /\ UNCHANGED <<feed, platform, thread, stop>>

\* stop_event.wait(delay): the next attempt, or CollectorStopped.
BackOff ==
    /\ waiting
    /\ waiting' = FALSE
    /\ IF stop THEN pc' = "stopped" /\ tries' = 0 ELSE UNCHANGED <<pc, tries>>
    /\ UNCHANGED <<feed, platform, open, faults, thread, stop>>

\* A permanent error (4xx), raised at once: 404 as long as the row is unknown,
\* otherwise a fault of the environment.
Refused ==
    /\ Calling
    /\ (Known \/ pc = "fetch") => faults < MaxFaults
    /\ faults' = faults + (IF Known \/ pc = "fetch" THEN 1 ELSE 0)
    /\ GiveUp
    /\ UNCHANGED <<feed, platform, open, thread, stop>>

-----------------------------------------------------------------------------
(* The collector thread.                                                    *)

\* register(): the stored cursor, unless the collector now feeds another bucket.
RegisterOk ==
    /\ pc = "register" /\ Answered
    /\ cursor' = IF row.bucket = target THEN row.cursor ELSE 0
    /\ pc' = "wait" /\ tries' = 0
    /\ UNCHANGED <<feed, platform, faults, target, after, token, page, waiting, stop>>

\* Mistake: the page token of the last cycle is not reset.
StartStaleToken ==
    /\ pc = "wait" /\ ~stop
    /\ after' = cursor
    /\ pc' = "fetch"
    /\ UNCHANGED <<feed, platform, open, faults, target, cursor, token, page,
                   tries, waiting, stop>>

\* run(): the next cycle of poll_once, once poll_interval is over.
Start ==
    /\ pc = "wait" /\ ~stop
    /\ after' = cursor /\ token' = 0
    /\ pc' = "fetch"
    /\ UNCHANGED <<feed, platform, open, faults, target, cursor, page,
                   tries, waiting, stop>>

\* The end of the body of poll_once's loop, for the page p.
TurnPage(p) ==
    IF ~p.more \/ ~p.next
    THEN pc' = "wait" /\ UNCHANGED token
    ELSE IF stop
         THEN pc' = "stopped" /\ UNCHANGED token          \* CollectorStopped
         ELSE pc' = "fetch" /\ token' = token + PageLen

\* A page arrives; the server may leave out the next token.
FetchOk ==
    /\ pc = "fetch" /\ ~waiting
    /\ \E p \in {PageAt(after, token), [PageAt(after, token) EXCEPT !.next = FALSE]} :
         /\ page' = p
         /\ p # PageAt(after, token) => faults < MaxFaults
         /\ faults' = faults + (IF p = PageAt(after, token) THEN 0 ELSE 1)
         /\ IF p.objects # {} THEN pc' = "submit" /\ UNCHANGED token ELSE TurnPage(p)
    /\ tries' = 0
    /\ UNCHANGED <<feed, platform, open, target, cursor, after, waiting, stop>>

\* The batch is answered.  With no object accepted the cursor stays.
SubmitOk ==
    /\ pc = "submit" /\ Answered
    /\ tries' = 0
    /\ IF page.objects \ Invalid # {}
       THEN /\ page' = [page EXCEPT !.last = IF page.last # 0 THEN page.last ELSE UtcNow]
            /\ pc' = "put"
            /\ UNCHANGED token
       ELSE TurnPage(page) /\ UNCHANGED page
    /\ UNCHANGED <<feed, platform, faults, target, cursor, after, waiting, stop>>

PutOk ==
    /\ pc = "put" /\ Answered
    /\ cursor' = page.last
    /\ tries' = 0
    /\ TurnPage(page)
    /\ UNCHANGED <<feed, platform, faults, target, after, page, waiting, stop>>

\* run(): the stop event ends the wait for the next cycle.
Stopped ==
    /\ pc = "wait" /\ stop
    /\ pc' = "stopped"
    /\ UNCHANGED <<feed, platform, open, faults, thread, tries, waiting, stop>>

Ended == {"stopped", "dead", "down"}

\* CollectorRunner.stop
Stop ==
    /\ pc \notin Ended /\ ~stop
    /\ stop' = TRUE
    /\ UNCHANGED <<feed, platform, open, faults, pc, thread, tries, waiting>>

\* The server dies, with the thread and every transaction that has not
\* committed, answered or not.
Crash ==
    /\ pc # "down"
    /\ faults < MaxFaults
    /\ faults' = faults + 1
    /\ open' = <<>>
    /\ pc' = "down" /\ tries' = 0 /\ waiting' = FALSE
    /\ UNCHANGED <<feed, platform, thread, stop>>

\* The application is started again: a new TaxiiCollector.  The operator gives
\* the collector another bucket only in between, with no request left over.
Restart ==
    /\ pc \in Ended
    /\ pc' = "register" /\ stop' = FALSE
    /\ \/ UNCHANGED <<target, faults>>
       \/ /\ open = <<>> /\ faults < MaxFaults
          /\ target' \in Buckets \ {target}
          /\ faults' = faults + 1
    /\ cursor' = 0 /\ after' = 0 /\ token' = 0 /\ page' = NoPage
    /\ UNCHANGED <<feed, platform, open, tries, waiting>>

-----------------------------------------------------------------------------
Init ==
    /\ feed = <<>>
    /\ row = [bucket |-> NoBucket, cursor |-> 0]
    /\ stored = Nothing
    /\ open = <<>>
    /\ faults = 0
    /\ pc = "register"
    /\ target \in Buckets
    /\ cursor = 0 /\ after = 0 /\ token = 0 /\ page = NoPage
    /\ tries = 0 /\ waiting = FALSE /\ stop = FALSE

Step == RegisterOk \/ Start \/ FetchOk \/ SubmitOk \/ PutOk \/ Stopped \/ BackOff

Next ==
    \/ Step
    \/ Timeout \/ Refused
    \/ Stop \/ Crash \/ Restart
    \/ Publish
    \/ \E k \in 1..Len(open) : Commit(k) \/ Lose(k) \/ Abort(k)

Spec == Init /\ [][Next]_vars

\* The thread runs, and the platform finishes a request it has answered.
FairSpec ==
    /\ Spec
    /\ WF_vars(Step \/ Refused)
    /\ WF_vars(\E k \in 1..Len(open) : open[k].answered /\ Commit(k))

-----------------------------------------------------------------------------
Dates == 0..MaxFeed

Transaction ==
    [op : {"register", "submit", "put"}, answered : BOOLEAN,
     bucket : Buckets \cup {NoBucket}, objects : SUBSET (1..MaxFeed), cursor : Dates]

\* Type invariant.  No call of the thread has failed max_retries times: the
\* retry loop of with_retries ends at its limit.
TypeOK ==
    /\ feed \in Seq(1..MaxFeed) /\ Len(feed) <= MaxFeed
    /\ row \in [bucket : Buckets \cup {NoBucket}, cursor : Dates]
    /\ stored \in [Buckets -> [1..MaxFeed -> Nat]]
    /\ open \in Seq(Transaction)
    /\ faults \in 0..MaxFaults
    /\ pc \in Calls \cup Ended \cup {"wait"}
    /\ target \in Buckets
    /\ cursor \in Dates /\ after \in Dates /\ token \in 0..MaxFeed
    /\ page \in [objects : SUBSET (1..MaxFeed), last : Dates,
                 more : BOOLEAN, next : BOOLEAN]
    /\ tries \in 0..(MaxRetries - 1)
    /\ waiting \in BOOLEAN /\ stop \in BOOLEAN

Valid == 1..MaxFeed \ Invalid

Stored(i, b) == stored[b][i] > 0

\* Object i is in bucket b, or in a batch the platform has answered for.
Accepted(i, b) ==
    \/ Stored(i, b)
    \/ \E k \in 1..Len(open) :
         open[k].answered /\ open[k].bucket = b /\ i \in open[k].objects

\* "The cursor only reflects batches the platform accepted": whatever the
\* committed cursor of the collector lies behind or at has been accepted for
\* the bucket the row names, and has not been lost since, so no object of the
\* feed is ever skipped: through retries, late requests, cursor updates that
\* fail to commit, crashes of the server, restarts and a change of bucket.  This
\* needs the date header, distinct dates, and that submissions and re-targeting
\* registrations commit before the thread's next call.
NoSkip ==
    \A i \in Valid : (i <= Len(feed) /\ feed[i] <= row.cursor) => Accepted(i, row.bucket)

\* As long as the collector runs, every object the remote feed publishes and
\* the platform can process arrives in the target bucket, whichever calls fail
\* and whatever becomes of a cursor update.  This needs that a batch commits
\* before the thread's next call and that the commit of a registration, which
\* may come later, does not fail: no call of the thread repeats it.
EventuallyStored ==
    \A i \in Valid :
        i <= Len(feed) ~> (stop \/ pc \in Ended \/ stored[target][i] > 0)
=============================================================================

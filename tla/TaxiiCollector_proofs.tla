------------------------ MODULE TaxiiCollector_proofs ------------------------
(***************************************************************************)
(* The collector, for every feed, page length, number of retries and set   *)
(* of buckets.  A cursor is the date of an object: whatever holds one (the *)
(* committed row, the thread, a request under way) holds it for a bucket   *)
(* that has stored every valid object up to there.  That a batch has been  *)
(* answered is not enough: it may be lost before it commits.               *)
(***************************************************************************)
EXTENDS TaxiiCollector, SequenceTheorems, FiniteSetTheorems, TLAPS

\* Dates do not run ahead of the feed, and a page never leads past its bound.
BoundInv ==
    /\ \A i \in 1..Len(feed) : feed[i] <= i
    /\ pc \in {"submit", "put"} /\ page.next => token + PageLen <= MaxFeed

TypeInv == TypeOK /\ BoundInv

\* No two objects have one date.
Increasing == \A i, j \in 1..Len(feed) : i < j => feed[i] < feed[j]

\* c is the date of object n, or no cursor.
DateOf(c, n) == IF n = 0 THEN c = 0 ELSE c = feed[n]

StoredUpTo(n, b) ==
    /\ n > 0 => b \in Buckets
    /\ \A i \in Valid : i <= n => Stored(i, b)

\* Cursor c may be handed out for bucket b.
Safe(c, b) == \E n \in 0..Len(feed) : DateOf(c, n) /\ StoredUpTo(n, b)

CursorInv == Safe(row.cursor, row.bucket) /\ Safe(cursor, target) /\ Safe(after, target)

\* Re-targeting waits for the requests under way; a cursor update is only ever
\* sent once the row names the target.
SafeRequest(t) ==
    /\ t.bucket \in Buckets
    /\ t.op = "register" => t.bucket = target
    /\ t.op # "submit" => t.objects = {}
    /\ t.op = "put" => row.bucket = target /\ Safe(t.cursor, target)

OpenInv == \A k \in 1..Len(open) : SafeRequest(open[k])

Registering == \E k \in 1..Len(open) : open[k].answered /\ open[k].op = "register"

\* A registration may fail to commit when it is the first, or changes nothing.
RegisteredInv ==
    /\ pc \in {"wait", "fetch", "submit", "put"} =>
         row.bucket \in {target, NoBucket} \/ Registering
    /\ pc = "put" => row.bucket = target

\* The query has gone as far as its pages are stored, and no further.
From == Before(after) + token + 1

QueryInv ==
    /\ pc \in {"fetch", "submit", "put"} => StoredUpTo(From - 1, target)
    /\ pc \in {"submit", "put"} =>
         \E to \in 1..Len(feed) :
           /\ page.objects = From..to /\ From <= to /\ page.last = feed[to]
           /\ page.next => to = From + PageLen - 1

\* The page in hand has been answered for, if not stored.
BatchInv == pc = "put" => \A i \in Valid \cap page.objects : Accepted(i, target)

IInv ==
    /\ TypeInv /\ Increasing
    /\ CursorInv /\ OpenInv /\ RegisteredInv /\ QueryInv /\ BatchInv

\* The registration commits before the next call, or there is nothing to change.
TargetSettled == "register" \in Prompt \/ \A b, c \in Buckets : b = c

-----------------------------------------------------------------------------
(* Sequences and pages.                                                      *)

\* What is left when element k is taken out.
LEMMA RemoveAtElements ==
    ASSUME NEW S, NEW s \in Seq(S), NEW k \in 1..Len(s)
    PROVE  /\ RemoveAt(s, k) \in Seq(S)
           /\ \A j \in 1..Len(RemoveAt(s, k)) :
                \E m \in 1..Len(s) : m # k /\ RemoveAt(s, k)[j] = s[m]
           /\ \A m \in 1..Len(s) : m # k =>
                \E j \in 1..Len(RemoveAt(s, k)) : RemoveAt(s, k)[j] = s[m]
  <1> DEFINE p == SubSeq(s, 1, k - 1)
             q == SubSeq(s, k + 1, Len(s))
             r == p \o q
  <1>1. Len(s) \in Nat /\ k \in Nat /\ k >= 1 /\ k <= Len(s)
    OBVIOUS
  <1>2. \A i \in 1..(k - 1) : s[i] \in S
    BY <1>1
  <1>3. \A i \in (k + 1)..Len(s) : s[i] \in S
    BY <1>1
  <1>4. p \in Seq(S) /\ Len(p) = k - 1 /\ \A i \in 1..(k - 1) : p[i] = s[i]
    <2>1. k - 1 \in Int /\ 1 \in Int
      BY <1>1
    <2>2. p \in Seq(S)
          /\ Len(p) = (IF 1 <= k - 1 THEN k - 1 - 1 + 1 ELSE 0)
          /\ \A i \in 1..(k - 1 - 1 + 1) : p[i] = s[1 + i - 1]
      BY <1>2, <2>1, SubSeqProperties
    <2> QED BY <1>1, <2>2
  <1>5. q \in Seq(S) /\ Len(q) = Len(s) - k /\ \A i \in 1..(Len(s) - k) : q[i] = s[k + i]
    <2>1. k + 1 \in Int /\ Len(s) \in Int
      BY <1>1
    <2>2. q \in Seq(S)
          /\ Len(q) = (IF k + 1 <= Len(s) THEN Len(s) - (k + 1) + 1 ELSE 0)
          /\ \A i \in 1..(Len(s) - (k + 1) + 1) : q[i] = s[(k + 1) + i - 1]
      BY <1>3, <2>1, SubSeqProperties
    <2> QED BY <1>1, <2>2
  <1> HIDE DEF p, q
  <1>6. r \in Seq(S) /\ Len(r) = Len(s) - 1
        /\ \A i \in 1..(Len(s) - 1) : r[i] = IF i <= k - 1 THEN s[i] ELSE s[i + 1]
    <2>1. r \in Seq(S) /\ Len(r) = Len(p) + Len(q)
          /\ \A i \in 1..(Len(p) + Len(q)) :
               r[i] = IF i <= Len(p) THEN p[i] ELSE q[i - Len(p)]
      BY <1>4, <1>5, ConcatProperties
    <2> QED BY <1>1, <1>4, <1>5, <2>1
  <1>7. r = RemoveAt(s, k)
    BY DEF RemoveAt, p, q
  <1> HIDE DEF r
  <1>8. ASSUME NEW j \in 1..Len(r) PROVE \E m \in 1..Len(s) : m # k /\ r[j] = s[m]
    <2>1. CASE j <= k - 1
      BY <1>1, <1>6, <2>1
    <2>2. CASE ~(j <= k - 1)
      <3>1. j + 1 \in 1..Len(s) /\ j + 1 # k /\ r[j] = s[j + 1]
        BY <1>1, <1>6, <2>2
      <3> QED BY <3>1
    <2> QED BY <2>1, <2>2
  <1>9. ASSUME NEW m \in 1..Len(s), m # k PROVE \E j \in 1..Len(r) : r[j] = s[m]
    <2>1. CASE m < k
      <3>1. m \in 1..Len(r) /\ r[m] = s[m]
        BY <1>1, <1>6, <2>1
      <3> QED BY <3>1
    <2>2. CASE ~(m < k)
      <3>1. m - 1 \in 1..Len(r) /\ r[m - 1] = s[m]
        BY <1>1, <1>6, <1>9, <2>2
      <3> QED BY <3>1
    <2> QED BY <2>1, <2>2
  <1> QED BY <1>6, <1>7, <1>8, <1>9

LEMMA BeforeType ==
    ASSUME feed \in Seq(1..MaxFeed), NEW d
    PROVE  Before(d) \in Nat /\ Before(d) <= Len(feed)
  <1> DEFINE I == {i \in 1..Len(feed) : feed[i] <= d}
  <1>1. Len(feed) \in Nat /\ I \subseteq 1..Len(feed)
    BY LenProperties
  <1>2. IsFiniteSet(1..Len(feed)) /\ Cardinality(1..Len(feed)) = Len(feed)
    <2>1. \A n \in Nat : IsFiniteSet(1..n) /\ Cardinality(1..n) = IF 1 > n THEN 0 ELSE n - 1 + 1
      BY FS_Interval
    <2> QED BY <1>1, <2>1
  <1>3. IsFiniteSet(I) /\ Cardinality(I) <= Len(feed)
    BY <1>1, <1>2, FS_Subset
  <1> QED BY <1>3, FS_CardinalityType DEF Before

Pages ==
    [objects : SUBSET (1..MaxFeed), last : Dates, more : BOOLEAN, next : BOOLEAN]

\* A page the remote server answers: it ends at object "to", and there is a next
\* one only if it is full.
LEMMA PageShape ==
    ASSUME TypeOK, NEW d, NEW t \in Nat
    PROVE  LET p    == PageAt(d, t)
               from == Before(d) + t + 1
           IN  /\ p \in Pages
               /\ \E to \in 0..Len(feed) :
                    /\ p.objects = from..to
                    /\ p.next => to = from + PageLen - 1 /\ to < Len(feed)
                    /\ from <= to => p.last = IF HasHeader THEN feed[to] ELSE 0
               /\ p.next => p.objects # {} /\ t + PageLen <= MaxFeed
  <1> DEFINE from == Before(d) + t + 1
             full == from + PageLen - 1
             to   == IF full < Len(feed) THEN full ELSE Len(feed)
             p    == PageAt(d, t)
  <1>1. feed \in Seq(1..MaxFeed) /\ Len(feed) \in Nat /\ Len(feed) <= MaxFeed /\ MaxFeed \in Nat
        /\ PageLen \in Nat /\ PageLen >= 1
    BY PageLenAssumption, BoundsAssumption DEF TypeOK
  <1>2. Before(d) \in Nat
    BY <1>1, BeforeType
  <1>3. from \in Nat /\ from >= 1 /\ full \in Nat /\ full >= from /\ full >= t + PageLen
    BY <1>1, <1>2
  <1>4. p = [objects |-> from..to, last |-> IF HasHeader /\ from <= to THEN feed[to] ELSE 0,
             more |-> to < Len(feed), next |-> to < Len(feed)]
    BY DEF PageAt
  <1> HIDE DEF p, from, full
  <1>5. to \in 0..Len(feed) /\ (to < Len(feed) => to = full)
    BY <1>1, <1>3
  <1> HIDE DEF to
  <1>6. from <= to => feed[to] \in Dates
    BY <1>1, <1>3, <1>5 DEF Dates
  <1>7. from..to \subseteq 1..MaxFeed
    BY <1>1, <1>3, <1>5
  <1>8. 0 \in Dates
    BY <1>1 DEF Dates
  <1>9. p \in Pages
    BY <1>4, <1>6, <1>7, <1>8 DEF Pages
  <1>10. p.objects = from..to /\ (p.next <=> to < Len(feed))
         /\ (from <= to => p.last = IF HasHeader THEN feed[to] ELSE 0)
    BY <1>4
  <1>11. p.next => from \in p.objects /\ t + PageLen <= MaxFeed
    BY <1>1, <1>3, <1>5, <1>10
  <1>12. p.next => to = from + PageLen - 1 /\ to < Len(feed)
    BY <1>5, <1>10 DEF full
  <1> QED BY <1>5, <1>9, <1>10, <1>11, <1>12 DEF p, from

-----------------------------------------------------------------------------
(* Types.                                                                    *)

\* The last date is that of an object of the feed.
LEMMA LastDateType ==
    ASSUME TypeInv
    PROVE  /\ Len(feed) \in Nat /\ LastDate \in Nat /\ LastDate <= Len(feed)
           /\ LastDate \in Dates
           /\ feed # <<>> => Len(feed) \in 1..Len(feed) /\ LastDate = feed[Len(feed)]
  <1>1. feed \in Seq(1..MaxFeed) /\ Len(feed) \in Nat /\ Len(feed) <= MaxFeed /\ MaxFeed \in Nat
    BY BoundsAssumption DEF TypeInv, TypeOK
  <1>2. CASE feed = <<>>
    BY <1>1, <1>2 DEF LastDate, Dates
  <1>3. CASE feed # <<>>
    <2>1. Len(feed) \in 1..Len(feed)
      BY <1>1, <1>3, EmptySeq
    <2>2. feed[Len(feed)] \in 1..MaxFeed
      BY <1>1, <2>1
    <2>3. feed[Len(feed)] <= Len(feed)
      BY <2>1 DEF TypeInv, BoundInv
    <2> QED BY <1>1, <1>3, <2>1, <2>2, <2>3 DEF LastDate, Dates
  <1> QED BY <1>2, <1>3

\* A new object: the feed as it was, and a date at most one later.
LEMMA Published ==
    ASSUME TypeInv, Publish
    PROVE  /\ feed' \in Seq(1..MaxFeed) /\ Len(feed') = Len(feed) + 1 /\ Len(feed') <= MaxFeed
           /\ \A i \in 1..Len(feed) : feed'[i] = feed[i]
           /\ feed'[Len(feed')] <= Len(feed')
           /\ ~SameDates => feed'[Len(feed')] > LastDate
  <1>1. Len(feed) \in Nat /\ LastDate \in Nat /\ LastDate <= Len(feed)
    BY LastDateType
  <1>2. Len(feed) < MaxFeed /\ MaxFeed \in Nat /\ feed \in Seq(1..MaxFeed)
    BY BoundsAssumption DEF Publish, TypeInv, TypeOK
  <1>3. PICK d \in {LastDate, LastDate + 1} \ {0} :
          (SameDates \/ d > LastDate) /\ feed' = Append(feed, d)
    BY DEF Publish
  <1>4. d \in 1..MaxFeed /\ d <= Len(feed) + 1
    BY <1>1, <1>2
  <1>5. feed' \in Seq(1..MaxFeed) /\ Len(feed') = Len(feed) + 1
        /\ feed'[Len(feed) + 1] = d /\ \A i \in 1..Len(feed) : feed'[i] = feed[i]
    BY <1>2, <1>3, <1>4
  <1> QED BY <1>1, <1>2, <1>3, <1>4, <1>5

LEMMA PublishType ==
    ASSUME TypeInv, Publish PROVE TypeInv'
  <1>1. Len(feed) \in Nat
    BY LastDateType
  <1>2. \A i \in 1..Len(feed') : feed'[i] <= i
    BY <1>1, Published DEF TypeInv, BoundInv
  <1>3. TypeOK'
    BY Published DEF TypeInv, TypeOK, Publish, platform, thread, Pages
  <1>4. BoundInv'
    BY <1>2 DEF TypeInv, BoundInv, Publish, thread
  <1> QED BY <1>3, <1>4 DEF TypeInv

\* A request the platform knows the collector of.
LEMMA RequestType ==
    ASSUME TypeInv, pc \in {"register", "submit", "put"}, Known
    PROVE  /\ Request \in Transaction /\ Request.bucket \in Buckets /\ Request.answered
           /\ Request.op = pc
           /\ [Request EXCEPT !.answered = FALSE] \in Transaction
  <1>1. /\ row.bucket \in Buckets \cup {NoBucket} /\ target \in Buckets
        /\ page.objects \subseteq 1..MaxFeed /\ page.last \in Dates /\ 0 \in Dates
    BY BoundsAssumption DEF TypeInv, TypeOK, Dates
  <1>2. CASE pc = "register"
    <2>1. Request = Register(target)
      BY <1>2 DEF Request
    <2> QED BY <1>1, <1>2, <2>1 DEF Register, Transaction
  <1>3. CASE pc = "submit"
    <2>1. Request = Submit(page.objects) /\ row.bucket \in Buckets
      BY <1>1, <1>3 DEF Request, Known
    <2> QED BY <1>1, <1>3, <2>1 DEF Submit, Transaction
  <1>4. CASE pc = "put"
    <2>1. Request = Put(page.last) /\ row.bucket \in Buckets
      BY <1>1, <1>4 DEF Request, Known
    <2> QED BY <1>1, <1>4, <2>1 DEF Put, Transaction
  <1> QED BY <1>2, <1>3, <1>4

\* What a request leaves behind.
LEMMA ExecutedElements ==
    ASSUME TypeInv, NEW t \in Transaction
    PROVE  /\ Executed(t) \in Seq(Transaction)
           /\ Len(open) \in Nat /\ Len(Executed(t)) >= Len(open) /\ Len(Executed(t)) \in Nat
           /\ \A k \in 1..Len(open) : Executed(t)[k] = open[k]
           /\ \A k \in 1..Len(Executed(t)) : k \in 1..Len(open) \/ Executed(t)[k] = t
           /\ Writes(t) => \E k \in 1..Len(Executed(t)) : Executed(t)[k] = t
  <1>1. open \in Seq(Transaction) /\ Len(open) \in Nat
    BY DEF TypeInv, TypeOK
  <1>2. CASE ~Writes(t)
    BY <1>1, <1>2 DEF Executed
  <1>3. CASE Writes(t)
    <2>1. Executed(t) = Append(open, t)
      BY <1>3 DEF Executed
    <2>2. Executed(t) \in Seq(Transaction) /\ Len(Executed(t)) = Len(open) + 1
          /\ Executed(t)[Len(open) + 1] = t
          /\ \A k \in 1..Len(open) : Executed(t)[k] = open[k]
      BY <1>1, <2>1
    <2>3. Len(open) + 1 \in 1..Len(Executed(t))
      BY <1>1, <2>2
    <2> QED BY <1>1, <2>2, <2>3
  <1> QED BY <1>2, <1>3

\* The end of a page leads on only within the feed.
LEMMA TurnPageType ==
    ASSUME TypeInv, NEW p \in Pages, TurnPage(p), p.next => token + PageLen <= MaxFeed
    PROVE  token' \in 0..MaxFeed /\ pc' \in {"wait", "stopped", "fetch"}
  BY PageLenAssumption, BoundsAssumption DEF TypeInv, TypeOK, TurnPage, Pages

LEMMA CommitType ==
    ASSUME TypeInv, NEW k \in 1..Len(open), Commit(k) PROVE TypeInv'
  <1> DEFINE t == open[k]
  <1>1. open \in Seq(Transaction) /\ t \in Transaction
    BY DEF TypeInv, TypeOK
  <1>2. open' \in Seq(Transaction)
    BY <1>1, RemoveAtElements DEF Commit
  <1>3. row' \in [bucket : Buckets \cup {NoBucket}, cursor : Dates]
    <2>1. t.bucket \in Buckets \cup {NoBucket} /\ t.cursor \in Dates
      BY <1>1 DEF Transaction
    <2>2. 0 \in Dates /\ row \in [bucket : Buckets \cup {NoBucket}, cursor : Dates]
      BY BoundsAssumption DEF Dates, TypeInv, TypeOK
    <2> HIDE DEF t
    <2>3. row' = CASE t.op = "register" /\ WritesRow(t) -> RegisteredRow(t.bucket)
                   [] t.op = "put" -> [row EXCEPT !.cursor = t.cursor]
                   [] OTHER -> row
      BY DEF Commit, t
    <2>4. t.op = "put" => t.op # "register"
      OBVIOUS
    <2> QED BY <2>1, <2>2, <2>3, <2>4 DEF RegisteredRow
  <1>4. stored' \in [Buckets -> [1..MaxFeed -> Nat]]
    <2>1. stored \in [Buckets -> [1..MaxFeed -> Nat]]
      BY DEF TypeInv, TypeOK
    <2> HIDE DEF t
    <2>2. ASSUME NEW b \in Buckets, NEW i \in 1..MaxFeed
          PROVE  stored[b][i] + (IF b = t.bucket /\ i \in t.objects THEN 1 ELSE 0) \in Nat
      <3>1. \A n \in Nat : n + 1 \in Nat /\ n + 0 \in Nat
        OBVIOUS
      <3>2. stored[b][i] \in Nat
        BY <2>1
      <3>3. CASE b = t.bucket /\ i \in t.objects
        BY <3>1, <3>2, <3>3
      <3>4. CASE ~(b = t.bucket /\ i \in t.objects)
        BY <3>1, <3>2, <3>4
      <3> QED BY <3>3, <3>4
    <2>3. stored' = [b \in Buckets |-> [i \in 1..MaxFeed |->
              stored[b][i] + (IF b = t.bucket /\ i \in t.objects THEN 1 ELSE 0)]]
      BY DEF Commit, t
    <2> QED BY <2>2, <2>3
  <1>5. UNCHANGED <<feed, faults, pc, thread, tries, waiting, stop>>
    BY DEF Commit
  <1> QED BY <1>2, <1>3, <1>4, <1>5 DEF TypeInv, TypeOK, BoundInv, thread

LEMMA LoseType ==
    ASSUME TypeInv, NEW k \in 1..Len(open), Lose(k) PROVE TypeInv'
  <1>1. open' \in Seq(Transaction)
    BY RemoveAtElements DEF Lose, TypeInv, TypeOK
  <1> QED BY <1>1 DEF Lose, TypeInv, TypeOK, BoundInv, thread, platform

LEMMA AbortType ==
    ASSUME TypeInv, NEW k \in 1..Len(open), Abort(k) PROVE TypeInv'
  <1>1. open' \in Seq(Transaction)
    BY RemoveAtElements DEF Abort, TypeInv, TypeOK
  <1>2. faults' \in 0..MaxFaults
    BY BoundsAssumption DEF Abort, TypeInv, TypeOK
  <1>3. UNCHANGED <<feed, platform, pc, thread, tries, waiting, stop>>
    BY DEF Abort
  <1> QED BY <1>1, <1>2, <1>3 DEF TypeInv, TypeOK, BoundInv, thread, platform

\* An attempt fails: give up at the limit, otherwise count it.
LEMMA RetryType ==
    ASSUME TypeInv, pc \in Calls,
           GiveUp \/ (~Exhausted /\ tries' = tries + 1 /\ waiting' = TRUE /\ UNCHANGED pc)
    PROVE  /\ tries' \in 0..(MaxRetries - 1) /\ waiting' \in BOOLEAN
           /\ pc' \in Calls \cup Ended \cup {"wait"}
           /\ pc' \in {"submit", "put"} => pc' = pc
  <1>1. tries \in 0..(MaxRetries - 1) /\ waiting \in BOOLEAN /\ MaxRetries \in Nat \ {0}
    BY MaxRetriesAssumption DEF TypeInv, TypeOK
  <1>2. CASE GiveUp
    BY <1>1, <1>2 DEF GiveUp, Calls, Ended
  <1>3. CASE ~Exhausted /\ tries' = tries + 1 /\ waiting' = TRUE /\ UNCHANGED pc
    BY <1>1, <1>3 DEF Exhausted
  <1> QED BY <1>2, <1>3

LEMMA TimeoutType ==
    ASSUME TypeInv, Timeout PROVE TypeInv'
  <1>1. /\ tries' \in 0..(MaxRetries - 1) /\ waiting' \in BOOLEAN
        /\ pc' \in Calls \cup Ended \cup {"wait"}
        /\ pc' \in {"submit", "put"} => pc' = pc
    BY RetryType DEF Timeout, Calling
  <1>2. open' \in Seq(Transaction)
    <2>1. CASE pc # "fetch" /\ Known
      <3>1. pc \in {"register", "submit", "put"}
        BY <2>1 DEF Timeout, Calling, Calls
      <3>2. [Request EXCEPT !.answered = FALSE] \in Transaction
        BY <2>1, <3>1, RequestType
      <3> QED BY <2>1, <3>2, ExecutedElements DEF Timeout
    <2>2. CASE ~(pc # "fetch" /\ Known)
      BY <2>2 DEF Timeout, TypeInv, TypeOK
    <2> QED BY <2>1, <2>2
  <1>3. faults' \in 0..MaxFaults
    BY BoundsAssumption DEF Timeout, TypeInv, TypeOK
  <1>4. UNCHANGED <<feed, platform, thread, stop>>
    BY DEF Timeout
  <1> QED BY <1>1, <1>2, <1>3, <1>4 DEF TypeInv, TypeOK, BoundInv, thread, platform

LEMMA RefusedType ==
    ASSUME TypeInv, Refused PROVE TypeInv'
  <1>1. /\ tries' \in 0..(MaxRetries - 1) /\ waiting' \in BOOLEAN
        /\ pc' \in Calls \cup Ended \cup {"wait"}
        /\ pc' \in {"submit", "put"} => pc' = pc
    BY RetryType DEF Refused, Calling
  <1>2. faults' \in 0..MaxFaults
    BY BoundsAssumption DEF Refused, TypeInv, TypeOK
  <1>3. UNCHANGED <<feed, platform, open, thread, stop>>
    BY DEF Refused
  <1> QED BY <1>1, <1>2, <1>3 DEF TypeInv, TypeOK, BoundInv, thread, platform

LEMMA BackOffType ==
    ASSUME TypeInv, BackOff PROVE TypeInv'
  <1>1. tries' \in 0..(MaxRetries - 1) /\ (pc' = pc \/ pc' = "stopped")
    BY MaxRetriesAssumption DEF BackOff, TypeInv, TypeOK
  <1> QED BY <1>1 DEF BackOff, TypeInv, TypeOK, BoundInv, thread, platform, Ended

\* An answered request.
LEMMA AnsweredType ==
    ASSUME TypeInv, pc \in {"register", "submit", "put"}, Answered
    PROVE  open' \in Seq(Transaction)
  BY RequestType, ExecutedElements DEF Answered

\* The end of a call that went well.
LEMMA NoTries == ASSUME TypeInv, tries' = 0 PROVE tries' \in 0..(MaxRetries - 1)
  BY MaxRetriesAssumption

LEMMA RegisterOkType ==
    ASSUME TypeInv, RegisterOk PROVE TypeInv'
  <1>1. cursor' \in Dates
    BY BoundsAssumption DEF RegisterOk, TypeInv, TypeOK, Dates
  <1>2. open' \in Seq(Transaction) /\ tries' \in 0..(MaxRetries - 1)
    BY AnsweredType, NoTries DEF RegisterOk
  <1>3. pc' = "wait"
    BY DEF RegisterOk
  <1>4. UNCHANGED <<feed, platform, faults, target, after, token, page, waiting, stop>>
    BY DEF RegisterOk
  <1> QED BY <1>1, <1>2, <1>3, <1>4 DEF TypeInv, TypeOK, BoundInv, platform

LEMMA StartType ==
    ASSUME TypeInv, Start PROVE TypeInv'
  BY BoundsAssumption DEF Start, TypeInv, TypeOK, BoundInv, platform, Calls

\* The page in hand.
Fetched(p) ==
    /\ p = PageAt(after, token) \/ p = [PageAt(after, token) EXCEPT !.next = FALSE]
    /\ page' = p
    /\ IF p.objects # {} THEN pc' = "submit" /\ UNCHANGED token ELSE TurnPage(p)

LEMMA FetchedPage ==
    ASSUME TypeInv, NEW p, Fetched(p)
    PROVE  /\ p \in Pages
           /\ p.objects = PageAt(after, token).objects /\ p.last = PageAt(after, token).last
           /\ p.next => PageAt(after, token).next
           /\ p.next => p.objects # {} /\ token + PageLen <= MaxFeed
  <1>1. token \in Nat
    BY DEF TypeInv, TypeOK
  <1>2. /\ PageAt(after, token) \in Pages
        /\ PageAt(after, token).next =>
             PageAt(after, token).objects # {} /\ token + PageLen <= MaxFeed
    BY <1>1, PageShape DEF TypeInv
  <1>3. CASE p = PageAt(after, token)
    BY <1>2, <1>3
  <1>4. CASE p = [PageAt(after, token) EXCEPT !.next = FALSE]
    BY <1>2, <1>4 DEF Pages
  <1> QED BY <1>3, <1>4 DEF Fetched

LEMMA FetchOkType ==
    ASSUME TypeInv, FetchOk PROVE TypeInv'
  <1>1. PICK p : Fetched(p) /\ (p # PageAt(after, token) => faults < MaxFaults)
                 /\ faults' = faults + (IF p = PageAt(after, token) THEN 0 ELSE 1)
    BY DEF FetchOk, Fetched
  <1>2. p \in Pages /\ page' = p /\ (p.next => p.objects # {} /\ token + PageLen <= MaxFeed)
    BY <1>1, FetchedPage DEF Fetched
  <1>3. token' \in 0..MaxFeed /\ pc' \in {"wait", "stopped", "fetch", "submit"}
        /\ (pc' = "submit" => token' = token)
    <2>1. CASE p.objects # {}
      BY <1>1, <2>1 DEF Fetched, TypeInv, TypeOK
    <2>2. CASE p.objects = {}
      BY <1>1, <1>2, <2>2, TurnPageType DEF Fetched
    <2> QED BY <2>1, <2>2
  <1>4. faults' \in 0..MaxFaults
    BY <1>1, BoundsAssumption DEF TypeInv, TypeOK
  <1>5. tries' \in 0..(MaxRetries - 1)
    BY NoTries DEF FetchOk
  <1>6. UNCHANGED <<feed, platform, open, target, cursor, after, waiting, stop>>
    BY DEF FetchOk
  <1> QED BY <1>2, <1>3, <1>4, <1>5, <1>6 DEF TypeInv, TypeOK, BoundInv, platform, Pages,
                                              Calls, Ended

\* The page in hand leads on only within the feed.
LEMMA PageInHand ==
    ASSUME TypeInv, pc \in {"submit", "put"}
    PROVE  page \in Pages /\ (page.next => token + PageLen <= MaxFeed)
  BY DEF TypeInv, TypeOK, BoundInv, Pages

LEMMA SubmitOkType ==
    ASSUME TypeInv, SubmitOk PROVE TypeInv'
  <1>1. pc = "submit" /\ open' \in Seq(Transaction) /\ tries' \in 0..(MaxRetries - 1)
    BY AnsweredType, NoTries DEF SubmitOk
  <1>2. UNCHANGED <<feed, platform, faults, target, cursor, after, waiting, stop>>
    BY DEF SubmitOk
  <1>3. page \in Pages /\ (page.next => token + PageLen <= MaxFeed)
    BY <1>1, PageInHand
  <1>4. CASE page.objects \ Invalid # {}
    <2>1. page' = [page EXCEPT !.last = IF page.last # 0 THEN page.last ELSE UtcNow]
          /\ pc' = "put" /\ token' = token
      BY <1>4 DEF SubmitOk
    <2>2. UtcNow \in Dates
      BY LastDateType DEF UtcNow
    <2>3. page' \in Pages /\ page'.next = page.next
      BY <1>3, <2>1, <2>2 DEF Pages
    <2> QED BY <1>1, <1>2, <1>3, <2>1, <2>3 DEF TypeInv, TypeOK, BoundInv, platform, Pages, Calls
  <1>5. CASE ~(page.objects \ Invalid # {})
    <2>1. TurnPage(page) /\ page' = page
      BY <1>5 DEF SubmitOk
    <2>2. token' \in 0..MaxFeed /\ pc' \in {"wait", "stopped", "fetch"}
      BY <1>3, <2>1, TurnPageType
    <2> QED BY <1>1, <1>2, <2>1, <2>2 DEF TypeInv, TypeOK, BoundInv, platform, Calls, Ended
  <1> QED BY <1>4, <1>5

LEMMA PutOkType ==
    ASSUME TypeInv, PutOk PROVE TypeInv'
  <1>1. pc = "put" /\ open' \in Seq(Transaction) /\ tries' \in 0..(MaxRetries - 1)
    BY AnsweredType, NoTries DEF PutOk
  <1>2. UNCHANGED <<feed, platform, faults, target, after, page, waiting, stop>>
    BY DEF PutOk
  <1>3. page \in Pages /\ (page.next => token + PageLen <= MaxFeed)
    BY <1>1, PageInHand
  <1>4. token' \in 0..MaxFeed /\ pc' \in {"wait", "stopped", "fetch"}
    BY <1>3, TurnPageType DEF PutOk
  <1>5. cursor' \in Dates
    BY <1>3 DEF PutOk, Pages
  <1> QED BY <1>1, <1>2, <1>4, <1>5 DEF TypeInv, TypeOK, BoundInv, platform, Calls, Ended

LEMMA LifeType ==
    ASSUME TypeInv, Stopped \/ Stop \/ Crash PROVE TypeInv'
  <1>1. CASE Stopped \/ Stop
    BY <1>1 DEF Stopped, Stop, TypeInv, TypeOK, BoundInv, platform, thread, Ended
  <1>2. CASE Crash
    <2>1. tries' \in 0..(MaxRetries - 1)
      BY <1>2, NoTries DEF Crash
    <2>2. faults' \in 0..MaxFaults
      BY <1>2, BoundsAssumption DEF Crash, TypeInv, TypeOK
    <2>3. open' \in Seq(Transaction)
      <3>1. \A S : <<>> \in Seq(S)
        BY EmptySeq
      <3> QED BY <1>2, <3>1 DEF Crash
    <2>4. pc' = "down" /\ waiting' = FALSE /\ UNCHANGED <<feed, platform, thread, stop>>
      BY <1>2 DEF Crash
    <2> QED BY <2>1, <2>2, <2>3, <2>4 DEF TypeInv, TypeOK, BoundInv, platform, thread, Ended
  <1> QED BY <1>1, <1>2

LEMMA RestartType ==
    ASSUME TypeInv, Restart PROVE TypeInv'
  <1>1. 0 \in Dates /\ 0 \in 0..MaxFeed /\ NoPage \in Pages
    BY BoundsAssumption DEF Dates, NoPage, Pages
  <1>2. faults' \in 0..MaxFaults /\ target' \in Buckets
    BY BoundsAssumption DEF Restart, TypeInv, TypeOK
  <1>3. /\ pc' = "register" /\ stop' = FALSE /\ cursor' = 0 /\ after' = 0 /\ token' = 0
        /\ page' = NoPage /\ UNCHANGED <<feed, platform, open, tries, waiting>>
    BY DEF Restart
  <1> QED BY <1>1, <1>2, <1>3 DEF TypeInv, TypeOK, BoundInv, platform, Pages, Calls

LEMMA InitType == Init => TypeInv
  <1> SUFFICES ASSUME Init PROVE TypeInv
    OBVIOUS
  <1>1. MaxFeed \in Nat /\ MaxFaults \in Nat /\ 0 \in Dates /\ 0 \in 0..MaxFeed
        /\ 0 \in 0..(MaxRetries - 1) /\ 0 \in 0..MaxFaults
    BY BoundsAssumption, MaxRetriesAssumption DEF Dates
  <1>2. NoPage \in Pages
    BY <1>1 DEF NoPage, Pages
  <1>3. feed = <<>> /\ open = <<>> /\ feed \in Seq(1..MaxFeed) /\ open \in Seq(Transaction)
        /\ Len(feed) = 0
    <2>1. \A S : <<>> \in Seq(S)
      BY EmptySeq
    <2> QED BY <2>1 DEF Init
  <1>4. stored \in [Buckets -> [1..MaxFeed -> Nat]]
    BY DEF Init, Nothing
  <1>5. TypeOK
    <2>1. row \in [bucket : Buckets \cup {NoBucket}, cursor : Dates]
      BY <1>1 DEF Init
    <2>2. page \in Pages
      BY <1>2 DEF Init
    <2>3. /\ faults \in 0..MaxFaults /\ pc \in Calls /\ target \in Buckets
          /\ cursor \in Dates /\ after \in Dates /\ token \in 0..MaxFeed
          /\ tries \in 0..(MaxRetries - 1) /\ waiting \in BOOLEAN /\ stop \in BOOLEAN
      BY <1>1 DEF Init, Calls
    <2> QED BY <1>1, <1>3, <1>4, <2>1, <2>2, <2>3 DEF TypeOK, Pages
  <1>6. BoundInv
    BY <1>3 DEF Init, BoundInv
  <1> QED BY <1>5, <1>6 DEF TypeInv

LEMMA NextType == TypeInv /\ [Next]_vars => TypeInv'
  <1> SUFFICES ASSUME TypeInv, [Next]_vars PROVE TypeInv'
    OBVIOUS
  <1>1. CASE Step
    BY <1>1, RegisterOkType, StartType, FetchOkType, SubmitOkType, PutOkType, LifeType,
       BackOffType DEF Step
  <1>2. CASE UNCHANGED vars
    BY <1>2 DEF vars, platform, thread, TypeInv, TypeOK, BoundInv
  <1> QED BY <1>1, <1>2, TimeoutType, RefusedType, LifeType, RestartType, PublishType,
             CommitType, LoseType, AbortType DEF Next

\* The retry loop ends at its limit, a page token never leads past the feed, and
\* every request under way is one of the three: whatever the platform loses,
\* delays or refuses, with or without a date header.
THEOREM CollectorTypes == Spec => []TypeOK
  <1>1. TypeInv => TypeOK
    BY DEF TypeInv
  <1> QED BY <1>1, InitType, NextType, PTL DEF Spec

-----------------------------------------------------------------------------
(* What is stored stays stored.                                              *)

\* Every step of the system leaves objects in their buckets, and keeps the feed.
Grows ==
    /\ Len(feed) <= Len(feed') /\ \A i \in 1..Len(feed) : feed'[i] = feed[i]
    /\ \A b \in Buckets : \A i \in Valid : Stored(i, b) => Stored(i, b)'

LEMMA SafeKept ==
    ASSUME TypeInv, TypeInv', Grows, NEW c, NEW b, Safe(c, b)
    PROVE  Safe(c, b)'
  <1>1. PICK n \in 0..Len(feed) : DateOf(c, n) /\ StoredUpTo(n, b)
    BY DEF Safe
  <1>2. Len(feed) \in Nat /\ Len(feed') \in Nat
    BY DEF TypeInv, TypeOK
  <1>3. n \in 0..Len(feed') /\ DateOf(c, n)'
    BY <1>1, <1>2 DEF Grows, DateOf
  <1>4. StoredUpTo(n, b)'
    <2>1. CASE n = 0
      BY <2>1 DEF StoredUpTo, Valid
    <2>2. CASE n # 0
      BY <1>1, <1>2, <2>2 DEF StoredUpTo, Grows
    <2> QED BY <2>1, <2>2
  <1> QED BY <1>3, <1>4 DEF Safe

\* No cursor is safe for any bucket.
LEMMA NoCursorSafe == ASSUME TypeInv, NEW b PROVE Safe(0, b)
  <1>1. 0 \in 0..Len(feed)
    BY DEF TypeInv, TypeOK
  <1> QED BY <1>1 DEF Safe, DateOf, StoredUpTo, Valid

\* The number of entries up to entry n of an increasing sequence.
LEMMA CountUpTo ==
    ASSUME NEW f \in Seq(Nat \ {0}), NEW n \in 0..Len(f), NEW c, IF n = 0 THEN c = 0 ELSE c = f[n],
           \A i, j \in 1..Len(f) : i < j => f[i] < f[j]
    PROVE  Cardinality({i \in 1..Len(f) : f[i] <= c}) = n
  <1>1. Len(f) \in Nat /\ \A i \in 1..Len(f) : f[i] \in Nat \ {0}
    OBVIOUS
  <1>2. {i \in 1..Len(f) : f[i] <= c} = 1..n
    <2>1. CASE n = 0
      BY <1>1, <2>1
    <2>2. CASE n # 0
      <3>1. c = f[n] /\ n \in 1..Len(f)
        BY <1>1, <2>2
      <3>2. ASSUME NEW i \in 1..Len(f) PROVE f[i] <= c <=> i <= n
        <4>1. f[i] \in Nat /\ f[n] \in Nat /\ i \in Nat /\ n \in Nat
          BY <1>1, <3>1
        <4>2. i < n \/ i = n \/ n < i
          BY <4>1
        <4> QED BY <3>1, <4>1, <4>2
      <3>3. 1..n \subseteq 1..Len(f)
        BY <1>1
      <3> QED BY <3>2, <3>3
    <2> QED BY <2>1, <2>2
  <1>3. Cardinality(1..n) = n
    <2>1. Cardinality(1..n) = IF 1 > n THEN 0 ELSE n - 1 + 1
      BY <1>1, FS_Interval
    <2> QED BY <1>1, <2>1
  <1> QED BY <1>2, <1>3, Zenon

LEMMA BeforeDate ==
    ASSUME TypeInv, Increasing, NEW n \in 0..Len(feed), NEW c, DateOf(c, n)
    PROVE  Before(c) = n
  <1>1. feed \in Seq(Nat \ {0})
    <2>1. feed \in Seq(1..MaxFeed)
      BY DEF TypeInv, TypeOK
    <2>2. 1..MaxFeed \subseteq Nat \ {0}
      BY BoundsAssumption
    <2> QED BY <2>1, <2>2, SeqMonotonic
  <1> QED BY <1>1, CountUpTo DEF Before, Increasing, DateOf

\* A new object leaves the query where it was.
LEMMA BeforeKept ==
    ASSUME TypeInv, TypeInv', Increasing, Increasing', Grows, NEW c, NEW b, Safe(c, b)
    PROVE  Before(c)' = Before(c)
  <1>1. PICK n \in 0..Len(feed) : DateOf(c, n)
    BY DEF Safe
  <1>2. Len(feed) \in Nat /\ Len(feed') \in Nat
    BY DEF TypeInv, TypeOK
  <1>3. n \in 0..Len(feed') /\ DateOf(c, n)'
    BY <1>1, <1>2 DEF Grows, DateOf
  <1>4. Before(c) = n
    BY <1>1, BeforeDate
  <1>5. feed' \in Seq(Nat \ {0})
    <2>1. feed' \in Seq(1..MaxFeed)
      BY DEF TypeInv, TypeOK
    <2>2. 1..MaxFeed \subseteq Nat \ {0}
      BY BoundsAssumption
    <2> QED BY <2>1, <2>2, SeqMonotonic
  <1>6. Before(c)' = n
    BY <1>3, <1>5, CountUpTo DEF Before, Increasing, DateOf
  <1> QED BY <1>4, <1>6

LEMMA NothingMoves ==
    ASSUME TypeInv, UNCHANGED <<feed, stored>> PROVE Grows
  BY DEF TypeInv, TypeOK, Grows, Stored

\* A batch that commits is in its bucket from then on.
LEMMA CommitGrows ==
    ASSUME TypeInv, NEW k \in 1..Len(open), Commit(k)
    PROVE  /\ Grows
           /\ \A b \in Buckets : \A i \in Valid : Accepted(i, b) => Accepted(i, b)'
  <1> DEFINE t == open[k]
  <1>1. open \in Seq(Transaction) /\ stored \in [Buckets -> [1..MaxFeed -> Nat]]
        /\ open' = RemoveAt(open, k) /\ feed' = feed
    BY DEF TypeInv, TypeOK, Commit
  <1>2. ASSUME NEW b \in Buckets, NEW i \in Valid
        PROVE  /\ Stored(i, b) => Stored(i, b)'
               /\ b = t.bucket /\ i \in t.objects => Stored(i, b)'
    <2>1. i \in 1..MaxFeed /\ stored[b][i] \in Nat
      BY <1>1 DEF Valid
    <2>2. stored'[b][i] = stored[b][i] + (IF b = t.bucket /\ i \in t.objects THEN 1 ELSE 0)
      BY <2>1 DEF Commit
    <2> HIDE DEF t
    <2> QED BY <2>1, <2>2 DEF Stored
  <1>3. ASSUME NEW b \in Buckets, NEW i \in Valid, Accepted(i, b) PROVE Accepted(i, b)'
    <2>1. CASE Stored(i, b)
      BY <1>2, <2>1 DEF Accepted
    <2>2. CASE ~Stored(i, b)
      <3>1. PICK m \in 1..Len(open) :
              open[m].answered /\ open[m].bucket = b /\ i \in open[m].objects
        BY <1>3, <2>2 DEF Accepted
      <3>2. CASE m = k
        BY <1>2, <3>1, <3>2 DEF Accepted
      <3>3. CASE m # k
        <4>1. PICK j \in 1..Len(open') : open'[j] = open[m]
          BY <1>1, <3>3, RemoveAtElements
        <4> QED BY <3>1, <4>1 DEF Accepted
      <3> QED BY <3>2, <3>3
    <2> QED BY <2>1, <2>2
  <1>4. Len(feed) <= Len(feed')
    BY <1>1 DEF TypeInv, TypeOK
  <1> QED BY <1>1, <1>2, <1>3, <1>4 DEF Grows

-----------------------------------------------------------------------------
(* Parts of the invariant that a step leaves as they are.                    *)

LEMMA CursorsKept ==
    ASSUME IInv, TypeInv', Grows, UNCHANGED <<row, target, cursor, after>>
    PROVE  CursorInv'
  BY SafeKept DEF IInv, CursorInv

\* Each request under way was so before, or is a new one.
LEMMA OpenKept ==
    ASSUME IInv, TypeInv', Grows, target' = target, row'.bucket \in {row.bucket, target},
           \A j \in 1..Len(open') :
             SafeRequest(open'[j]) \/ \E m \in 1..Len(open) : open'[j] = open[m]
    PROVE  OpenInv'
  <1> SUFFICES ASSUME NEW j \in 1..Len(open') PROVE SafeRequest(open[j])'
    BY DEF OpenInv
  <1>2. PICK u : u = open'[j] /\ SafeRequest(u)
    BY DEF IInv, OpenInv
  <1>3. \A c : Safe(c, target) => Safe(c, target)'
    BY SafeKept DEF IInv
  <1> QED BY <1>2, <1>3 DEF SafeRequest

\* An answered request that may be lost.
Dispensable(t) ==
    t.op = "put" \/ (t.op = "register" /\ row.bucket \in {target, NoBucket})

LEMMA RegisteredKept ==
    ASSUME IInv, UNCHANGED <<row, target>>,
           \A k \in 1..Len(open) : open[k].answered =>
             Dispensable(open[k]) \/ \E j \in 1..Len(open') : open'[j] = open[k],
           \/ pc' = pc
           \/ pc' \notin {"wait", "fetch", "submit", "put"}
           \/ pc' \in {"wait", "fetch", "submit"} /\ pc \in {"wait", "fetch", "submit", "put"}
    PROVE  RegisteredInv'
  <1>1. Registering => Registering' \/ row.bucket \in {target, NoBucket}
    BY DEF Registering, Dispensable
  <1> QED BY <1>1 DEF IInv, RegisteredInv

LEMMA BatchKept ==
    ASSUME IInv, UNCHANGED <<stored, target, page>>, pc' = pc \/ pc' # "put",
           \A k \in 1..Len(open) : open[k].answered =>
             Dispensable(open[k]) \/ \E j \in 1..Len(open') : open'[j] = open[k]
    PROVE  BatchInv'
  <1> SUFFICES ASSUME pc' = "put", pc = "put", NEW i \in Valid \cap page.objects
               PROVE  Accepted(i, target)'
    BY DEF BatchInv
  <1>1. Accepted(i, target)
    BY DEF IInv, BatchInv
  <1>2. CASE Stored(i, target)
    BY <1>2 DEF Accepted, Stored
  <1>3. CASE ~Stored(i, target)
    <2>1. PICK k \in 1..Len(open) :
            open[k].answered /\ open[k].bucket = target /\ i \in open[k].objects
      BY <1>1, <1>3 DEF Accepted
    <2>2. open[k].op = "submit"
      BY <2>1 DEF IInv, OpenInv, SafeRequest
    <2>3. PICK j \in 1..Len(open') : open'[j] = open[k]
      BY <2>1, <2>2 DEF Dispensable
    <2> QED BY <2>1, <2>3 DEF Accepted
  <1> QED BY <1>2, <1>3

LEMMA UpToKept ==
    ASSUME Grows, NEW n \in Nat, NEW b \in Buckets, StoredUpTo(n, b)
    PROVE  StoredUpTo(n, b)'
  BY DEF Grows, StoredUpTo

LEMMA FromType ==
    ASSUME IInv
    PROVE  /\ From \in Nat /\ From - 1 \in Nat /\ From >= 1
           /\ target \in Buckets /\ token \in Nat /\ Before(after) \in Nat
  <1>1. Before(after) \in Nat
    BY BeforeType DEF IInv, TypeInv, TypeOK
  <1>2. token \in Nat /\ target \in Buckets
    BY DEF IInv, TypeInv, TypeOK
  <1> QED BY <1>1, <1>2 DEF From

LEMMA FromKept ==
    ASSUME IInv, TypeInv', Increasing', Grows, UNCHANGED <<after, token>>
    PROVE  From' = From
  <1>1. \A c : Safe(c, target) => Before(c)' = Before(c)
    BY BeforeKept DEF IInv
  <1>2. Before(after)' = Before(after)
    BY <1>1 DEF IInv, CursorInv
  <1> QED BY <1>2 DEF From

LEMMA QueryKept ==
    ASSUME IInv, TypeInv', Increasing', Grows, UNCHANGED <<after, token, page, target>>,
           pc' = pc \/ pc' \notin {"fetch", "submit", "put"}
    PROVE  QueryInv'
  <1>1. CASE pc' \notin {"fetch", "submit", "put"}
    BY <1>1 DEF QueryInv
  <1>2. CASE pc' = pc
    <2>1. From' = From /\ From - 1 \in Nat /\ target \in Buckets
      BY FromKept, FromType
    <2>2. pc' \in {"fetch", "submit", "put"} => StoredUpTo(From - 1, target)'
      BY <1>2, <2>1, UpToKept DEF IInv, QueryInv
    <2>3. ASSUME pc' \in {"submit", "put"}
          PROVE  \E to \in 1..Len(feed') :
                   /\ page'.objects = From'..to /\ From' <= to /\ page'.last = feed'[to]
                   /\ page'.next => to = From' + PageLen - 1
      <3>1. PICK to \in 1..Len(feed) :
              /\ page.objects = From..to /\ From <= to /\ page.last = feed[to]
              /\ page.next => to = From + PageLen - 1
        BY <1>2, <2>3 DEF IInv, QueryInv
      <3>2. to \in 1..Len(feed')
        BY DEF Grows, IInv, TypeInv, TypeOK
      <3> QED BY <2>1, <3>1, <3>2 DEF Grows
    <2> QED BY <2>1, <2>2, <2>3 DEF QueryInv
  <1> QED BY <1>1, <1>2

\* The page in hand, once what is valid in it has been stored.
LEMMA PageDone ==
    ASSUME IInv, pc \in {"submit", "put"},
           \A i \in Valid \cap page.objects : Stored(i, target)
    PROVE  \E to \in 1..Len(feed) :
             /\ StoredUpTo(to, target) /\ page.last = feed[to]
             /\ page.next => to = From + PageLen - 1
  <1>1. PICK to \in 1..Len(feed) :
          /\ page.objects = From..to /\ From <= to /\ page.last = feed[to]
          /\ page.next => to = From + PageLen - 1
    BY DEF IInv, QueryInv
  <1>2. StoredUpTo(From - 1, target)
    BY DEF IInv, QueryInv
  <1>3. ASSUME NEW i \in Valid, i <= to PROVE Stored(i, target)
    <2>1. i \in Nat /\ From \in Nat /\ to \in Nat
      BY FromType DEF Valid, IInv, TypeInv, TypeOK
    <2>2. i <= From - 1 \/ i \in From..to
      BY <1>3, <2>1
    <2> QED BY <1>1, <1>2, <2>2 DEF StoredUpTo
  <1>4. StoredUpTo(to, target)
    BY <1>3, FromType DEF StoredUpTo
  <1> QED BY <1>1, <1>4

\* By the time of the thread's next call its batch has committed.
LEMMA PageStored ==
    ASSUME "submit" \in Prompt, IInv, pc = "put", Settled
    PROVE  \A i \in Valid \cap page.objects : Stored(i, target)
  <1> SUFFICES ASSUME NEW i \in Valid \cap page.objects, ~Stored(i, target) PROVE FALSE
    OBVIOUS
  <1>1. PICK k \in 1..Len(open) :
          open[k].answered /\ open[k].bucket = target /\ i \in open[k].objects
    BY DEF IInv, BatchInv, Accepted
  <1>2. open[k].op = "submit"
    BY <1>1 DEF IInv, OpenInv, SafeRequest
  <1> QED BY <1>1, <1>2 DEF Settled

\* The query goes on after a page that is stored.
LEMMA TurnPageQuery ==
    ASSUME IInv, TypeInv', Increasing', Grows, UNCHANGED <<after, target>>, TurnPage(page),
           NEW to \in Nat, StoredUpTo(to, target),
           page.next => to = From + PageLen - 1
    PROVE  QueryInv'
  <1>1. CASE pc' # "fetch"
    BY <1>1 DEF TurnPage, QueryInv
  <1>2. CASE pc' = "fetch"
    <2>1. page.next /\ token' = token + PageLen
      BY <1>2 DEF TurnPage
    <2>2. Before(after)' = Before(after)
      <3>1. \A c : Safe(c, target) => Before(c)' = Before(c)
        BY BeforeKept DEF IInv
      <3> QED BY <3>1 DEF IInv, CursorInv
    <2>3. From' - 1 = to
      BY <2>1, <2>2, FromType, PageLenAssumption DEF From
    <2>4. StoredUpTo(to, target)'
      BY UpToKept, FromType
    <2> QED BY <1>2, <2>3, <2>4 DEF QueryInv
  <1> QED BY <1>1, <1>2

-----------------------------------------------------------------------------
(* The steps.                                                                *)

LEMMA IncreasingKept == ASSUME IInv, UNCHANGED feed PROVE Increasing'
  BY DEF IInv, Increasing

LEMMA PublishStep ==
    ASSUME ~SameDates, IInv, Publish PROVE IInv'
  <1>1. TypeInv' /\ UNCHANGED <<platform, open, faults, pc, thread, tries, waiting, stop>>
    BY PublishType DEF IInv, Publish
  <1>2. /\ Len(feed) \in Nat /\ feed \in Seq(1..MaxFeed) /\ Len(feed') = Len(feed) + 1
        /\ \A i \in 1..Len(feed) : feed'[i] = feed[i]
        /\ feed'[Len(feed')] > LastDate /\ LastDate \in Nat
        /\ feed' \in Seq(1..MaxFeed)
        /\ feed # <<>> => LastDate = feed[Len(feed)]
    BY Published, LastDateType DEF IInv, TypeInv, TypeOK
  <1>d. /\ \A i \in 1..Len(feed) : feed[i] \in Nat
        /\ \A i \in 1..Len(feed') : feed'[i] \in Nat
    <2>1. ASSUME NEW f \in Seq(1..MaxFeed), NEW i \in 1..Len(f) PROVE f[i] \in Nat
      <3>1. f[i] \in 1..MaxFeed
        BY <2>1, ElementOfSeq
      <3> QED BY <3>1
    <2> QED BY <1>2, <2>1
  <1>3. Grows
    BY <1>1, <1>2 DEF Grows, Stored, platform
  <1>4. Increasing'
    <2> SUFFICES ASSUME NEW i \in 1..Len(feed'), NEW j \in 1..Len(feed'), i < j
                 PROVE  feed'[i] < feed'[j]
      BY DEF Increasing
    <2>1. CASE j <= Len(feed)
      BY <1>2, <2>1 DEF IInv, Increasing
    <2>2. CASE ~(j <= Len(feed))
      <3>1. j = Len(feed') /\ i \in 1..Len(feed) /\ Len(feed) \in 1..Len(feed)
        BY <1>2, <2>2
      <3>2. feed # <<>>
        BY <1>2, <3>1, EmptySeq
      <3>3. feed[i] <= LastDate
        <4>1. i = Len(feed) \/ i < Len(feed)
          BY <1>2, <3>1
        <4>2. feed[i] \in Nat /\ feed[Len(feed)] \in Nat
          BY <1>d, <3>1
        <4>3. i < Len(feed) => feed[i] < feed[Len(feed)]
          BY <3>1 DEF IInv, Increasing
        <4> QED BY <1>2, <3>2, <4>1, <4>2, <4>3
      <3>4. feed[i] \in Nat /\ feed'[j] \in Nat /\ feed'[i] = feed[i]
        BY <1>2, <1>d, <3>1
      <3> QED BY <1>2, <3>1, <3>3, <3>4
    <2> QED BY <2>1, <2>2
  <1>5. CursorInv'
    BY <1>1, <1>3, CursorsKept DEF platform, thread
  <1>6. OpenInv'
    BY <1>1, <1>3, OpenKept DEF platform, thread
  <1>7. RegisteredInv'
    BY <1>1, RegisteredKept DEF platform, thread
  <1>8. QueryInv'
    BY <1>1, <1>3, <1>4, QueryKept DEF thread
  <1>9. BatchInv'
    BY <1>1, BatchKept DEF platform, thread
  <1> QED BY <1>1, <1>4, <1>5, <1>6, <1>7, <1>8, <1>9 DEF IInv

\* The steps that leave feed, row and what is stored, and take no answered
\* request away that anything rests on.
LEMMA QuietStep ==
    ASSUME IInv, TypeInv', UNCHANGED <<feed, platform, target, cursor, after, token, page>>,
           \A k \in 1..Len(open) : open[k].answered =>
             Dispensable(open[k]) \/ \E j \in 1..Len(open') : open'[j] = open[k],
           \A j \in 1..Len(open') :
             SafeRequest(open'[j]) \/ \E m \in 1..Len(open) : open'[j] = open[m],
           \/ pc' = pc
           \/ pc' \notin {"wait", "fetch", "submit", "put"}
           \/ pc' = "wait" /\ pc \in {"wait", "fetch", "submit", "put"}
    PROVE  IInv'
  <1>1. Grows
    BY NothingMoves DEF IInv, platform
  <1>2. Increasing'
    BY IncreasingKept
  <1>3. CursorInv'
    BY <1>1, CursorsKept DEF platform
  <1>4. OpenInv'
    BY <1>1, OpenKept DEF platform
  <1>5. RegisteredInv'
    BY RegisteredKept DEF platform
  <1>6. QueryInv'
    BY <1>1, <1>2, QueryKept
  <1>7. BatchInv'
    BY BatchKept DEF platform
  <1> QED BY <1>2, <1>3, <1>4, <1>5, <1>6, <1>7 DEF IInv

LEMMA QuietSteps ==
    ASSUME IInv, Refused \/ BackOff \/ Stopped \/ Stop PROVE IInv'
  <1>1. TypeInv'
    BY RefusedType, BackOffType, LifeType DEF IInv
  <1>2. UNCHANGED <<feed, platform, open, thread>>
    BY DEF Refused, BackOff, Stopped, Stop
  <1>3. \/ pc' = pc
        \/ pc' \notin {"wait", "fetch", "submit", "put"}
        \/ pc' = "wait" /\ pc \in {"wait", "fetch", "submit", "put"}
    BY DEF Refused, BackOff, Stopped, Stop, GiveUp, Calling, Calls
  <1> QED BY <1>1, <1>2, <1>3, QuietStep DEF thread

LEMMA LoseStep ==
    ASSUME IInv, NEW k \in 1..Len(open), Lose(k) PROVE IInv'
  <1>1. TypeInv' /\ open \in Seq(Transaction) /\ open' = RemoveAt(open, k) /\ ~open[k].answered
    BY LoseType DEF IInv, Lose, TypeInv, TypeOK
  <1>m. \A m \in 1..Len(open) : m # k => \E j \in 1..Len(open') : open'[j] = open[m]
    BY <1>1, RemoveAtElements
  <1>2. \A m \in 1..Len(open) : open[m].answered =>
          \E j \in 1..Len(open') : open'[j] = open[m]
    BY <1>1, <1>m
  <1>3. \A j \in 1..Len(open') : \E m \in 1..Len(open) : open'[j] = open[m]
    BY <1>1, RemoveAtElements
  <1> QED BY <1>1, <1>2, <1>3, QuietStep DEF Lose, thread

\* What fails to commit is a cursor update, or a registration that leaves the
\* row without a bucket.
LEMMA AbortStep ==
    ASSUME "submit" \in Prompt, TargetSettled, IInv, NEW k \in 1..Len(open), Abort(k)
    PROVE  IInv'
  <1>1. TypeInv' /\ open \in Seq(Transaction) /\ open' = RemoveAt(open, k)
    BY AbortType DEF IInv, Abort, TypeInv, TypeOK
  <1>2. Dispensable(open[k])
    <2>1. open[k].op \in {"register", "put"} /\ open[k].op \notin Prompt
      <3>1. open[k] \in Transaction
        BY <1>1
      <3>2. open[k].op \in {"register", "submit", "put"}
        BY <3>1 DEF Transaction
      <3>3. open[k].op \notin Prompt
        BY DEF Abort
      <3> QED BY <3>2, <3>3
    <2>2. CASE "register" \in Prompt
      BY <2>1, <2>2 DEF Dispensable
    <2>3. CASE \A b, c \in Buckets : b = c
      <3>1. row.bucket \in Buckets \cup {NoBucket} /\ target \in Buckets
        BY DEF IInv, TypeInv, TypeOK
      <3>2. row.bucket \in {target, NoBucket}
        BY <2>3, <3>1
      <3> QED BY <2>1, <3>2 DEF Dispensable
    <2> QED BY <2>2, <2>3 DEF TargetSettled
  <1>3. \A m \in 1..Len(open) : m # k => \E j \in 1..Len(open') : open'[j] = open[m]
    BY <1>1, RemoveAtElements
  <1>4. \A m \in 1..Len(open) :
          Dispensable(open[m]) \/ \E j \in 1..Len(open') : open'[j] = open[m]
    BY <1>2, <1>3
  <1>5. \A j \in 1..Len(open') : \E m \in 1..Len(open) : open'[j] = open[m]
    BY <1>1, RemoveAtElements
  <1> QED BY <1>1, <1>4, <1>5, QuietStep DEF Abort, thread

\* The crash leaves what is stored, and no request.
LEMMA CrashStep ==
    ASSUME IInv, Crash PROVE IInv'
  <1>1. TypeInv' /\ pc' = "down" /\ open' = <<>> /\ UNCHANGED <<feed, platform, thread>>
    BY LifeType DEF IInv, Crash
  <1>2. Grows /\ Increasing'
    BY <1>1, NothingMoves, IncreasingKept DEF IInv, platform
  <1>3. CursorInv'
    BY <1>1, <1>2, CursorsKept DEF platform, thread
  <1> QED BY <1>1, <1>2, <1>3 DEF IInv, OpenInv, RegisteredInv, QueryInv, BatchInv

\* The cursor that is sent: the page in hand is stored up to its last object.
LEMMA PageCursorSafe ==
    ASSUME "submit" \in Prompt, IInv, pc = "put", Settled
    PROVE  Safe(page.last, target) /\ row.bucket = target
  <1>1. PICK to \in 1..Len(feed) : StoredUpTo(to, target) /\ page.last = feed[to]
    BY PageDone, PageStored
  <1>2. to \in 0..Len(feed) /\ to # 0
    BY DEF IInv, TypeInv, TypeOK
  <1> QED BY <1>1, <1>2 DEF Safe, DateOf, IInv, RegisteredInv

\* What the thread sends.
LEMMA RequestSafe ==
    ASSUME "submit" \in Prompt, IInv, pc \in {"register", "submit", "put"}, Known, Settled,
           NEW r \in {Request, [Request EXCEPT !.answered = FALSE]}
    PROVE  SafeRequest(r)
  <1>1. Request \in Transaction /\ Request.bucket \in Buckets /\ Request.op = pc
    BY RequestType DEF IInv
  <1>2. r.bucket = Request.bucket /\ r.op = Request.op /\ r.cursor = Request.cursor
        /\ r.objects = Request.objects
    BY <1>1 DEF Transaction
  <1>3. pc = "register" => Request.bucket = target
    BY DEF Request, Register
  <1>4. ASSUME pc = "put" PROVE row.bucket = target /\ Safe(Request.cursor, target)
    <2>1. Request.cursor = page.last
      BY <1>4 DEF Request, Put
    <2> QED BY <1>4, <2>1, PageCursorSafe
  <1>5. pc # "submit" => Request.objects = {}
    BY DEF Request, Register, Put
  <1> QED BY <1>1, <1>2, <1>3, <1>4, <1>5 DEF SafeRequest

LEMMA TimeoutStep ==
    ASSUME "submit" \in Prompt, IInv, Timeout PROVE IInv'
  <1>1. TypeInv' /\ UNCHANGED <<feed, platform, thread>>
    BY TimeoutType DEF IInv, Timeout
  <1>2. \/ pc' = pc
        \/ pc' \notin {"wait", "fetch", "submit", "put"}
        \/ pc' = "wait" /\ pc \in {"wait", "fetch", "submit", "put"}
    BY DEF Timeout, GiveUp, Calling, Calls
  <1>3. CASE pc # "fetch" /\ Known
    <2>1. pc \in {"register", "submit", "put"} /\ Settled
      BY <1>3 DEF Timeout, Calling, Calls
    <2>2. PICK r : r = [Request EXCEPT !.answered = FALSE]
      OBVIOUS
    <2>3. r \in Transaction /\ SafeRequest(r) /\ open' = Executed(r)
      BY <1>3, <2>1, <2>2, RequestType, RequestSafe DEF IInv, Timeout
    <2>4. /\ \A k \in 1..Len(open) : \E j \in 1..Len(open') : open'[j] = open[k]
          /\ \A j \in 1..Len(open') :
               SafeRequest(open'[j]) \/ \E m \in 1..Len(open) : open'[j] = open[m]
      <3>1. /\ Len(open) \in Nat /\ Len(open') \in Nat /\ Len(open) <= Len(open')
            /\ \A k \in 1..Len(open) : open'[k] = open[k]
            /\ \A k \in 1..Len(open') : k \in 1..Len(open) \/ open'[k] = r
        BY <2>3, ExecutedElements DEF IInv
      <3>2. 1..Len(open) \subseteq 1..Len(open')
        BY <3>1
      <3> QED BY <2>3, <3>1, <3>2
    <2> QED BY <1>1, <1>2, <2>4, QuietStep DEF thread
  <1>4. CASE ~(pc # "fetch" /\ Known)
    <2>1. open' = open
      BY <1>4 DEF Timeout
    <2> QED BY <1>1, <1>2, <2>1, QuietStep DEF thread
  <1> QED BY <1>3, <1>4

\* A registration that commits names the target; a cursor that commits is safe
\* for it; a batch that commits changes no cursor.
LEMMA CommitStep ==
    ASSUME IInv, NEW k \in 1..Len(open), Commit(k) PROVE IInv'
  <1>1. PICK t : t = open[k]
    OBVIOUS
  <1>2. /\ TypeInv' /\ Grows /\ SafeRequest(t) /\ open \in Seq(Transaction)
        /\ open' = RemoveAt(open, k)
    BY <1>1, CommitType, CommitGrows DEF IInv, OpenInv, TypeInv, TypeOK, Commit
  <1>b. BatchInv'
    <2>1. target \in Buckets /\ pc' = pc /\ target' = target /\ page' = page
      BY DEF IInv, TypeInv, TypeOK, Commit, thread
    <2>2. \A i \in Valid : Accepted(i, target) => Accepted(i, target)'
      BY <2>1, CommitGrows DEF IInv
    <2> QED BY <2>1, <2>2 DEF IInv, BatchInv
  <1>3. UNCHANGED <<feed, pc, target, cursor, after, token, page>>
    BY DEF Commit, thread
  <1>4. Increasing' /\ QueryInv'
    BY <1>2, <1>3, IncreasingKept, QueryKept
  <1>5. /\ \A m \in 1..Len(open) : m # k => \E j \in 1..Len(open') : open'[j] = open[m]
        /\ \A j \in 1..Len(open') : \E m \in 1..Len(open) : open'[j] = open[m]
    BY <1>2, RemoveAtElements
  <1>6. row' = CASE t.op = "register" /\ WritesRow(t) -> RegisteredRow(t.bucket)
                 [] t.op = "put" -> [row EXCEPT !.cursor = t.cursor]
                 [] OTHER -> row
    BY <1>1 DEF Commit
  <1>7. \A c, b : Safe(c, b) => Safe(c, b)'
    BY <1>2, SafeKept DEF IInv
  <1>8. row'.bucket \in {row.bucket, target} /\ Safe(row.cursor, row.bucket)'
    <2>1. CASE t.op = "register" /\ WritesRow(t)
      <3>1. row' = [bucket |-> target, cursor |-> 0]
        BY <1>2, <1>6, <2>1 DEF RegisteredRow, SafeRequest
      <3>2. Safe(0, target)
        BY NoCursorSafe DEF IInv
      <3> QED BY <1>3, <1>7, <3>1, <3>2
    <2>2. CASE t.op = "put"
      <3>1. row' = [row EXCEPT !.cursor = t.cursor]
        BY <1>6, <2>2
      <3>2. row'.cursor = t.cursor /\ row'.bucket = row.bucket
        BY <3>1 DEF IInv, TypeInv, TypeOK
      <3>3. Safe(t.cursor, row.bucket)
        BY <1>2, <2>2 DEF SafeRequest
      <3> QED BY <1>7, <3>2, <3>3
    <2>3. CASE ~(t.op = "register" /\ WritesRow(t)) /\ t.op # "put"
      <3>1. row' = row
        BY <1>6, <2>3
      <3> QED BY <1>7, <3>1 DEF IInv, CursorInv
    <2> QED BY <2>1, <2>2, <2>3
  <1>9. CursorInv'
    BY <1>3, <1>7, <1>8 DEF IInv, CursorInv
  <1>10. OpenInv'
    BY <1>2, <1>3, <1>5, <1>8, OpenKept
  <1>11. RegisteredInv'
    <2>1. CASE t.op = "register"
      <3>1. row'.bucket = target
        BY <1>2, <1>6, <2>1 DEF RegisteredRow, SafeRequest, WritesRow
      <3> QED BY <1>3, <3>1 DEF RegisteredInv
    <2>2. CASE t.op # "register"
      <3>1. Registering => Registering'
        BY <1>1, <1>5, <2>2 DEF Registering
      <3>2. row'.bucket = row.bucket
        BY <1>6, <2>2 DEF IInv, TypeInv, TypeOK
      <3> QED BY <1>3, <3>1, <3>2 DEF IInv, RegisteredInv
    <2> QED BY <2>1, <2>2
  <1> QED BY <1>2, <1>b, <1>4, <1>9, <1>10, <1>11 DEF IInv

\* An answered call of the thread: its request joins those under way.
LEMMA AnsweredStep ==
    ASSUME "submit" \in Prompt, IInv, TypeInv', pc \in {"register", "submit", "put"},
           Answered, UNCHANGED <<feed, platform, target>>
    PROVE  /\ Grows /\ Increasing' /\ OpenInv' /\ (Registering => Registering')
           /\ Request.answered /\ Request.op = pc
           /\ Writes(Request) => \E j \in 1..Len(open') : open'[j] = Request
  <1>1. PICK r : r = Request
    OBVIOUS
  <1>2. r \in Transaction /\ SafeRequest(r) /\ open' = Executed(r) /\ r.answered /\ r.op = pc
    BY <1>1, RequestType, RequestSafe DEF IInv, Answered, Calling
  <1>3. /\ Len(open) \in Nat /\ Len(open') \in Nat /\ Len(open) <= Len(open')
        /\ \A k \in 1..Len(open) : open'[k] = open[k]
        /\ \A k \in 1..Len(open') : k \in 1..Len(open) \/ open'[k] = r
        /\ Writes(r) => \E j \in 1..Len(open') : open'[j] = r
    BY <1>2, ExecutedElements DEF IInv
  <1>4. 1..Len(open) \subseteq 1..Len(open')
    BY <1>3
  <1>5. \A k \in 1..Len(open) : \E j \in 1..Len(open') : open'[j] = open[k]
    BY <1>3, <1>4
  <1>6. \A j \in 1..Len(open') :
          SafeRequest(open'[j]) \/ \E m \in 1..Len(open) : open'[j] = open[m]
    BY <1>2, <1>3, <1>4
  <1>7. Grows
    BY NothingMoves DEF IInv, platform
  <1>8. OpenInv'
    BY <1>6, <1>7, OpenKept DEF platform
  <1>9. Registering => Registering'
    BY <1>5 DEF Registering
  <1> QED BY <1>1, <1>2, <1>3, <1>7, <1>8, <1>9, IncreasingKept

LEMMA RegisterOkStep ==
    ASSUME "submit" \in Prompt, IInv, RegisterOk PROVE IInv'
  <1>1. /\ TypeInv' /\ pc = "register" /\ pc' = "wait" /\ Answered
        /\ UNCHANGED <<feed, platform, faults, target, after, token, page, waiting, stop>>
    BY RegisterOkType DEF IInv, RegisterOk
  <1>2. /\ Grows /\ Increasing' /\ OpenInv' /\ (Registering => Registering')
        /\ Request.answered /\ Request.op = pc
        /\ Writes(Request) => \E j \in 1..Len(open') : open'[j] = Request
    BY <1>1, AnsweredStep
  <1>3. \A c, b : Safe(c, b) => Safe(c, b)'
    BY <1>1, <1>2, SafeKept DEF IInv
  <1>4. CursorInv'
    <2>1. Safe(cursor', target)
      <3>1. cursor' = IF row.bucket = target THEN row.cursor ELSE 0
        BY DEF RegisterOk
      <3> QED BY <3>1, NoCursorSafe DEF IInv, CursorInv
    <2> QED BY <1>1, <1>3, <2>1 DEF IInv, CursorInv, platform
  <1>5. RegisteredInv'
    <2>1. CASE row.bucket = target
      BY <1>1, <2>1 DEF RegisteredInv, platform
    <2>2. CASE row.bucket # target
      <3>1. Request = Register(target)
        BY <1>1 DEF Request
      <3>2. Writes(Request)
        BY <2>2, <3>1 DEF Writes, WritesRow, Register
      <3>3. Registering'
        BY <1>1, <1>2, <3>2 DEF Registering
      <3> QED BY <1>1, <3>3 DEF RegisteredInv
    <2> QED BY <2>1, <2>2
  <1>6. QueryInv' /\ BatchInv'
    BY <1>1 DEF QueryInv, BatchInv
  <1> QED BY <1>1, <1>2, <1>4, <1>5, <1>6 DEF IInv

\* A cycle starts after what the cursor covers.
LEMMA StartStep ==
    ASSUME IInv, Start PROVE IInv'
  <1>1. /\ TypeInv' /\ pc = "wait" /\ pc' = "fetch" /\ after' = cursor /\ token' = 0
        /\ UNCHANGED <<feed, platform, open, faults, target, cursor, page, tries, waiting, stop>>
    BY StartType DEF IInv, Start
  <1>2. Grows /\ Increasing'
    BY <1>1, NothingMoves, IncreasingKept DEF IInv, platform
  <1>3. \A c, b : Safe(c, b) => Safe(c, b)'
    BY <1>1, <1>2, SafeKept DEF IInv
  <1>4. CursorInv'
    BY <1>1, <1>3 DEF IInv, CursorInv, platform
  <1>5. OpenInv'
    BY <1>1, <1>2, OpenKept DEF platform
  <1>6. RegisteredInv'
    BY <1>1, RegisteredKept DEF platform
  <1>7. QueryInv'
    <2>1. PICK n \in 0..Len(feed) : DateOf(cursor, n) /\ StoredUpTo(n, target)
      BY DEF IInv, CursorInv, Safe
    <2>2. Before(cursor) = n /\ n \in Nat
      BY <2>1, BeforeDate DEF IInv, TypeInv, TypeOK
    <2>3. Before(after)' = n
      BY <1>1, <2>2 DEF Before
    <2>4. From' - 1 = n
      BY <1>1, <2>2, <2>3 DEF From
    <2>5. StoredUpTo(n, target)'
      BY <1>1, <1>2, <2>1, <2>2, FromType, UpToKept
    <2> QED BY <1>1, <2>4, <2>5 DEF QueryInv
  <1>8. BatchInv'
    BY <1>1 DEF BatchInv
  <1> QED BY <1>1, <1>2, <1>4, <1>5, <1>6, <1>7, <1>8 DEF IInv

LEMMA FetchOkStep ==
    ASSUME HasHeader, IInv, FetchOk PROVE IInv'
  <1>1. /\ TypeInv' /\ pc = "fetch"
        /\ UNCHANGED <<feed, platform, open, target, cursor, after, waiting, stop>>
    BY FetchOkType DEF IInv, FetchOk
  <1>2. PICK p : Fetched(p)
    BY DEF FetchOk, Fetched
  <1>3. /\ p \in Pages /\ page' = p
        /\ p.objects = PageAt(after, token).objects /\ p.last = PageAt(after, token).last
        /\ p.next => PageAt(after, token).next /\ p.objects # {}
    BY <1>2, FetchedPage DEF IInv, Fetched
  <1>4. Grows /\ Increasing'
    BY <1>1, NothingMoves, IncreasingKept DEF IInv, platform
  <1>5. CursorInv'
    BY <1>1, <1>4, CursorsKept DEF platform
  <1>6. OpenInv'
    BY <1>1, <1>4, OpenKept DEF platform
  <1>7. CASE p.objects = {}
    <2>1. pc' = "wait"
      BY <1>2, <1>3, <1>7 DEF Fetched, TurnPage
    <2>2. RegisteredInv'
      BY <1>1, <2>1, RegisteredKept DEF platform
    <2> QED BY <1>1, <1>4, <1>5, <1>6, <2>1, <2>2 DEF IInv, QueryInv, BatchInv
  <1>8. CASE p.objects # {}
    <2>1. pc' = "submit" /\ token' = token
      BY <1>2, <1>8 DEF Fetched
    <2>2. RegisteredInv'
      BY <1>1, <2>1, RegisteredKept DEF platform
    <2>3. From' = From /\ From \in Nat /\ From - 1 \in Nat /\ target \in Buckets
      BY <1>1, <1>4, <2>1, FromKept, FromType
    <2>4. StoredUpTo(From - 1, target)'
      BY <1>1, <1>4, <2>3, UpToKept DEF IInv, QueryInv
    <2>5. PICK to \in 0..Len(feed) :
            /\ p.objects = From..to /\ (p.next => to = From + PageLen - 1)
            /\ From <= to => p.last = feed[to]
      <3>1. token \in Nat
        BY FromType
      <3>2. PICK f : f = Before(after) + token + 1
        OBVIOUS
      <3>3. PICK to \in 0..Len(feed) :
              /\ PageAt(after, token).objects = f..to
              /\ PageAt(after, token).next => to = f + PageLen - 1 /\ to < Len(feed)
              /\ f <= to => PageAt(after, token).last = IF HasHeader THEN feed[to] ELSE 0
        BY <3>1, <3>2, PageShape DEF IInv, TypeInv
      <3> QED BY <1>3, <3>2, <3>3 DEF From
    <2>6. From <= to /\ to \in 1..Len(feed)
      <3>1. to \in Nat /\ Len(feed) \in Nat /\ From >= 1
        BY FromType DEF IInv, TypeInv, TypeOK
      <3> QED BY <1>8, <2>3, <2>5, <3>1
    <2>7. QueryInv'
      BY <1>1, <1>3, <2>1, <2>3, <2>4, <2>5, <2>6 DEF QueryInv
    <2> QED BY <1>1, <1>4, <1>5, <1>6, <2>1, <2>2, <2>7 DEF IInv, BatchInv
  <1> QED BY <1>7, <1>8

\* A batch is only ever answered once the row names the target.
LEMMA SettledTarget ==
    ASSUME TargetSettled, IInv, pc \in {"submit", "put"}, Answered
    PROVE  row.bucket = target /\ target \in Buckets
  <1>1. target \in Buckets /\ row.bucket \in Buckets
    BY DEF IInv, TypeInv, TypeOK, Answered, Known
  <1>2. CASE \A b, c \in Buckets : b = c
    BY <1>1, <1>2
  <1>3. CASE "register" \in Prompt
    <2>1. ~Registering /\ row.bucket # NoBucket
      BY <1>3 DEF Answered, Calling, Settled, Registering, Known
    <2> QED BY <1>1, <2>1 DEF IInv, RegisteredInv
  <1> QED BY <1>2, <1>3 DEF TargetSettled

LEMMA SubmitOkStep ==
    ASSUME "submit" \in Prompt, TargetSettled, IInv, SubmitOk PROVE IInv'
  <1>1. /\ TypeInv' /\ pc = "submit" /\ Answered
        /\ UNCHANGED <<feed, platform, faults, target, cursor, after, waiting, stop>>
    BY SubmitOkType DEF IInv, SubmitOk
  <1>2. /\ Grows /\ Increasing' /\ OpenInv' /\ (Registering => Registering')
        /\ Request.answered
        /\ Writes(Request) => \E j \in 1..Len(open') : open'[j] = Request
    BY <1>1, AnsweredStep
  <1>3. row.bucket = target /\ target \in Buckets
    BY <1>1, SettledTarget
  <1>4. CursorInv'
    BY <1>1, <1>2, CursorsKept DEF platform
  <1>5. RegisteredInv'
    BY <1>1, <1>3 DEF RegisteredInv, platform
  <1>6. page.objects \subseteq 1..MaxFeed
    BY DEF IInv, TypeInv, TypeOK
  <1>7. CASE page.objects \ Invalid # {}
    <2>1. PICK to \in 1..Len(feed) :
            /\ page.objects = From..to /\ From <= to /\ page.last = feed[to]
            /\ page.next => to = From + PageLen - 1
      BY <1>1 DEF IInv, QueryInv
    <2>2. page.last # 0
      <3>1. feed[to] \in 1..MaxFeed
        BY <2>1, ElementOfSeq DEF IInv, TypeInv, TypeOK
      <3> QED BY <2>1, <3>1
    <2>3. page' = page /\ pc' = "put" /\ token' = token
      BY <1>7, <2>2 DEF SubmitOk, IInv, TypeInv, TypeOK
    <2>4. ASSUME NEW i \in Valid \cap page.objects PROVE Accepted(i, target)'
      <3>1. Request = Submit(page.objects)
        BY <1>1 DEF Request
      <3>2. Request.objects = page.objects \ Invalid /\ Request.bucket = target
        BY <1>3, <3>1 DEF Submit
      <3>3. Writes(Request)
        BY <1>7, <3>2 DEF Writes
      <3>4. i \in Request.objects
        BY <3>2 DEF Valid
      <3> QED BY <1>1, <1>2, <3>2, <3>3, <3>4 DEF Accepted
    <2>5. From' = From /\ From - 1 \in Nat
      BY <1>1, <1>2, <2>3, FromKept, FromType
    <2>6. StoredUpTo(From - 1, target)'
      BY <1>1, <1>2, <1>3, <2>5, UpToKept DEF IInv, QueryInv
    <2>7. QueryInv'
      BY <1>1, <2>1, <2>3, <2>5, <2>6 DEF QueryInv
    <2>8. BatchInv'
      BY <1>1, <2>3, <2>4 DEF BatchInv
    <2> QED BY <1>1, <1>2, <1>4, <1>5, <2>7, <2>8 DEF IInv
  <1>8. CASE ~(page.objects \ Invalid # {})
    <2>1. TurnPage(page) /\ Valid \cap page.objects = {}
      BY <1>8 DEF SubmitOk, Valid
    <2>2. PICK to \in 1..Len(feed) :
            StoredUpTo(to, target) /\ (page.next => to = From + PageLen - 1)
      BY <1>1, <2>1, PageDone
    <2>3. to \in Nat
      OBVIOUS
    <2>4. QueryInv'
      BY <1>1, <1>2, <2>1, <2>2, <2>3, TurnPageQuery
    <2>5. BatchInv'
      BY <2>1 DEF TurnPage, BatchInv
    <2> QED BY <1>1, <1>2, <1>4, <1>5, <2>4, <2>5 DEF IInv
  <1> QED BY <1>7, <1>8

LEMMA PutOkStep ==
    ASSUME "submit" \in Prompt, TargetSettled, IInv, PutOk PROVE IInv'
  <1>1. /\ TypeInv' /\ pc = "put" /\ Answered /\ TurnPage(page) /\ cursor' = page.last
        /\ Settled
        /\ UNCHANGED <<feed, platform, faults, target, after, page, waiting, stop>>
    BY PutOkType DEF IInv, PutOk, Answered, Calling
  <1>2. Grows /\ Increasing' /\ OpenInv'
    BY <1>1, AnsweredStep
  <1>3. row.bucket = target /\ Safe(page.last, target)
    BY <1>1, PageCursorSafe
  <1>4. \A c, b : Safe(c, b) => Safe(c, b)'
    BY <1>1, <1>2, SafeKept DEF IInv
  <1>5. CursorInv'
    BY <1>1, <1>3, <1>4 DEF IInv, CursorInv, platform
  <1>6. RegisteredInv'
    BY <1>1, <1>3 DEF RegisteredInv, platform
  <1>7. PICK to \in 1..Len(feed) :
          StoredUpTo(to, target) /\ (page.next => to = From + PageLen - 1)
    BY <1>1, PageDone, PageStored
  <1>8. to \in Nat
    OBVIOUS
  <1>9. QueryInv'
    BY <1>1, <1>2, <1>7, <1>8, TurnPageQuery
  <1>10. BatchInv'
    BY <1>1 DEF TurnPage, BatchInv
  <1> QED BY <1>1, <1>2, <1>5, <1>6, <1>9, <1>10 DEF IInv

LEMMA RestartStep ==
    ASSUME IInv, Restart PROVE IInv'
  <1>1. /\ TypeInv' /\ pc' = "register" /\ cursor' = 0 /\ after' = 0
        /\ UNCHANGED <<feed, platform, open, tries, waiting>>
    BY RestartType DEF IInv, Restart
  <1>2. Grows /\ Increasing'
    BY <1>1, NothingMoves, IncreasingKept DEF IInv, platform
  <1>3. \A c, b : Safe(c, b) => Safe(c, b)'
    BY <1>1, <1>2, SafeKept DEF IInv
  <1>4. CursorInv'
    <2>1. \A b : Safe(0, b)
      BY NoCursorSafe DEF IInv
    <2> QED BY <1>1, <1>3, <2>1 DEF IInv, CursorInv, platform
  <1>5. OpenInv'
    <2>1. CASE target' = target
      BY <1>1, <1>2, <2>1, OpenKept DEF platform
    <2>2. CASE open = <<>>
      BY <1>1, <2>2 DEF OpenInv
    <2> QED BY <2>1, <2>2 DEF Restart
  <1> QED BY <1>1, <1>2, <1>4, <1>5 DEF IInv, RegisteredInv, QueryInv, BatchInv

-----------------------------------------------------------------------------

LEMMA InitInv == Init => IInv
  <1> SUFFICES ASSUME Init PROVE IInv
    OBVIOUS
  <1>1. TypeInv /\ feed = <<>> /\ open = <<>> /\ pc = "register"
    BY InitType DEF Init
  <1>2. Increasing /\ OpenInv /\ RegisteredInv /\ QueryInv /\ BatchInv
    BY <1>1 DEF Increasing, OpenInv, RegisteredInv, QueryInv, BatchInv
  <1>3. \A b : Safe(0, b)
    BY <1>1, NoCursorSafe
  <1>4. CursorInv
    BY <1>3 DEF Init, CursorInv
  <1> QED BY <1>1, <1>2, <1>4 DEF IInv

LEMMA NextInv ==
    ASSUME HasHeader, ~SameDates, "submit" \in Prompt, TargetSettled, IInv, [Next]_vars
    PROVE  IInv'
  <1>1. CASE Step
    BY <1>1, RegisterOkStep, StartStep, FetchOkStep, SubmitOkStep, PutOkStep, QuietSteps
       DEF Step
  <1>2. CASE UNCHANGED vars
    <2>1. TypeInv'
      BY <1>2, NextType DEF IInv
    <2> QED BY <1>2, <2>1, QuietStep DEF vars, thread
  <1> QED BY <1>1, <1>2, TimeoutStep, QuietSteps, RestartStep, PublishStep, CommitStep,
             LoseStep, AbortStep, CrashStep DEF Next

THEOREM CollectorInvariant ==
    ASSUME HasHeader, ~SameDates, "submit" \in Prompt, TargetSettled PROVE Spec => []IInv
  <1>1. IInv /\ [Next]_vars => IInv'
    BY NextInv
  <1> QED BY <1>1, InitInv, PTL DEF Spec

LEMMA InvSkipsNothing == IInv => NoSkip
  <1> SUFFICES ASSUME IInv, NEW i \in Valid, i <= Len(feed), feed[i] <= row.cursor
               PROVE  Accepted(i, row.bucket)
    BY DEF NoSkip
  <1>1. PICK n \in 0..Len(feed) : DateOf(row.cursor, n) /\ StoredUpTo(n, row.bucket)
    BY DEF IInv, CursorInv, Safe
  <1>2. i \in 1..Len(feed) /\ feed[i] \in 1..MaxFeed /\ Len(feed) \in Nat /\ i \in Nat
    <2>1. feed \in Seq(1..MaxFeed) /\ Len(feed) \in Nat /\ i \in Nat /\ i >= 1
      BY DEF Valid, IInv, TypeInv, TypeOK
    <2>2. i \in 1..Len(feed)
      BY <2>1
    <2> QED BY <2>1, <2>2, ElementOfSeq
  <1>3. n # 0
    BY <1>1, <1>2 DEF DateOf
  <1>4. n \in 1..Len(feed) /\ row.cursor = feed[n]
    BY <1>1, <1>2, <1>3 DEF DateOf
  <1>5. i <= n
    <2>1. feed[n] \in 1..MaxFeed
      BY <1>4, ElementOfSeq DEF IInv, TypeInv, TypeOK
    <2>2. n < i => feed[n] < feed[i]
      BY <1>2, <1>4 DEF IInv, Increasing
    <2> QED BY <1>2, <1>4, <2>1, <2>2
  <1> QED BY <1>1, <1>5 DEF StoredUpTo, Accepted

\* "The cursor only reflects batches the platform accepted": whatever the
\* committed cursor lies behind or at is stored in the bucket the row names or in
\* a batch that will be, through retries, late requests, cursor updates that fail
\* to commit, crashes of the server, restarts and changes of bucket, for every
\* feed and page length, if the remote server sends the date header, no two
\* objects have one date, a submission commits before the thread's next call, and
\* a registration does or the collector never changes its bucket.  The code
\* guarantees none of the four; without any one of them TLC finds that it fails.
THEOREM NothingSkipped ==
    ASSUME HasHeader, ~SameDates, "submit" \in Prompt, TargetSettled PROVE Spec => []NoSkip
  BY CollectorInvariant, InvSkipsNothing, PTL

=============================================================================

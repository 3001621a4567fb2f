--------------------------- MODULE Exchange_proofs ---------------------------
(***************************************************************************)
(* Proofs about the TAXII routes: the administrators' half of the system   *)
(* is the one of Users, the pool is never overdrawn, and a client that     *)
(* follows the pages to the end misses nothing.                            *)
(***************************************************************************)
EXTENDS Exchange, Users_proofs, Induction, FiniteSetTheorems

USE ActorsAssumption

-----------------------------------------------------------------------------
(* The administrators do not notice the clients.                             *)

LEMMA AdminsApart == [Next]_vars => [UsersNext]_adminVars
<1>1. ASSUME NEW r \in Readers, AskPage(r) PROVE UNCHANGED adminVars
  BY <1>1 DEF AskPage, Send
<1>2. ASSUME NEW w \in Writers, AskAdd(w) PROVE UNCHANGED adminVars
  BY <1>2 DEF AskAdd, Send
<1>3. ASSUME NEW c \in Clients, Serve(c) \/ Fail(c) PROVE UNCHANGED adminVars
  BY <1>3 DEF Serve, Fail, Authenticate, PoolTimeout, ReadPage, LookupRefs, AddEntities,
     Commit
<1>4. ASSUME NEW a \in Admins, Administer(a) PROVE UsersNext
  BY <1>4 DEF Administer, UsersNext
<1>5. UNCHANGED vars => UNCHANGED adminVars
  BY DEF vars
<1> QED
  BY <1>1, <1>2, <1>3, <1>4, <1>5 DEF Next

LEMMA ContainsUsers == Spec => UsersSpec
<1>1. Init => InitUsers
  BY DEF Init
<1> QED
  BY <1>1, AdminsApart, PTL DEF Spec, UsersSpec

\* Among TAXII clients, too, what an administrator has been told stays true
\* until it is committed.
THEOREM AnswersAmongClients == Spec => []AnswersHold
BY ContainsUsers, AnswersCorrect, PTL

\* Among TAXII clients, too, the handlers implement the directory.
THEOREM DirectoryAmongClients == Spec => ImplementsDirectory
BY ContainsUsers, DirectoryCorrect, PTL

-----------------------------------------------------------------------------
(* The connection pool                                                       *)

Working == {a \in Admins : stage[a] # "idle"}
OneHeld == {c \in Clients : pc[c] = "bucket"}
TwoHeld == {c \in Clients : pc[c] \in {"ingest", "open"}}

PoolKept ==
    /\ pc \in [Clients -> {"idle", "auth", "bucket", "ingest", "open"}]
    /\ stage \in [Admins -> {"idle", "looked", "answered"}]
    /\ capacity \in Nat
    /\ InUse <= capacity

LEMMA Counted ==
    /\ IsFiniteSet(Working) /\ IsFiniteSet(OneHeld) /\ IsFiniteSet(TwoHeld)
    /\ InUse = Cardinality(Working) + Cardinality(OneHeld) + 2 * Cardinality(TwoHeld)
    /\ Cardinality(Working) \in Nat /\ Cardinality(OneHeld) \in Nat
    /\ Cardinality(TwoHeld) \in Nat
BY FS_Subset, FS_CardinalityType DEF Working, OneHeld, TwoHeld, InUse

LEMMA CountedNext ==
    /\ IsFiniteSet(Working') /\ IsFiniteSet(OneHeld') /\ IsFiniteSet(TwoHeld')
    /\ InUse' = Cardinality(Working') + Cardinality(OneHeld') + 2 * Cardinality(TwoHeld')
    /\ Cardinality(Working') \in Nat /\ Cardinality(OneHeld') \in Nat
    /\ Cardinality(TwoHeld') \in Nat
BY FS_Subset, FS_CardinalityType DEF Working, OneHeld, TwoHeld, InUse

\* A step that gives connections back, or takes none.
LEMMA PoolReleased ==
  ASSUME PoolKept, UNCHANGED capacity,
         Working' \subseteq Working, OneHeld' \subseteq OneHeld, TwoHeld' \subseteq TwoHeld
  PROVE  InUse' <= capacity'
<1>1. /\ Cardinality(Working') <= Cardinality(Working)
      /\ Cardinality(OneHeld') <= Cardinality(OneHeld)
      /\ Cardinality(TwoHeld') <= Cardinality(TwoHeld)
  BY Counted, FS_Subset
<1> QED
  BY <1>1, Counted, CountedNext DEF PoolKept

\* A request that authenticates takes its first connection.
LEMMA PoolFirst ==
  ASSUME PoolKept, Available, UNCHANGED <<capacity, stage>>,
         NEW c \in Clients, pc[c] = "auth", pc' = [pc EXCEPT ![c] = "bucket"]
  PROVE  InUse' <= capacity'
<1>1. Working' = Working /\ OneHeld' = OneHeld \cup {c} /\ TwoHeld' = TwoHeld /\ c \notin OneHeld
  BY DEF PoolKept, Working, OneHeld, TwoHeld
<1> QED
  BY <1>1, Counted, CountedNext, FS_AddElement DEF PoolKept, Available

\* A request that looks at its bucket takes its second one.
LEMMA PoolSecond ==
  ASSUME PoolKept, Available, UNCHANGED <<capacity, stage>>,
         NEW c \in Clients, pc[c] = "bucket",
         NEW to \in {"ingest", "open"}, pc' = [pc EXCEPT ![c] = to]
  PROVE  InUse' <= capacity'
<1>1. /\ Working' = Working /\ OneHeld' = OneHeld \ {c} /\ TwoHeld' = TwoHeld \cup {c}
      /\ c \in OneHeld /\ c \notin TwoHeld
  BY DEF PoolKept, Working, OneHeld, TwoHeld
<1>2. Cardinality(OneHeld') = Cardinality(OneHeld) - 1
  BY <1>1, Counted, FS_RemoveElement
<1>3. Cardinality(TwoHeld') = Cardinality(TwoHeld) + 1
  BY <1>1, Counted, FS_AddElement
<1> QED
  BY <1>1, <1>2, <1>3, Counted, CountedNext DEF PoolKept, Available

LEMMA PoolAdmin ==
  ASSUME PoolKept, NEW a \in Admins, Administer(a)
  PROVE  PoolKept'
<1>1. PICK to \in {"idle", "looked", "answered"} :
        stage' = [stage EXCEPT ![a] = to] /\ (stage[a] = "idle" => Available)
  BY DEF Administer, AdminStep, Lookup, Begin, Insert, Update, Delete, Answer, Overtaken,
     CommitUser, Abort, Finish
<1>2. UNCHANGED <<pc, capacity>>
  BY DEF Administer, exchangeVars
<1>3. OneHeld' = OneHeld /\ TwoHeld' = TwoHeld
  BY <1>2 DEF OneHeld, TwoHeld
<1>4. CASE stage[a] # "idle"
  <2>1. Working' \subseteq Working
    BY <1>1, <1>4 DEF PoolKept, Working
  <2> QED
    BY <1>1, <1>2, <1>3, <2>1, PoolReleased DEF PoolKept
<1>5. CASE stage[a] = "idle"
  <2>1. Working' \subseteq Working \cup {a} /\ a \notin Working
    BY <1>1, <1>5 DEF PoolKept, Working
  <2>2. Cardinality(Working') <= Cardinality(Working) + 1
    <3>1. /\ IsFiniteSet(Working \cup {a})
          /\ Cardinality(Working \cup {a}) = Cardinality(Working) + 1
      BY <2>1, Counted, FS_AddElement
    <3> QED
      BY <2>1, <3>1, FS_Subset
  <2>3. InUse' <= capacity'
    BY <1>1, <1>2, <1>3, <1>5, <2>2, Counted, CountedNext DEF PoolKept, Available
  <2> QED
    BY <1>1, <1>2, <2>3 DEF PoolKept
<1> QED
  BY <1>4, <1>5

LEMMA PoolStep == PoolKept /\ [Next]_vars => PoolKept'
<1> SUFFICES ASSUME PoolKept, [Next]_vars PROVE PoolKept'
  OBVIOUS
<1>1. ASSUME NEW r \in Readers, AskPage(r) PROVE PoolKept'
  <2>1. pc' = [pc EXCEPT ![r] = "auth"] /\ pc[r] = "idle" /\ UNCHANGED <<stage, capacity>>
    BY <1>1 DEF AskPage, Send, adminVars
  <2>2. Working' = Working /\ OneHeld' = OneHeld /\ TwoHeld' = TwoHeld
    BY <2>1 DEF PoolKept, Working, OneHeld, TwoHeld
  <2> QED
    BY <2>1, <2>2, PoolReleased DEF PoolKept, Clients
<1>2. ASSUME NEW w \in Writers, AskAdd(w) PROVE PoolKept'
  <2>1. pc' = [pc EXCEPT ![w] = "auth"] /\ pc[w] = "idle" /\ UNCHANGED <<stage, capacity>>
    BY <1>2 DEF AskAdd, Send, adminVars
  <2>2. Working' = Working /\ OneHeld' = OneHeld /\ TwoHeld' = TwoHeld
    BY <2>1 DEF PoolKept, Working, OneHeld, TwoHeld
  <2> QED
    BY <2>1, <2>2, PoolReleased DEF PoolKept, Clients
<1>3. ASSUME NEW c \in Clients, UNCHANGED <<stage, capacity>>, End(c) PROVE PoolKept'
  <2>1. pc' = [pc EXCEPT ![c] = "idle"]
    BY <1>3 DEF End
  <2>2. Working' = Working /\ OneHeld' \subseteq OneHeld /\ TwoHeld' \subseteq TwoHeld
    BY <1>3, <2>1 DEF PoolKept, Working, OneHeld, TwoHeld
  <2> QED
    BY <1>3, <2>1, <2>2, PoolReleased DEF PoolKept
<1>4. ASSUME NEW c \in Clients, Serve(c) \/ Fail(c) PROVE PoolKept'
  <2>1. UNCHANGED <<stage, capacity>>
    BY <1>4 DEF Serve, Fail, Authenticate, PoolTimeout, ReadPage, LookupRefs, AddEntities,
       Commit, adminVars
  <2>2. CASE PoolTimeout(c) \/ Commit(c) \/ Fail(c)
    BY <1>3, <2>1, <2>2 DEF PoolTimeout, Commit, Fail
  <2>3. CASE Authenticate(c)
    BY <1>3, <2>1, <2>3, PoolFirst DEF Authenticate, PoolKept
  <2>4. CASE ReadPage(c) \/ LookupRefs(c)
    BY <2>1, <2>4, PoolSecond DEF ReadPage, LookupRefs, PoolKept
  <2>5. CASE AddEntities(c)
    <3>1. pc' = [pc EXCEPT ![c] = "open"] /\ pc[c] = "ingest"
      BY <2>5 DEF AddEntities
    <3>2. Working' = Working /\ OneHeld' = OneHeld /\ TwoHeld' = TwoHeld
      BY <2>1, <3>1 DEF PoolKept, Working, OneHeld, TwoHeld
    <3> QED
      BY <2>1, <3>1, <3>2, PoolReleased DEF PoolKept
  <2> QED
    BY <1>4, <2>2, <2>3, <2>4, <2>5 DEF Serve
<1>5. CASE UNCHANGED vars
  BY <1>5 DEF vars, adminVars, exchangeVars, PoolKept, InUse
<1> QED
  BY <1>1, <1>2, <1>4, <1>5, PoolAdmin DEF Next

LEMMA PoolInit == Init => PoolKept
<1> SUFFICES ASSUME Init PROVE PoolKept
  OBVIOUS
<1>1. Working = {} /\ OneHeld = {} /\ TwoHeld = {}
  BY DEF Init, InitUsers, Working, OneHeld, TwoHeld
<1>2. capacity \in Nat
  BY CapacitiesAssumption DEF Init, InitUsers
<1> QED
  BY <1>1, <1>2, Counted, FS_EmptySet DEF Init, InitUsers, PoolKept

-----------------------------------------------------------------------------
(* What a request asks for                                                   *)

WriterCall(w) ==
    /\ call[w] = [collection |-> call[w].collection, batch |-> call[w].batch,
                  found |-> call[w].found, known |-> call[w].known]
    /\ call[w].batch \in Batches

CallsKept ==
    /\ pc \in [Clients -> {"idle", "auth", "bucket", "ingest", "open"}]
    /\ call = [c \in Clients |-> call[c]]
    /\ \A c \in Clients : pc[c] # "idle" => call[c].collection \in DOMAIN Collections
    /\ \A r \in Readers : pc[r] # "idle" => call[r].limit \in Limits
    /\ \A w \in Writers : pc[w] # "idle" => WriterCall(w)

LEMMA CallsStep == CallsKept /\ [Next]_vars => CallsKept'
<1> SUFFICES ASSUME CallsKept, [Next]_vars PROVE CallsKept'
  OBVIOUS
<1> USE DEF CallsKept, WriterCall, Clients
<1>0. ASSUME NEW c \in Clients, NEW request, Send(c, request),
             request.collection \in DOMAIN Collections,
             c \in Readers => request.limit \in Limits,
             c \in Writers =>
               /\ request = [collection |-> request.collection, batch |-> request.batch,
                             found |-> request.found, known |-> request.known]
               /\ request.batch \in Batches
      PROVE  CallsKept'
  <2>1. /\ pc' = [pc EXCEPT ![c] = "auth"] /\ call' = [call EXCEPT ![c] = request]
    BY <1>0 DEF Send
  <2>2. call'[c] = request /\ \A d \in Clients \ {c} : call'[d] = call[d] /\ pc'[d] = pc[d]
    BY <2>1
  <2>3. \A d \in Writers \ {c} : WriterCall(d) => WriterCall(d)'
    BY <2>2
  <2>4. c \in Writers => WriterCall(c)'
    BY <1>0, <2>2
  <2> QED
    BY <1>0, <2>1, <2>2, <2>3, <2>4
<1>1. ASSUME NEW r \in Readers, AskPage(r) PROVE CallsKept'
  <2>1. PICK limit \in Limits, c \in DOMAIN Collections :
          Send(r, [collection |-> c, limit |-> limit])
    BY <1>1 DEF AskPage
  <2> QED
    BY <1>0, <2>1
<1>2. ASSUME NEW w \in Writers, AskAdd(w) PROVE CallsKept'
  BY <1>0, <1>2 DEF AskAdd
<1>3. ASSUME NEW c \in Clients, End(c) PROVE CallsKept'
  BY <1>3 DEF End
<1>4. ASSUME NEW c \in Clients, pc[c] # "idle", UNCHANGED call,
             NEW to \in {"bucket", "open"}, pc' = [pc EXCEPT ![c] = to]
      PROVE  CallsKept'
  BY <1>4
<1>5. ASSUME NEW w \in Writers, LookupRefs(w) PROVE CallsKept'
  <2>1. /\ pc' = [pc EXCEPT ![w] = "ingest"] /\ WriterCall(w) /\ pc[w] # "idle"
        /\ call[w].collection \in DOMAIN Collections
    BY <1>5 DEF LookupRefs
  <2>2. PICK found, known : call' = [call EXCEPT ![w].found = found, ![w].known = known]
    BY <1>5 DEF LookupRefs
  <2>3. \A c \in Clients \ {w} : call'[c] = call[c] /\ pc'[c] = pc[c]
    BY <2>1, <2>2
  <2>4. /\ call'[w].collection = call[w].collection
        /\ WriterCall(w)'
    BY <2>1, <2>2
  <2>5. \A d \in Writers \ {w} : WriterCall(d) => WriterCall(d)'
    BY <2>3
  <2>6. \A c \in Clients : pc'[c] # "idle" => call'[c].collection \in DOMAIN Collections
    BY <2>1, <2>3, <2>4
  <2>7. \A r \in Readers : pc'[r] # "idle" => call'[r].limit \in Limits
    BY <1>5, <2>3
  <2>8. \A d \in Writers : pc'[d] # "idle" => WriterCall(d)'
    BY <2>3, <2>4, <2>5
  <2>9. /\ pc' \in [Clients -> {"idle", "auth", "bucket", "ingest", "open"}]
        /\ call' = [c \in Clients |-> call'[c]]
    BY <2>1, <2>2
  <2> QED
    BY <2>6, <2>7, <2>8, <2>9
<1>6. ASSUME NEW c \in Clients, Serve(c) \/ Fail(c) PROVE CallsKept'
  <2>1. CASE PoolTimeout(c) \/ Commit(c) \/ Fail(c)
    BY <1>3, <2>1 DEF PoolTimeout, Commit, Fail
  <2>2. CASE Authenticate(c)
    BY <1>3, <1>4, <2>2 DEF Authenticate
  <2>3. CASE ReadPage(c)
    BY <1>4, <2>3 DEF ReadPage
  <2>4. CASE LookupRefs(c)
    BY <1>5, <2>4 DEF LookupRefs
  <2>5. CASE AddEntities(c)
    BY <1>4, <2>5 DEF AddEntities
  <2> QED
    BY <1>6, <2>1, <2>2, <2>3, <2>4, <2>5 DEF Serve
<1>7. ASSUME NEW a \in Admins, Administer(a) PROVE CallsKept'
  BY <1>7 DEF Administer, exchangeVars
<1>8. CASE UNCHANGED vars
  BY <1>8 DEF vars, exchangeVars
<1> QED
  BY <1>1, <1>2, <1>6, <1>7, <1>8 DEF Next

-----------------------------------------------------------------------------
(* The rows: ids are given once, and belong to one transaction.              *)

TablesKept ==
    /\ nextRow \in Nat \ {0}
    /\ IsTable(rows)
    /\ ins = [c \in Clients |-> ins[c]]
    /\ \A c \in Clients : IsTable(ins[c])
    /\ \A c \in Clients : DOMAIN ins[c] \cap DOMAIN rows = {}
    /\ \A c, d \in Clients : c # d => DOMAIN ins[c] \cap DOMAIN ins[d] = {}

\* A transaction that ends without a trace.
LEMMA TablesEnd ==
  ASSUME TablesKept, NEW c \in Clients, End(c), UNCHANGED <<rows, nextRow>>
  PROVE  TablesKept'
<1>1. /\ \A d \in Clients \ {c} : ins'[d] = ins[d]
      /\ ins'[c] = NoRows /\ DOMAIN ins'[c] = {} /\ ins' = [d \in Clients |-> ins'[d]]
  BY DEF End, TablesKept, NoRows
<1>2. IsTable(ins[c])'
  BY <1>1 DEF IsTable, NoRows
<1> QED
  BY <1>1, <1>2 DEF TablesKept, IsTable

LEMMA TablesAdd ==
  ASSUME TablesKept, CallsKept, NEW w \in Writers, AddEntities(w)
  PROVE  TablesKept'
<1> DEFINE n == Cardinality(Valid(call[w].batch))
<1>1. n \in Nat
  <2>1. Len(call[w].batch) \in Nat
    BY BatchesAssumption DEF AddEntities, CallsKept, WriterCall, Clients
  <2>2. Valid(call[w].batch) \subseteq 1..Len(call[w].batch)
    BY DEF Valid
  <2>3. IsFiniteSet(1..Len(call[w].batch))
    BY <2>1, FS_Interval
  <2>4. IsFiniteSet(Valid(call[w].batch))
    BY <2>2, <2>3, FS_Subset
  <2> QED
    BY <2>4, FS_CardinalityType
<1>2. /\ nextRow' = nextRow + n /\ UNCHANGED rows
      /\ ins' = [c \in Clients |-> ins'[c]]
      /\ \A d \in Clients \ {w} : ins'[d] = ins[d]
  BY DEF AddEntities, TablesKept
<1>3. /\ DOMAIN ins'[w] = nextRow .. (nextRow + n - 1)
      /\ ins'[w] = [i \in DOMAIN ins'[w] |-> ins'[w][i]]
  BY DEF AddEntities, TablesKept, Clients
<1>4. ASSUME NEW i \in DOMAIN ins'[w] PROVE ins'[w][i].bucket \in Buckets
  <2>1. BucketOf(w) \in Buckets
    BY CollectionsAssumption DEF AddEntities, CallsKept, BucketOf, Clients
  <2>2. \A m : EntityRow(w, m).bucket = BucketOf(w)
    BY DEF EntityRow
  <2>3. PICK m : ins'[w][i] = EntityRow(w, m)
    BY <1>3 DEF AddEntities, TablesKept, Clients
  <2> QED
    BY <2>1, <2>2, <2>3
<1>5. IsTable(ins[w])'
  BY <1>1, <1>2, <1>3, <1>4 DEF IsTable, TablesKept
<1>6. IsTable(rows)' /\ \A d \in Clients \ {w} : IsTable(ins[d])'
  BY <1>1, <1>2 DEF IsTable, TablesKept
<1>7. /\ DOMAIN ins'[w] \cap DOMAIN rows = {}
      /\ \A d \in Clients : DOMAIN ins'[w] \cap DOMAIN ins[d] = {}
  BY <1>1, <1>3 DEF IsTable, TablesKept
<1> QED
  BY <1>1, <1>2, <1>5, <1>6, <1>7 DEF TablesKept

\* A commit adds the rows of its transaction and leaves the others as they are.
LEMMA Committed ==
  ASSUME TablesKept, NEW c \in Clients, Commit(c)
  PROVE  /\ DOMAIN rows' = DOMAIN rows \cup DOMAIN ins[c]
         /\ \A i \in DOMAIN rows : rows'[i] = rows[i]
         /\ \A i \in DOMAIN ins[c] : rows'[i] = ins[c][i]
         /\ TablesKept'
<1>1. /\ DOMAIN rows' = DOMAIN rows \cup DOMAIN ins[c]
      /\ \A i \in DOMAIN rows : rows'[i] = rows[i]
      /\ \A i \in DOMAIN ins[c] : rows'[i] = ins[c][i]
      /\ rows' = [i \in DOMAIN rows' |-> rows'[i]]
      /\ UNCHANGED nextRow
  BY DEF Commit, TablesKept
<1>2. /\ \A d \in Clients \ {c} : ins'[d] = ins[d]
      /\ ins'[c] = NoRows /\ DOMAIN ins'[c] = {} /\ ins' = [d \in Clients |-> ins'[d]]
  BY DEF Commit, End, TablesKept, NoRows
<1>3. IsTable(rows)'
  BY <1>1 DEF TablesKept, IsTable
<1>4. IsTable(ins[c])'
  BY <1>2 DEF IsTable, NoRows
<1>5. \A d \in Clients \ {c} : IsTable(ins[d])' /\ DOMAIN ins'[d] \cap DOMAIN rows' = {}
  BY <1>1, <1>2 DEF TablesKept, IsTable
<1>6. TablesKept'
  BY <1>1, <1>2, <1>3, <1>4, <1>5 DEF TablesKept
<1> QED
  BY <1>1, <1>6

LEMMA TablesStep == TablesKept /\ CallsKept /\ [Next]_vars => TablesKept'
<1> SUFFICES ASSUME TablesKept, CallsKept, [Next]_vars PROVE TablesKept'
  OBVIOUS
<1>1. ASSUME UNCHANGED <<rows, nextRow, ins>> PROVE TablesKept'
  BY <1>1 DEF TablesKept, IsTable
<1>2. ASSUME NEW r \in Readers, AskPage(r) PROVE TablesKept'
  BY <1>1, <1>2 DEF AskPage, Send
<1>3. ASSUME NEW w \in Writers, AskAdd(w) PROVE TablesKept'
  BY <1>1, <1>3 DEF AskAdd, Send
<1>4. ASSUME NEW c \in Clients, Serve(c) \/ Fail(c) PROVE TablesKept'
  <2>1. CASE PoolTimeout(c) \/ Fail(c)
    BY <2>1, TablesEnd DEF PoolTimeout, Fail
  <2>2. CASE Authenticate(c)
    BY <1>1, <2>2, TablesEnd DEF Authenticate
  <2>3. CASE ReadPage(c) \/ LookupRefs(c)
    BY <1>1, <2>3 DEF ReadPage, LookupRefs
  <2>4. CASE AddEntities(c)
    BY <2>4, TablesAdd DEF AddEntities
  <2>5. CASE Commit(c)
    BY <2>5, Committed
  <2> QED
    BY <1>4, <2>1, <2>2, <2>3, <2>4, <2>5 DEF Serve
<1>5. ASSUME NEW a \in Admins, Administer(a) PROVE TablesKept'
  BY <1>1, <1>5 DEF Administer, exchangeVars
<1>6. CASE UNCHANGED vars
  BY <1>1, <1>6 DEF vars, exchangeVars
<1> QED
  BY <1>2, <1>3, <1>4, <1>5, <1>6 DEF Next

-----------------------------------------------------------------------------
(* Ranks                                                                     *)

Upto(b, i) == {j \in InBucket(b) : j <= i}

\* A row has a position, and the first one is 1.
LEMMA RankType ==
  ASSUME TablesKept, NEW b, NEW i \in InBucket(b)
  PROVE  Rank(b, i) \in Nat \ {0}
<1>1. IsFiniteSet(1..(nextRow - 1))
  BY FS_Interval DEF TablesKept
<1>2. Upto(b, i) \subseteq 1..(nextRow - 1) /\ i \in Upto(b, i)
  BY DEF Upto, InBucket, TablesKept, IsTable
<1>3. IsFiniteSet(Upto(b, i)) /\ Upto(b, i) # {}
  BY <1>1, <1>2, FS_Subset
<1> QED
  BY <1>3, FS_EmptySet, FS_CardinalityType DEF Upto, Rank

LEMMA RankTypeNext ==
  ASSUME TablesKept'
  PROVE  \A b : \A i \in InBucket(b)' : Rank(b, i)' \in Nat
<1> SUFFICES ASSUME NEW b, NEW i \in InBucket(b)' PROVE Rank(b, i)' \in Nat
  OBVIOUS
<1>1. IsFiniteSet(1..(nextRow' - 1))
  BY FS_Interval DEF TablesKept
<1>2. Upto(b, i)' \subseteq 1..(nextRow' - 1)
  BY DEF Upto, InBucket, TablesKept, IsTable
<1>3. IsFiniteSet(Upto(b, i)')
  BY <1>1, <1>2, FS_Subset
<1> QED
  BY <1>3, FS_CardinalityType DEF Upto, Rank

\* Rows move back only, and one moves only if a row is committed before it.
LEMMA RankGrows ==
  ASSUME TablesKept, NEW c \in Clients, Commit(c), NEW b, NEW i \in InBucket(b)
  PROVE  /\ i \in InBucket(b)'
         /\ Rank(b, i) <= Rank(b, i)'
         /\ (\A k \in DOMAIN ins[c] : ins[c][k].bucket = b => ~(k < i))
              => Rank(b, i)' = Rank(b, i)
<1>1. InBucket(b) \subseteq InBucket(b)' /\ TablesKept'
  BY Committed DEF InBucket
<1>2. IsFiniteSet(1..(nextRow' - 1))
  BY <1>1, FS_Interval DEF TablesKept
<1>3. Upto(b, i)' \subseteq 1..(nextRow' - 1)
  BY <1>1 DEF Upto, InBucket, TablesKept, IsTable
<1>4. IsFiniteSet(Upto(b, i)') /\ Upto(b, i) \subseteq Upto(b, i)'
  BY <1>1, <1>2, <1>3, FS_Subset DEF Upto
<1>5. Rank(b, i) <= Rank(b, i)'
  BY <1>4, FS_Subset DEF Upto, Rank
<1>6. ASSUME \A k \in DOMAIN ins[c] : ins[c][k].bucket = b => ~(k < i)
      PROVE  Rank(b, i)' = Rank(b, i)
  <2>1. ASSUME NEW k \in Upto(b, i)' PROVE k \in Upto(b, i)
    <3>1. k \in DOMAIN rows' /\ rows'[k].bucket = b /\ k <= i
      BY <2>1 DEF Upto, InBucket
    <3>2. CASE k \in DOMAIN rows
      BY <3>1, <3>2, Committed DEF Upto, InBucket
    <3>3. CASE k \in DOMAIN ins[c]
      <4>1. ins[c][k].bucket = b
        BY <3>1, <3>3, Committed
      <4>2. k \in Nat /\ i \in Nat /\ ~(k < i)
        BY <1>6, <3>3, <4>1 DEF TablesKept, IsTable, InBucket
      <4>3. k = i
        BY <3>1, <4>2
      <4> QED
        BY <3>3, <4>3 DEF TablesKept, InBucket
    <3> QED
      BY <3>1, <3>2, <3>3, Committed
  <2>2. Upto(b, i)' = Upto(b, i)
    BY <1>4, <2>1
  <2> QED
    BY <2>2 DEF Upto, Rank
<1> QED
  BY <1>1, <1>5, <1>6

-----------------------------------------------------------------------------
(* Traversals                                                                *)

Source(r) == Collections[trip[r].collection].bucket

\* What a reader has received covers its cursor, and as long as no row was
\* committed late, does not go beyond it.
TripKept(r) ==
    /\ trip[r] \in Trip
    /\ trip[r].state = "new" => trip[r].got = {}
    /\ trip[r].state = "done" => trip[r].begin \subseteq trip[r].got
    /\ trip[r].state = "reading" =>
         /\ trip[r].collection \in DOMAIN Collections
         /\ trip[r].begin \subseteq InBucket(Source(r))
         /\ trip[r].got \subseteq InBucket(Source(r))
         /\ \A i \in trip[r].begin : Rank(Source(r), i) <= trip[r].offset => i \in trip[r].got
         /\ ~trip[r].late => \A i \in trip[r].got : Rank(Source(r), i) <= trip[r].offset

\* The request of a reader goes on with the traversal it has begun.
TripAsked(r) ==
    pc[r] \in {"auth", "bucket"} =>
      /\ trip[r].state # "done"
      /\ trip[r].state = "reading" => call[r].collection = trip[r].collection

TripsKept ==
    /\ trip = [r \in Readers |-> trip[r]]
    /\ \A r \in Readers : TripKept(r) /\ TripAsked(r)

\* A page: the cursor moves over the rows it returns.
LEMMA Turning ==
  ASSUME TripsKept, TablesKept, CallsKept, UNCHANGED rows,
         NEW r \in Readers, pc[r] = "bucket", trip' = [trip EXCEPT ![r] = Turned(r)]
  PROVE  TripKept(r)'
<1> DEFINE b == BucketOf(r)
           limit == call[r].limit
           begun == IF trip[r].state = "new"
                    THEN [state |-> "reading", collection |-> call[r].collection,
                          offset |-> 0, got |-> {}, begin |-> InBucket(b), late |-> FALSE]
                    ELSE trip[r]
           new == trip'[r]
<1>1. /\ limit \in Nat \ {0} /\ call[r].collection \in DOMAIN Collections
      /\ trip[r].state # "done" /\ trip[r] \in Trip
      /\ trip[r].state = "reading" => call[r].collection = trip[r].collection
  BY LimitsAssumption DEF CallsKept, TripsKept, TripKept, TripAsked, Clients
<1>2. InBucket(b) \in SUBSET Nat /\ \A i \in InBucket(b) : Rank(b, i) \in Nat \ {0}
  BY RankType DEF InBucket, TablesKept, IsTable
<1>3. /\ begun \in Trip /\ begun.state = "reading" /\ begun.collection = call[r].collection
      /\ begun.begin \subseteq InBucket(b) /\ begun.got \subseteq InBucket(b)
      /\ \A i \in begun.begin : Rank(b, i) <= begun.offset => i \in begun.got
      /\ ~begun.late => \A i \in begun.got : Rank(b, i) <= begun.offset
  <2>1. CASE trip[r].state = "new"
    BY <1>1, <1>2, <2>1 DEF Trip
  <2>2. CASE trip[r].state = "reading"
    BY <1>1, <2>2 DEF TripsKept, TripKept, Source, BucketOf
  <2> QED
    BY <1>1, <2>1, <2>2 DEF Trip
<1> HIDE DEF begun
<1>4. new = [state |-> IF More(b, begun.offset, limit) THEN "reading" ELSE "done",
             collection |-> begun.collection, offset |-> begun.offset + limit,
             got |-> begun.got \cup Page(b, begun.offset, limit),
             begin |-> begun.begin, late |-> begun.late]
  BY DEF Turned, TripsKept, NextOffset, begun
<1>5. /\ new.got = begun.got \cup Page(b, begun.offset, limit)
      /\ new.offset = begun.offset + limit
      /\ new.begin = begun.begin /\ new.late = begun.late
      /\ new.collection = begun.collection
      /\ new.state = IF More(b, begun.offset, limit) THEN "reading" ELSE "done"
  BY <1>4
<1>6. Page(b, begun.offset, limit) \subseteq InBucket(b)
  BY DEF Page
<1>7. new \in Trip
  BY <1>1, <1>2, <1>3, <1>4, <1>6 DEF Trip
<1>8. \A i \in new.begin : Rank(b, i) <= new.offset => i \in new.got
  BY <1>1, <1>2, <1>3, <1>5 DEF Page, Trip
<1>9. ~new.late => \A i \in new.got : Rank(b, i) <= new.offset
  <2> SUFFICES ASSUME ~new.late, NEW i \in new.got PROVE Rank(b, i) <= new.offset
    OBVIOUS
  <2>1. begun.offset \in Nat /\ i \in InBucket(b) /\ Rank(b, i) \in Nat
    BY <1>2, <1>3, <1>5, <1>6 DEF Trip
  <2>2. Rank(b, i) <= begun.offset \/ Rank(b, i) <= begun.offset + limit
    BY <1>3, <1>5 DEF Page
  <2> QED
    BY <1>1, <1>5, <2>1, <2>2
<1>10. new.state = "done" => new.begin \subseteq new.got
  <2> SUFFICES ASSUME ~More(b, begun.offset, limit), NEW i \in new.begin PROVE i \in new.got
    BY <1>5
  <2>1. i \in InBucket(b) /\ ~(Rank(b, i) > begun.offset + limit)
    BY <1>3, <1>5 DEF More
  <2> QED
    BY <1>1, <1>2, <1>3, <1>5, <1>8, <2>1 DEF Trip
<1>11. \A x : InBucket(x)' = InBucket(x) /\ \A i : Rank(x, i)' = Rank(x, i)
  BY DEF InBucket, Rank
<1>12. new.state = "reading" => Source(r)' = b
  BY <1>3, <1>5 DEF Source, BucketOf
<1> QED
  BY <1>1, <1>3, <1>5, <1>6, <1>7, <1>8, <1>9, <1>10, <1>11, <1>12 DEF TripKept

\* A commit in the middle of a traversal: a row that moves back over the cursor
\* has been received, and one that is committed before the cursor is noted.
LEMMA CommitTrip ==
  ASSUME TripsKept, TablesKept, NEW c \in Clients, Commit(c), NEW r \in Readers
  PROVE  TripKept(r)' /\ trip'[r] \in {trip[r], [trip[r] EXCEPT !.late = TRUE]}
<1>0. PICK b : b = Source(r)
  OBVIOUS
<1> DEFINE late == \E i \in DOMAIN ins[c], j \in trip[r].got :
             i < j /\ ins[c][i].bucket = b
<1>1. trip'[r] = IF trip[r].state = "reading" /\ late
                 THEN [trip[r] EXCEPT !.late = TRUE] ELSE trip[r]
  BY <1>0 DEF Commit, AfterCommit, Source
<1>2. trip[r] \in Trip /\ TripKept(r)
  BY DEF TripsKept, TripKept
<1>3. /\ trip'[r] \in Trip
      /\ trip'[r].state = trip[r].state /\ trip'[r].collection = trip[r].collection
      /\ trip'[r].offset = trip[r].offset /\ trip'[r].got = trip[r].got
      /\ trip'[r].begin = trip[r].begin
      /\ ~trip'[r].late => ~trip[r].late /\ (trip[r].state = "reading" => ~late)
  <2>1. CASE trip[r].state = "reading" /\ late
    <3>1. trip'[r] = [trip[r] EXCEPT !.late = TRUE]
      BY <1>1, <2>1
    <3> QED
      BY <1>2, <2>1, <3>1 DEF Trip
  <2>2. CASE ~(trip[r].state = "reading" /\ late)
    <3>1. trip'[r] = trip[r]
      BY <1>1, <2>2
    <3> QED
      BY <1>2, <2>2, <3>1
  <2> QED
    BY <2>1, <2>2
<1> HIDE DEF late
<1>a. /\ trip'[r].state = "new" => trip'[r].got = {}
      /\ trip'[r].state = "done" => trip'[r].begin \subseteq trip'[r].got
  BY <1>2, <1>3 DEF TripKept
<1>4. ASSUME trip[r].state # "reading" PROVE TripKept(r)'
  <2>1. trip'[r].state # "reading"
    BY <1>3, <1>4
  <2> QED
    BY <1>3, <1>a, <2>1 DEF TripKept
<1>5. ASSUME trip[r].state = "reading" PROVE TripKept(r)'
  <2>1. \A i \in InBucket(b) : i \in InBucket(b)' /\ Rank(b, i) <= Rank(b, i)'
    BY RankGrows
  <2>2. \A i \in InBucket(b) : Rank(b, i) \in Nat
    BY RankType
  <2>3. TablesKept' /\ Source(r)' = b
    BY <1>0, <1>3, Committed DEF Source
  <2>4. \A x : \A i \in InBucket(x)' : Rank(x, i)' \in Nat
    <3>1. TablesKept'
      BY <2>3
    <3> QED
      BY <3>1, RankTypeNext
  <2>5. /\ trip[r].begin \subseteq InBucket(b) /\ trip[r].got \subseteq InBucket(b)
        /\ trip[r].offset \in Nat /\ trip[r].collection \in DOMAIN Collections
        /\ \A i \in trip[r].begin : Rank(b, i) <= trip[r].offset => i \in trip[r].got
    BY <1>0, <1>2, <1>5 DEF TripKept, Trip
  <2>6. \A i \in trip[r].begin : Rank(b, i)' <= trip[r].offset => i \in trip[r].got
    BY <2>1, <2>2, <2>4, <2>5
  <2>7. ASSUME ~trip'[r].late, NEW i \in trip[r].got PROVE Rank(b, i)' <= trip[r].offset
    <3>1. ~trip[r].late /\ ~late
      BY <1>3, <1>5, <2>7
    <3>2. \A k \in DOMAIN ins[c] : ins[c][k].bucket = b => ~(k < i)
      BY <2>7, <3>1 DEF late
    <3>3. i \in InBucket(b) /\ Rank(b, i)' = Rank(b, i)
      BY <2>5, <3>2, RankGrows
    <3> QED
      BY <1>0, <1>2, <1>5, <3>1, <3>3 DEF TripKept
  <2> QED
    BY <1>3, <1>5, <1>a, <2>1, <2>3, <2>5, <2>6, <2>7 DEF TripKept
<1> QED
  BY <1>1, <1>4, <1>5

LEMMA TripsStep == TripsKept /\ TablesKept /\ CallsKept /\ [Next]_vars => TripsKept'
<1> SUFFICES ASSUME TripsKept, TablesKept, CallsKept, [Next]_vars PROVE TripsKept'
  OBVIOUS
<1>1. ASSUME UNCHANGED <<rows, trip>>, NEW r \in Readers PROVE TripKept(r)'
  BY <1>1 DEF TripsKept, TripKept, Source, InBucket, Rank
<1>2. ASSUME UNCHANGED <<rows, trip>>,
             \A r \in Readers :
               \/ pc'[r] \notin {"auth", "bucket"}
               \/ pc[r] \in {"auth", "bucket"} /\ call'[r] = call[r]
      PROVE  TripsKept'
  BY <1>1, <1>2 DEF TripsKept, TripAsked
<1>3. ASSUME NEW r \in Readers, AskPage(r) PROVE TripsKept'
  <2>1. PICK limit \in Limits, c \in DOMAIN Collections :
          /\ trip[r].state # "done"
          /\ trip[r].state = "reading" => c = trip[r].collection
          /\ Send(r, [collection |-> c, limit |-> limit])
    BY <1>3 DEF AskPage
  <2>2. /\ UNCHANGED <<rows, trip>> /\ call'[r].collection = c
        /\ \A s \in Readers \ {r} : pc'[s] = pc[s] /\ call'[s] = call[s]
    BY <2>1 DEF Send, CallsKept, Clients
  <2>3. \A s \in Readers : TripAsked(s)'
    BY <2>1, <2>2 DEF TripsKept, TripAsked
  <2> QED
    BY <1>1, <2>2, <2>3 DEF TripsKept
<1>4. ASSUME NEW w \in Writers, AskAdd(w) PROVE TripsKept'
  <2>1. \A s \in Readers : pc'[s] = pc[s] /\ call'[s] = call[s]
    BY <1>4 DEF AskAdd, Send, CallsKept, Clients
  <2>2. UNCHANGED <<rows, trip>>
    BY <1>4 DEF AskAdd, Send
  <2> QED
    BY <1>2, <2>1, <2>2
<1>5. ASSUME NEW c \in Clients, End(c), UNCHANGED <<rows, trip>> PROVE TripsKept'
  <2>1. \A s \in Readers : pc'[s] = "idle" \/ (pc'[s] = pc[s] /\ call'[s] = call[s])
    BY <1>5 DEF End, CallsKept, Clients
  <2> QED
    BY <1>2, <1>5, <2>1
<1>6. ASSUME NEW c \in Clients, Authenticate(c) PROVE TripsKept'
  <2>1. CASE End(c)
    BY <1>5, <1>6, <2>1 DEF Authenticate
  <2>2. CASE pc' = [pc EXCEPT ![c] = "bucket"] /\ UNCHANGED call
    <3>1. \A s \in Readers :
            pc'[s] = pc[s] \/ (pc[s] = "auth" /\ pc'[s] = "bucket")
      BY <1>6, <2>2 DEF Authenticate, CallsKept, Clients
    <3> QED
      BY <1>2, <1>6, <2>2, <3>1 DEF Authenticate
  <2> QED
    BY <1>6, <2>1, <2>2 DEF Authenticate
<1>7. ASSUME NEW c \in Clients, ReadPage(c) PROVE TripsKept'
  <2>1. /\ c \in Readers /\ pc[c] = "bucket" /\ UNCHANGED <<rows, call>>
        /\ \A s \in Readers \ {c} : pc'[s] = pc[s]
        /\ pc'[c] = "open"
    BY <1>7 DEF ReadPage, CallsKept, Clients
  <2>2. CASE UNCHANGED trip
    BY <1>2, <2>1, <2>2
  <2>3. CASE trip' = [trip EXCEPT ![c] = Turned(c)]
    <3>1. TripKept(c)'
      BY <2>1, <2>3, Turning
    <3>2. \A s \in Readers \ {c} : trip'[s] = trip[s]
      BY <2>3 DEF TripsKept
    <3>3. \A s \in Readers \ {c} : TripKept(s)'
      <4>1. \A x : InBucket(x)' = InBucket(x) /\ \A i : Rank(x, i)' = Rank(x, i)
        BY <2>1 DEF InBucket, Rank
      <4>2. \A s \in Readers \ {c} : Source(s)' = Source(s)
        BY <3>2 DEF Source
      <4> QED
        BY <3>2, <4>1, <4>2 DEF TripsKept, TripKept
    <3>4. \A s \in Readers : TripAsked(s)'
      BY <2>1, <3>2 DEF TripsKept, TripAsked
    <3>5. trip' = [s \in Readers |-> trip'[s]]
      BY <2>3 DEF TripsKept
    <3> QED
      BY <3>1, <3>3, <3>4, <3>5 DEF TripsKept
  <2> QED
    BY <1>7, <2>2, <2>3 DEF ReadPage
<1>8. ASSUME NEW c \in Clients, LookupRefs(c) \/ AddEntities(c) PROVE TripsKept'
  <2>1. c \in Writers /\ UNCHANGED <<rows, trip>>
    BY <1>8 DEF LookupRefs, AddEntities
  <2>2. \A s \in Readers : pc'[s] = pc[s] /\ call'[s] = call[s]
    BY <1>8, <2>1 DEF LookupRefs, AddEntities, CallsKept, Clients
  <2> QED
    BY <1>2, <2>1, <2>2
<1>9. ASSUME NEW c \in Clients, Commit(c) PROVE TripsKept'
  <2>1. \A s \in Readers :
          TripKept(s)' /\ trip'[s] \in {trip[s], [trip[s] EXCEPT !.late = TRUE]}
    BY <1>9, CommitTrip
  <2>2. \A s \in Readers : pc'[s] = "idle" \/ (pc'[s] = pc[s] /\ call'[s] = call[s])
    BY <1>9 DEF Commit, End, CallsKept, Clients
  <2>3. \A s \in Readers :
          trip'[s].state = trip[s].state /\ trip'[s].collection = trip[s].collection
    BY <2>1 DEF TripsKept, TripKept, Trip
  <2>4. \A s \in Readers : TripAsked(s)'
    BY <2>2, <2>3 DEF TripsKept, TripAsked
  <2>5. trip' = [s \in Readers |-> trip'[s]]
    BY <1>9 DEF Commit
  <2> QED
    BY <2>1, <2>4, <2>5 DEF TripsKept
<1>10. ASSUME NEW c \in Clients, Serve(c) \/ Fail(c) PROVE TripsKept'
  BY <1>5, <1>6, <1>7, <1>8, <1>9, <1>10 DEF Serve, Fail, PoolTimeout
<1>11. ASSUME UNCHANGED <<rows, trip, pc, call>> PROVE TripsKept'
  BY <1>2, <1>11
<1>12. ASSUME NEW a \in Admins, Administer(a) PROVE TripsKept'
  BY <1>11, <1>12 DEF Administer, exchangeVars
<1>13. CASE UNCHANGED vars
  BY <1>11, <1>13 DEF vars, exchangeVars
<1> QED
  BY <1>3, <1>4, <1>10, <1>12, <1>13 DEF Next

-----------------------------------------------------------------------------
(* What ingestion makes of the refs of a batch                               *)

LEMMA LastIn ==
  ASSUME NEW bound \in Nat, NEW S, S \subseteq 1..bound, S # {}
  PROVE  Last(S) \in S
<1>1. S \subseteq 0..bound
  OBVIOUS
<1>2. \E n \in S : \A m \in S : m <= n
  BY <1>1, GreatestNatural, Zenon
<1> QED
  BY <1>2, Zenon DEF Last

LEMMA FirstIn ==
  ASSUME NEW S, S \subseteq Nat, S # {}
  PROVE  First(S) \in S
<1>1. \E n \in S : \A m \in S : n <= m
  BY LeastNatural
<1> QED
  BY <1>1, Zenon DEF First

\* The refs of an object follow from those of the objects before it and of the
\* plain ones, and a plain object has none.
LEMMA ProcessedFollow ==
  ASSUME NEW batch, Len(batch) \in Nat, NEW found, NEW f, NEW g, NEW n \in 1..Len(batch),
         \A m \in 1..Len(batch) : m < n \/ batch[m].refs = <<>> => f[m] = g[m]
  PROVE  ProcessedRefs(batch, found, f, n) = ProcessedRefs(batch, found, g, n)
<1>1. ASSUME NEW x PROVE
        LET earlier == Names(batch, Referencing(batch) \cap (1..(n - 1)), x)
            plain   == Names(batch, Plain(batch), x)
        IN  /\ earlier # {} => f[Last(earlier)] = g[Last(earlier)]
            /\ plain # {} => f[Last(plain)] = g[Last(plain)]
  <2> DEFINE earlier == Names(batch, Referencing(batch) \cap (1..(n - 1)), x)
             plain   == Names(batch, Plain(batch), x)
  <2>1. earlier \subseteq 1..Len(batch) /\ \A m \in earlier : m < n
    BY DEF Names, Referencing
  <2>2. plain \subseteq 1..Len(batch) /\ \A m \in plain : batch[m].refs = <<>>
    BY DEF Names, Plain
  <2> HIDE DEF earlier, plain
  <2>3. earlier # {} => Last(earlier) \in earlier
    BY <2>1, LastIn
  <2>4. plain # {} => Last(plain) \in plain
    BY <2>2, LastIn
  <2>5. earlier # {} => f[Last(earlier)] = g[Last(earlier)]
    BY <2>1, <2>3
  <2>6. plain # {} => f[Last(plain)] = g[Last(plain)]
    BY <2>2, <2>4
  <2> QED
    BY <2>5, <2>6 DEF earlier, plain
<1> QED
  BY <1>1, Zenon DEF ProcessedRefs

LEMMA PlainHasNone ==
  ASSUME NEW batch, NEW found, NEW f, NEW g, NEW n, batch[n].refs = <<>>
  PROVE  ProcessedRefs(batch, found, f, n) = ProcessedRefs(batch, found, g, n)
<1>1. 1..Len(batch[n].refs) = {}
  OBVIOUS
<1> QED
  BY <1>1 DEF ProcessedRefs

\* The recursion of Rewritten is well-founded, for every batch.
LEMMA RewrittenIs ==
  ASSUME NEW batch, Len(batch) \in Nat, NEW found
  PROVE  Rewritten(batch, found) =
           [n \in 1..Len(batch) |->
              ProcessedRefs(batch, found, Rewritten(batch, found), n)]
<1> DEFINE new(f, n) == ProcessedRefs(batch, found, f, n)
           done(N, n) == n <= N \/ batch[n].refs = <<>>
           steps == {N \in Nat : \E f :
                       f = [n \in 1..Len(batch) |-> IF done(N, n) THEN new(f, n) ELSE <<>>]}
<1> HIDE DEF new
<1>1. ASSUME NEW f, NEW g, NEW n \in 1..Len(batch), batch[n].refs = <<>>
      PROVE  new(f, n) = new(g, n)
  BY <1>1, PlainHasNone DEF new
<1>2. 0 \in steps
  <2> DEFINE g == [n \in 1..Len(batch) |-> IF done(0, n) THEN new(<<>>, n) ELSE <<>>]
  <2>1. \A n \in 1..Len(batch) : done(0, n) => new(<<>>, n) = new(g, n)
    BY <1>1
  <2>2. g = [n \in 1..Len(batch) |-> IF done(0, n) THEN new(g, n) ELSE <<>>]
    BY <2>1
  <2> QED
    BY <2>2
<1>3. ASSUME NEW N \in Nat, N \in steps PROVE N + 1 \in steps
  <2>1. PICK f : f = [n \in 1..Len(batch) |-> IF done(N, n) THEN new(f, n) ELSE <<>>]
    BY <1>3
  <2> DEFINE g == [n \in 1..Len(batch) |-> IF done(N + 1, n) THEN new(f, n) ELSE <<>>]
  <2>2. ASSUME NEW m \in 1..Len(batch), done(N, m) PROVE f[m] = g[m]
    <3>1. f[m] = new(f, m)
      BY <2>1, <2>2
    <3> QED
      BY <2>2, <3>1
  <2> HIDE DEF g
  <2>3. ASSUME NEW n \in 1..Len(batch), done(N + 1, n) PROVE new(f, n) = new(g, n)
    <3>1. CASE batch[n].refs = <<>>
      BY <1>1, <3>1
    <3>2. CASE n <= N + 1
      <4>1. \A m \in 1..Len(batch) : m < n \/ batch[m].refs = <<>> => f[m] = g[m]
        BY <2>2, <3>2
      <4> QED
        BY <4>1, ProcessedFollow DEF new
    <3> QED
      BY <2>3, <3>1, <3>2
  <2>4. g = [n \in 1..Len(batch) |-> IF done(N + 1, n) THEN new(g, n) ELSE <<>>]
    BY <2>3 DEF g
  <2> QED
    BY <2>4
<1>4. Len(batch) \in steps
  <2> HIDE DEF steps
  <2> QED
    BY <1>2, <1>3, Induct
<1>5. PICK f : f = [n \in 1..Len(batch) |-> IF done(Len(batch), n) THEN new(f, n) ELSE <<>>]
  BY <1>4
<1>6. f = [n \in 1..Len(batch) |-> new(f, n)]
  BY <1>5
<1> QED
  BY <1>6 DEF Rewritten, new

\* A ref is replaced by the id of an object of the batch that is stored with it, or
\* by the one found in the bucket; it is left only if nothing was found and the
\* object has not been processed.
Replaced(batch, found, n, k) ==
    LET x    == batch[n].refs[k]
        refs == Rewritten(batch, found)
    IN  \/ \E m \in Valid(batch) :
             batch[m].id = x /\ refs[n][k] = PlatformId(batch[m].value, refs[m])
        \/ x \in DOMAIN found /\ refs[n][k] = found[x]
        \/ /\ refs[n][k] = x /\ x \notin DOMAIN found
           /\ x \notin Processed(batch, n) /\ Names(batch, Plain(batch), x) = {}

LEMMA RewrittenRefs ==
  ASSUME NEW batch, Len(batch) \in Nat, NEW found,
         NEW n \in 1..Len(batch), NEW k \in 1..Len(batch[n].refs)
  PROVE  Replaced(batch, found, n, k)
<1> DEFINE x       == batch[n].refs[k]
           refs    == Rewritten(batch, found)
           earlier == Names(batch, Referencing(batch) \cap (1..(n - 1)), x)
           plain   == Names(batch, Plain(batch), x)
           id(m)   == PlatformId(batch[m].value, refs[m])
<1>1. refs[n] = ProcessedRefs(batch, found, refs, n)
  <2> HIDE DEF refs
  <2> QED
    BY RewrittenIs DEF refs
<1>2. refs[n][k] = IF earlier # {} THEN id(Last(earlier))
                   ELSE IF plain # {} THEN id(Last(plain))
                   ELSE IF x \in DOMAIN found THEN found[x]
                   ELSE x
  BY <1>1 DEF ProcessedRefs
<1>3. /\ earlier \subseteq 1..Len(batch) /\ earlier \subseteq Valid(batch)
      /\ \A m \in earlier : batch[m].id = x
      /\ plain \subseteq 1..Len(batch) /\ plain \subseteq Valid(batch)
      /\ \A m \in plain : batch[m].id = x
  BY DEF Names, Referencing, Plain, Valid
<1>6. earlier = {} /\ plain = {} => x \notin Processed(batch, n)
  BY DEF Processed, Names, Referencing, Plain, Valid
<1> HIDE DEF earlier, plain, refs, x
<1>4. (earlier # {} => Last(earlier) \in earlier) /\ (plain # {} => Last(plain) \in plain)
  BY <1>3, LastIn
<1>5. \/ \E m \in Valid(batch) : batch[m].id = x /\ refs[n][k] = id(m)
      \/ x \in DOMAIN found /\ refs[n][k] = found[x]
      \/ refs[n][k] = x /\ x \notin DOMAIN found /\ earlier = {} /\ plain = {}
  BY <1>2, <1>3, <1>4, Zenon
<1> QED
  BY <1>5, <1>6, Zenon DEF Replaced, plain, refs, x

\* The ids of a batch are given out one by one: each valid object gets a row, and
\* each row is one of a valid object.
LEMMA OneRowEach ==
  ASSUME NEW batch, Len(batch) \in Nat, NEW next \in Nat
  PROVE  LET valid == Valid(batch)
             at(i) == CHOOSE n \in valid : Cardinality({m \in valid : m < n}) = i - next
             given == next .. (next + Cardinality(valid) - 1)
         IN  /\ \A i \in given : at(i) \in valid
             /\ \A n \in valid : \E i \in given : at(i) = n
<1> DEFINE valid == Valid(batch)
           before(n) == {m \in valid : m < n}
           card == Cardinality(valid)
           rank == [n \in valid |-> Cardinality(before(n))]
           at(i) == CHOOSE n \in valid : Cardinality(before(n)) = i - next
<1>1. valid \subseteq 1..Len(batch) /\ IsFiniteSet(valid) /\ card \in Nat
  <2>1. valid \subseteq 1..Len(batch)
    BY DEF Valid
  <2>2. IsFiniteSet(1..Len(batch))
    BY FS_Interval
  <2> HIDE DEF valid
  <2> QED
    BY <2>1, <2>2, FS_Subset, FS_CardinalityType
<1> HIDE DEF valid
<1>2. \A n \in valid : IsFiniteSet(before(n)) /\ Cardinality(before(n)) \in Nat
  BY <1>1, FS_Subset, FS_CardinalityType
<1>3. ASSUME NEW n \in valid PROVE rank[n] \in 0..(card - 1)
  <2>1. before(n) \subseteq valid \ {n}
    BY <1>1
  <2>2. Cardinality(valid \ {n}) = card - 1 /\ IsFiniteSet(valid \ {n})
    BY <1>1, FS_RemoveElement
  <2>3. Cardinality(before(n)) <= card - 1
    BY <2>1, <2>2, FS_Subset
  <2> QED
    BY <1>1, <1>2, <2>3
<1>4. ASSUME NEW m \in valid, NEW n \in valid, m < n PROVE rank[m] < rank[n]
  <2>1. before(m) \cup {m} \subseteq before(n) /\ m \notin before(m)
    <3>1. \A k \in valid : k \in Int
      BY <1>1
    <3> QED
      BY <1>4, <3>1
  <2>2. Cardinality(before(m) \cup {m}) = Cardinality(before(m)) + 1
    BY <1>2, <2>1, FS_AddElement
  <2>3. Cardinality(before(m) \cup {m}) <= Cardinality(before(n))
    BY <1>2, <2>1, FS_Subset
  <2>4. Cardinality(before(m)) \in Nat /\ Cardinality(before(n)) \in Nat
    BY <1>2
  <2>5. Cardinality(before(m)) < Cardinality(before(n))
    BY <2>2, <2>3, <2>4
  <2> QED
    BY <2>5
<1>5. \A m, n \in valid : rank[m] = rank[n] => m = n
  <2> SUFFICES ASSUME NEW m \in valid, NEW n \in valid, m # n PROVE rank[m] # rank[n]
    OBVIOUS
  <2>1. m < n \/ n < m
    BY <1>1
  <2>2. rank[m] \in Nat /\ rank[n] \in Nat
    BY <1>2
  <2> HIDE DEF rank
  <2> QED
    BY <1>4, <2>1, <2>2
<1>6. rank \in Surjection(valid, 0..(card - 1))
  <2>1. rank \in Injection(valid, 0..(card - 1))
    <3>1. rank \in [valid -> 0..(card - 1)]
      BY <1>3
    <3> HIDE DEF rank
    <3> QED
      BY <1>5, <3>1 DEF Injection, IsInjective
  <2>2. IsFiniteSet(0..(card - 1)) /\ Cardinality(0..(card - 1)) = card
    <3>1. 0 \in Int /\ card - 1 \in Int
      BY <1>1
    <3>2. /\ IsFiniteSet(0..(card - 1))
          /\ Cardinality(0..(card - 1)) = IF 0 > card - 1 THEN 0 ELSE (card - 1) - 0 + 1
      BY <3>1, FS_Interval
    <3> HIDE DEF card
    <3> QED
      BY <1>1, <3>2
  <2> HIDE DEF rank
  <2> QED
    BY <2>1, <2>2, FS_Injection
<1>7. \A i \in next..(next + card - 1) : \E n \in valid : Cardinality(before(n)) = i - next
  <2> SUFFICES ASSUME NEW i \in next..(next + card - 1)
               PROVE  \E n \in valid : rank[n] = i - next
    OBVIOUS
  <2>1. i - next \in 0..(card - 1)
    BY <1>1
  <2> HIDE DEF rank
  <2> QED
    BY <1>6, <2>1 DEF Surjection
<1>8. \A i \in next..(next + card - 1) : at(i) \in valid
  BY <1>7
<1>9. ASSUME NEW n \in valid PROVE \E i \in next..(next + card - 1) : at(i) = n
  <2>1. next + rank[n] \in next..(next + card - 1)
    BY <1>1, <1>3
  <2>2. (next + rank[n]) - next = Cardinality(before(n))
    <3>1. rank[n] = Cardinality(before(n))
      OBVIOUS
    <3>2. Cardinality(before(n)) \in Nat
      BY <1>2, Zenon
    <3>3. \A q \in Nat : (next + q) - next = q
      OBVIOUS
    <3> HIDE DEF rank, before
    <3> QED
      BY <3>1, <3>2, <3>3
  <2>3. at(next + rank[n]) \in valid
        /\ Cardinality(before(at(next + rank[n]))) = Cardinality(before(n))
    BY <2>2
  <2>4. at(next + rank[n]) = n
    BY <1>5, <2>3
  <2> QED
    BY <2>1, <2>4
<1> QED
  BY <1>8, <1>9 DEF valid

-----------------------------------------------------------------------------
(* Refs                                                                      *)

Leads(s, r, k) == s.bucket = r.bucket /\ s.orig = r.raw[k] /\ r.refs[k] = s.id

LeftAsSent(r, k) == r.refs[k] = r.raw[k] /\ r.raw[k] \notin r.known

RowsResolve ==
    \A i \in DOMAIN rows : \A k \in 1..Len(rows[i].raw) :
      \/ \E j \in DOMAIN rows : Leads(rows[j], rows[i], k)
      \/ LeftAsSent(rows[i], k)

\* Rows that are not committed yet lead to committed ones, or to others of their
\* transaction.
InsResolve(c) ==
    \A i \in DOMAIN ins[c] : \A k \in 1..Len(ins[c][i].raw) :
      \/ \E j \in DOMAIN rows : Leads(rows[j], ins[c][i], k)
      \/ \E j \in DOMAIN ins[c] : Leads(ins[c][j], ins[c][i], k)
      \/ LeftAsSent(ins[c][i], k)

\* What was in the bucket at the look-up was found, and what was found stays.
FoundKept(w) ==
    pc[w] = "ingest" =>
      /\ \A x \in DOMAIN call[w].found :
           \E j \in Stored(BucketOf(w), x) : call[w].found[x] = rows[j].id
      /\ \A x \in call[w].known \cap Missing(call[w].batch) : x \in DOMAIN call[w].found

RefsKept ==
    /\ RowsResolve
    /\ \A c \in Clients : InsResolve(c)
    /\ \A w \in Writers : FoundKept(w)

\* A step that writes nothing, and concerns no request of a writer or ends it.
LEMMA RefsFrame ==
  ASSUME RefsKept, UNCHANGED rows,
         \A c \in Clients : ins'[c] \in {ins[c], NoRows},
         \A w \in Writers :
           \/ pc'[w] # "ingest"
           \/ call'[w] = call[w] /\ pc'[w] = pc[w]
  PROVE  RefsKept'
<1>1. RowsResolve'
  BY DEF RefsKept, RowsResolve
<1>2. ASSUME NEW c \in Clients PROVE InsResolve(c)'
  <2>1. CASE ins'[c] = ins[c]
    BY <2>1 DEF RefsKept, InsResolve
  <2>2. CASE ins'[c] = NoRows
    BY <2>2 DEF InsResolve, NoRows
  <2> QED
    BY <2>1, <2>2
<1>3. \A b, x : Stored(b, x)' = Stored(b, x)
  BY DEF Stored, InBucket
<1>4. ASSUME NEW w \in Writers PROVE FoundKept(w)'
  <2>1. CASE pc'[w] # "ingest"
    BY <2>1 DEF FoundKept
  <2>2. CASE call'[w] = call[w] /\ pc'[w] = pc[w]
    BY <1>3, <2>2 DEF RefsKept, FoundKept, BucketOf
  <2> QED
    BY <2>1, <2>2
<1> QED
  BY <1>1, <1>2, <1>4 DEF RefsKept

\* What the plain objects do not satisfy is looked up, and found if it is there.
LEMMA RefsLookup ==
  ASSUME RefsKept, CallsKept, TablesKept, NEW w \in Writers, LookupRefs(w)
  PROVE  RefsKept'
<1> DEFINE b == BucketOf(w)
           batch == call[w].batch
           found == ResolveStixIds(b, Missing(batch))
           known == {rows[i].orig : i \in InBucket(b)}
<1>1. /\ UNCHANGED <<rows, ins>> /\ pc[w] = "bucket" /\ pc'[w] = "ingest"
      /\ call' = [call EXCEPT ![w].found = found, ![w].known = known]
      /\ \A v \in Writers \ {w} : pc'[v] = pc[v]
  BY DEF LookupRefs, CallsKept, Clients
<1>2. /\ \A v \in Writers \ {w} : call'[v] = call[v]
      /\ call'[w].collection = call[w].collection /\ call'[w].batch = batch
      /\ call'[w].known = known /\ call'[w].found = found
  <2> HIDE DEF found, known
  <2>1. WriterCall(w) /\ call = [c \in Clients |-> call[c]]
    BY <1>1 DEF CallsKept, Clients
  <2> QED
    BY <1>1, <2>1 DEF WriterCall, Clients
<1>3. \A x \in DOMAIN found :
        \E j \in Stored(b, x) : found[x] = rows[j].id
  <2> SUFFICES ASSUME NEW x \in DOMAIN found PROVE \E j \in Stored(b, x) : found[x] = rows[j].id
    OBVIOUS
  <2>1. Stored(b, x) # {} /\ found[x] = rows[First(Stored(b, x))].id
    BY DEF ResolveStixIds
  <2>2. Stored(b, x) \subseteq Nat
    BY DEF Stored, InBucket, TablesKept, IsTable
  <2> HIDE DEF found
  <2> QED
    BY <2>1, <2>2, FirstIn
<1>4. \A x \in known \cap Missing(batch) : x \in DOMAIN found
  BY DEF ResolveStixIds, Stored
<1> HIDE DEF found, known
<1>5. \A x, y : Stored(x, y)' = Stored(x, y)
  BY <1>1 DEF Stored, InBucket
<1>6. RowsResolve' /\ \A d \in Clients : InsResolve(d)'
  BY <1>1 DEF RefsKept, RowsResolve, InsResolve
<1>7. BucketOf(w)' = b
  BY <1>2 DEF BucketOf
<1>8. FoundKept(w)'
  <2>1. \A x \in DOMAIN found : \E j \in Stored(b, x)' : found[x] = rows'[j].id
    BY <1>1, <1>3, <1>5, <1>7
  <2> QED
    BY <1>2, <1>4, <1>7, <2>1 DEF FoundKept
<1>9. ASSUME NEW v \in Writers \ {w} PROVE FoundKept(v)'
  <2>1. /\ call'[v] = call[v] /\ pc'[v] = pc[v] /\ UNCHANGED rows
        /\ BucketOf(v)' = BucketOf(v)
    BY <1>1, <1>2 DEF BucketOf
  <2>2. FoundKept(v)
    BY DEF RefsKept
  <2> QED
    BY <1>5, <2>1, <2>2 DEF FoundKept
<1> QED
  BY <1>6, <1>8, <1>9 DEF RefsKept

LEMMA RefsAdd ==
  ASSUME RefsKept, CallsKept, TablesKept, NEW w \in Writers, AddEntities(w)
  PROVE  RefsKept'
<1> DEFINE b     == BucketOf(w)
           batch == call[w].batch
           found == call[w].found
           refs  == Rewritten(batch, found)
           valid == Valid(batch)
           at(i) == CHOOSE n \in valid : Cardinality({m \in valid : m < n}) = i - nextRow
           given == nextRow .. (nextRow + Cardinality(valid) - 1)
<1>1. /\ UNCHANGED <<rows, call>> /\ pc[w] = "ingest" /\ pc'[w] = "open"
      /\ \A v \in Writers \ {w} : pc'[v] = pc[v]
      /\ \A c \in Clients \ {w} : ins'[c] = ins[c]
      /\ w \in Clients /\ Len(batch) \in Nat
  BY BatchesAssumption DEF AddEntities, CallsKept, TablesKept, WriterCall, Clients
<1>2. ins'[w] = [i \in given |-> EntityRow(w, at(i))]
  BY DEF AddEntities, TablesKept, Clients
<1>3. /\ \A i \in given : at(i) \in valid
      /\ \A n \in valid : \E i \in given : at(i) = n
  <2>1. nextRow \in Nat
    BY DEF TablesKept
  <2>2. Len(batch) \in Nat
    BY <1>1
  <2> HIDE DEF batch
  <2> QED
    BY <2>1, <2>2, OneRowEach, Zenon
<1>4. \A n : /\ EntityRow(w, n).bucket = b
             /\ EntityRow(w, n).orig = batch[n].id
             /\ EntityRow(w, n).id = PlatformId(batch[n].value, refs[n])
             /\ EntityRow(w, n).refs = refs[n]
             /\ EntityRow(w, n).raw = batch[n].refs
             /\ EntityRow(w, n).known = call[w].known \cup Processed(batch, n)
  BY DEF EntityRow
<1>5. DOMAIN ins'[w] = given /\ \A i \in given : ins'[w][i] = EntityRow(w, at(i))
  BY <1>2
<1> HIDE DEF at, given, refs
<1>6. ASSUME NEW n \in valid, NEW k \in 1..Len(batch[n].refs)
      PROVE  \/ \E j \in DOMAIN rows : Leads(rows[j], EntityRow(w, n), k)
             \/ \E m \in valid : Leads(EntityRow(w, m), EntityRow(w, n), k)
             \/ LeftAsSent(EntityRow(w, n), k)
  <2> DEFINE x == batch[n].refs[k]
  <2>1. n \in 1..Len(batch)
    BY DEF Valid
  <2>2. \/ \E m \in valid : batch[m].id = x /\ refs[n][k] = PlatformId(batch[m].value, refs[m])
        \/ x \in DOMAIN found /\ refs[n][k] = found[x]
        \/ /\ refs[n][k] = x /\ x \notin DOMAIN found
           /\ x \notin Processed(batch, n) /\ Names(batch, Plain(batch), x) = {}
    <3>1. Len(batch) \in Nat
      BY <1>1
    <3>2. Replaced(batch, found, n, k)
      BY <2>1, <3>1, RewrittenRefs, Zenon
    <3> QED
      BY <3>2, Zenon DEF refs, Replaced
  <2>3. CASE \E m \in valid : batch[m].id = x /\ refs[n][k] = PlatformId(batch[m].value, refs[m])
    BY <1>4, <2>3 DEF Leads
  <2>4. CASE x \in DOMAIN found /\ refs[n][k] = found[x]
    <3>1. PICK j \in Stored(b, x) : found[x] = rows[j].id
      BY <1>1, <2>4 DEF RefsKept, FoundKept
    <3>2. j \in DOMAIN rows /\ rows[j].bucket = b /\ rows[j].orig = x
      BY DEF Stored, InBucket
    <3> QED
      BY <1>4, <2>4, <3>1, <3>2 DEF Leads
  <2>5. CASE /\ refs[n][k] = x /\ x \notin DOMAIN found
             /\ x \notin Processed(batch, n) /\ Names(batch, Plain(batch), x) = {}
    <3>1. x \in Missing(batch)
      BY <2>1, <2>5 DEF Missing
    <3>2. x \notin call[w].known
      BY <1>1, <2>5, <3>1 DEF RefsKept, FoundKept
    <3> QED
      BY <1>4, <2>5, <3>2 DEF LeftAsSent
  <2> QED
    BY <2>2, <2>3, <2>4, <2>5
<1>7. InsResolve(w)'
  <2> SUFFICES ASSUME NEW i \in given, NEW k \in 1..Len(ins'[w][i].raw)
               PROVE  \/ \E j \in DOMAIN rows : Leads(rows[j], ins'[w][i], k)
                      \/ \E j \in given : Leads(ins'[w][j], ins'[w][i], k)
                      \/ LeftAsSent(ins'[w][i], k)
    BY <1>1, <1>5 DEF InsResolve, Leads, LeftAsSent
  <2>1. PICK n \in valid : n = at(i)
    BY <1>3
  <2>2. ins'[w][i] = EntityRow(w, n) /\ k \in 1..Len(batch[n].refs)
    BY <1>4, <1>5, <2>1
  <2>3. \A m \in valid : \E j \in given : ins'[w][j] = EntityRow(w, m)
    BY <1>3, <1>5
  <2>4. \/ \E j \in DOMAIN rows : Leads(rows[j], EntityRow(w, n), k)
        \/ \E m \in valid : Leads(EntityRow(w, m), EntityRow(w, n), k)
        \/ LeftAsSent(EntityRow(w, n), k)
    BY <1>6, <2>2
  <2> HIDE DEF valid
  <2>5. ASSUME NEW m \in valid, Leads(EntityRow(w, m), EntityRow(w, n), k)
        PROVE  \E j \in given : Leads(ins'[w][j], ins'[w][i], k)
    BY <2>2, <2>3, <2>5, Zenon
  <2> QED
    BY <2>2, <2>4, <2>5, Zenon
<1>8. RowsResolve' /\ \A c \in Clients \ {w} : InsResolve(c)'
  BY <1>1 DEF RefsKept, RowsResolve, InsResolve
<1>9. \A x, y : Stored(x, y)' = Stored(x, y)
  BY <1>1 DEF Stored, InBucket
<1>10. ASSUME NEW v \in Writers PROVE FoundKept(v)'
  BY <1>1, <1>9 DEF RefsKept, FoundKept, BucketOf
<1> QED
  BY <1>7, <1>8, <1>10 DEF RefsKept

LEMMA RefsCommit ==
  ASSUME RefsKept, CallsKept, TablesKept, NEW c \in Clients, Commit(c)
  PROVE  RefsKept'
<1>1. /\ DOMAIN rows' = DOMAIN rows \cup DOMAIN ins[c]
      /\ \A i \in DOMAIN rows : rows'[i] = rows[i]
      /\ \A i \in DOMAIN ins[c] : rows'[i] = ins[c][i]
  BY Committed
<1>2. /\ ins'[c] = NoRows /\ pc'[c] = "idle"
      /\ \A d \in Clients \ {c} : ins'[d] = ins[d] /\ pc'[d] = pc[d] /\ call'[d] = call[d]
  BY DEF Commit, End, TablesKept, CallsKept
<1>3. RowsResolve'
  <2> SUFFICES ASSUME NEW i \in DOMAIN rows', NEW k \in 1..Len(rows'[i].raw)
               PROVE  \/ \E j \in DOMAIN rows' : Leads(rows'[j], rows'[i], k)
                      \/ LeftAsSent(rows'[i], k)
    BY DEF RowsResolve, Leads, LeftAsSent
  <2>1. CASE i \in DOMAIN rows
    BY <1>1, <2>1 DEF RefsKept, RowsResolve
  <2>2. CASE i \in DOMAIN ins[c]
    BY <1>1, <2>2 DEF RefsKept, InsResolve
  <2> QED
    BY <1>1, <2>1, <2>2
<1>4. ASSUME NEW d \in Clients \ {c} PROVE InsResolve(d)'
  <2> SUFFICES ASSUME NEW i \in DOMAIN ins[d], NEW k \in 1..Len(ins[d][i].raw)
               PROVE  \/ \E j \in DOMAIN rows' : Leads(rows'[j], ins[d][i], k)
                      \/ \E j \in DOMAIN ins[d] : Leads(ins[d][j], ins[d][i], k)
                      \/ LeftAsSent(ins[d][i], k)
    <3>1. ins'[d] = ins[d]
      BY <1>2
    <3> QED
      BY <3>1 DEF InsResolve, Leads, LeftAsSent
  <2>1. \/ \E j \in DOMAIN rows : Leads(rows[j], ins[d][i], k)
        \/ \E j \in DOMAIN ins[d] : Leads(ins[d][j], ins[d][i], k)
        \/ LeftAsSent(ins[d][i], k)
    BY DEF RefsKept, InsResolve
  <2> QED
    BY <1>1, <2>1
<1>5. InsResolve(c)'
  BY <1>2 DEF InsResolve, NoRows
<1>6. \A b, x : /\ Stored(b, x) \subseteq Stored(b, x)'
                /\ \A j \in Stored(b, x) : rows'[j] = rows[j]
  BY <1>1 DEF Stored, InBucket
<1>7. ASSUME NEW w \in Writers PROVE FoundKept(w)'
  <2>1. CASE w = c
    BY <1>2, <2>1 DEF FoundKept
  <2>2. CASE w # c
    <3>1. pc'[w] = pc[w] /\ call'[w] = call[w] /\ BucketOf(w)' = BucketOf(w)
      BY <1>2, <2>2 DEF BucketOf, Clients
    <3>2. FoundKept(w)
      BY DEF RefsKept
    <3> SUFFICES ASSUME pc[w] = "ingest", NEW x \in DOMAIN call[w].found
                 PROVE  \E j \in Stored(BucketOf(w), x)' : call[w].found[x] = rows'[j].id
      BY <3>1, <3>2 DEF FoundKept
    <3>3. PICK j \in Stored(BucketOf(w), x) : call[w].found[x] = rows[j].id
      BY <3>2 DEF FoundKept
    <3> QED
      BY <1>6, <3>1, <3>3
  <2> QED
    BY <2>1, <2>2
<1> QED
  BY <1>3, <1>4, <1>5, <1>7 DEF RefsKept

LEMMA RefsStep == RefsKept /\ TablesKept /\ CallsKept /\ [Next]_vars => RefsKept'
<1> SUFFICES ASSUME RefsKept, TablesKept, CallsKept, [Next]_vars PROVE RefsKept'
  OBVIOUS
<1>1. ASSUME NEW r \in Readers, AskPage(r) PROVE RefsKept'
  <2>1. /\ UNCHANGED <<rows, ins>>
        /\ \A w \in Writers : call'[w] = call[w] /\ pc'[w] = pc[w]
    BY <1>1 DEF AskPage, Send, CallsKept, Clients
  <2> QED
    BY <2>1, RefsFrame
<1>0. ASSUME NEW v \in Writers, AskAdd(v) PROVE RefsKept'
  <2>1. /\ UNCHANGED <<rows, ins>>
        /\ \A w \in Writers : pc'[w] = "auth" \/ (call'[w] = call[w] /\ pc'[w] = pc[w])
    BY <1>0 DEF AskAdd, Send, CallsKept, Clients
  <2> QED
    BY <2>1, RefsFrame
<1>2. ASSUME NEW c \in Clients, UNCHANGED rows, End(c) PROVE RefsKept'
  <2>1. /\ \A d \in Clients : ins'[d] \in {ins[d], NoRows}
        /\ \A w \in Writers : pc'[w] = "idle" \/ (call'[w] = call[w] /\ pc'[w] = pc[w])
    BY <1>2 DEF End, CallsKept, TablesKept, Clients
  <2> QED
    BY <1>2, <2>1, RefsFrame
<1>3. ASSUME NEW c \in Clients, Authenticate(c) PROVE RefsKept'
  <2>1. CASE End(c)
    BY <1>2, <1>3, <2>1 DEF Authenticate
  <2>2. CASE pc' = [pc EXCEPT ![c] = "bucket"] /\ UNCHANGED <<call, ins>>
    <3>1. \A w \in Writers : call'[w] = call[w] /\ (pc'[w] = pc[w] \/ pc'[w] = "bucket")
      BY <2>2 DEF CallsKept, Clients
    <3> QED
      BY <1>3, <2>2, <3>1, RefsFrame DEF Authenticate
  <2> QED
    BY <1>3, <2>1, <2>2 DEF Authenticate
<1>4. ASSUME NEW c \in Clients, ReadPage(c) PROVE RefsKept'
  <2>1. /\ UNCHANGED <<rows, ins>>
        /\ \A w \in Writers : call'[w] = call[w] /\ pc'[w] = pc[w]
    BY <1>4 DEF ReadPage, CallsKept, Clients
  <2> QED
    BY <2>1, RefsFrame
<1>5. ASSUME NEW c \in Clients, Serve(c) \/ Fail(c) PROVE RefsKept'
  <2>1. CASE PoolTimeout(c) \/ Fail(c)
    BY <1>2, <2>1 DEF PoolTimeout, Fail
  <2>2. CASE LookupRefs(c)
    BY <2>2, RefsLookup DEF LookupRefs
  <2>3. CASE AddEntities(c)
    BY <2>3, RefsAdd DEF AddEntities
  <2>4. CASE Commit(c)
    BY <2>4, RefsCommit
  <2> QED
    BY <1>3, <1>4, <1>5, <2>1, <2>2, <2>3, <2>4 DEF Serve
<1>6. ASSUME UNCHANGED exchangeVars PROVE RefsKept'
  BY <1>6, RefsFrame DEF exchangeVars
<1>7. ASSUME NEW a \in Admins, Administer(a) PROVE RefsKept'
  BY <1>6, <1>7 DEF Administer
<1>8. CASE UNCHANGED vars
  BY <1>6, <1>8 DEF vars
<1> QED
  BY <1>0, <1>1, <1>5, <1>7, <1>8 DEF Next

LEMMA RefsHold == RefsKept => RefsResolve
<1> SUFFICES ASSUME RefsKept, NEW i \in DOMAIN rows, NEW k \in 1..Len(rows[i].raw)
             PROVE  \/ \E j \in Stored(rows[i].bucket, rows[i].raw[k]) :
                         rows[i].refs[k] = rows[j].id
                    \/ LeftAsSent(rows[i], k)
  BY DEF RefsResolve, LeftAsSent
<1> QED
  BY DEF RefsKept, RowsResolve, Leads, Stored, InBucket

-----------------------------------------------------------------------------

EInv == PoolKept /\ CallsKept /\ TablesKept /\ TripsKept /\ RefsKept

LEMMA EInit == Init => EInv
<1> SUFFICES ASSUME Init PROVE EInv
  OBVIOUS
<1>1. CallsKept
  BY DEF Init, CallsKept, Clients
<1>2. TablesKept
  BY DEF Init, TablesKept, IsTable, NoRows
<1>3. TripsKept
  BY DEF Init, TripsKept, TripKept, TripAsked, Trip
<1>4. RefsKept
  BY DEF Init, NoRows, Clients, RefsKept, RowsResolve, InsResolve, FoundKept
<1> QED
  BY <1>1, <1>2, <1>3, <1>4, PoolInit DEF EInv

LEMMA EStep == EInv /\ [Next]_vars => EInv'
BY PoolStep, CallsStep, TablesStep, TripsStep, RefsStep DEF EInv

LEMMA ETypes == EInv /\ UsersTypeOK => TypeOK
BY DEF EInv, PoolKept, CallsKept, TablesKept, TripsKept, TripKept, TypeOK

LEMMA EMisses == EInv => NothingMissed
BY DEF EInv, TripsKept, TripKept, NothingMissed

\* Before a row is committed late, what a reader has received lies before its
\* cursor, and the next page behind it.
LEMMA EDisjoint ==
  ASSUME EInv
  PROVE  \A r \in Readers : ReadPage(r) /\ ~trip[r].late =>
           trip[r].got \cap Page(BucketOf(r), trip[r].offset, call[r].limit) = {}
<1> SUFFICES ASSUME NEW r \in Readers, pc[r] = "bucket", ~trip[r].late,
                    NEW i \in trip[r].got,
                    i \in Page(BucketOf(r), trip[r].offset, call[r].limit)
             PROVE  FALSE
  BY DEF ReadPage
<1>1. /\ TripKept(r) /\ trip[r].state # "done"
      /\ trip[r].state = "reading" => Source(r) = BucketOf(r)
  BY DEF EInv, TripsKept, TripAsked, Source, BucketOf
<1>2. CASE trip[r].state = "new"
  BY <1>1, <1>2 DEF TripKept
<1>3. CASE trip[r].state = "reading"
  <2>1. /\ Rank(BucketOf(r), i) <= trip[r].offset
        /\ Rank(BucketOf(r), i) > trip[r].offset
        /\ i \in InBucket(BucketOf(r)) /\ trip[r].offset \in Nat
    BY <1>1, <1>3 DEF TripKept, Page, Trip
  <2>2. Rank(BucketOf(r), i) \in Nat
    BY <2>1, RankType DEF EInv
  <2> QED
    BY <2>1, <2>2
<1> QED
  BY <1>1, <1>2, <1>3 DEF TripKept, Trip

\* The types of the whole system; the pool is never overdrawn.
THEOREM ExchangeTypeCorrect == Spec => []TypeOK
BY ContainsUsers, UsersTypeCorrect, EInit, EStep, ETypes, PTL DEF Spec

\* Whatever is committed between two pages, and whatever gets lost, a client
\* that follows the cursor to the last page has every object that was there
\* at the first one.
THEOREM NothingIsMissed == Spec => []NothingMissed
BY EInit, EStep, EMisses, PTL DEF Spec

\* For every batch, whatever its relationships lead to, and whoever else writes: a
\* ref in the table leads to an object stored in its bucket under the id that was
\* sent, or its target was not in the bucket at the look-up, no plain object of the
\* batch and no relationship before it.
THEOREM RefsAreResolved == Spec => []RefsResolve
<1>1. EInv => RefsResolve
  BY RefsHold DEF EInv
<1> QED
  BY <1>1, EInit, EStep, PTL DEF Spec

\* A page repeats an object only after a row was committed out of order.
THEOREM PagesAreDisjoint == Spec => PagesDisjoint
<1>1. EInv /\ [Next]_vars =>
        [\A r \in Readers : ReadPage(r) /\ ~trip[r].late =>
           trip[r].got \cap Page(BucketOf(r), trip[r].offset, call[r].limit) = {}]_vars
  BY EDisjoint
<1> QED
  BY <1>1, EInit, EStep, PTL DEF Spec, PagesDisjoint
=============================================================================

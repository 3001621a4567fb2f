------------------------ MODULE PipelineWorker_proofs ------------------------
(***************************************************************************)
(* Proofs about module PipelineWorker, for every set of workers, buckets,  *)
(* pipelines and entities and every batch size: type correctness, the      *)
(* inductive invariant that gives ExactlyOnce, and the refinement of       *)
(* BucketFlow.                                                             *)
(***************************************************************************)
EXTENDS PipelineWorker, SequenceTheorems, TLAPS

-----------------------------------------------------------------------------
(* The inductive invariant.  ExactlyOnce speaks of committed rows only; it  *)
(* is preserved because of what every open transaction holds and has        *)
(* written so far, which these conjuncts say.                               *)

\* A worker holds a batch exactly while it is inside process_batch, and no
\* row of it twice.
LockInv ==
    \A w \in Workers :
      /\ pc[w] \in Busy => at[w] \in 1..Len(Pairs) /\ Held(w) # {}
      /\ pc[w] \notin Busy => batch[w] = <<>>
      /\ \A m, n \in 1..Len(batch[w]) : batch[w][m] = batch[w][n] => m = n

\* Ids come from one sequence: no two rows share one, committed or not.
IdsInv ==
    /\ \A i \in DOMAIN rows : i < nextId /\ rows[i].parent \in DOMAIN rows \cup {0}
    /\ \A w \in Workers : \A i \in DOMAIN ins[w] :
         /\ i < nextId /\ i \notin DOMAIN rows
         /\ \A v \in Workers \ {w} : i \notin DOMAIN ins[v]

\* What w has inserted: one copy of every row it holds in each of the sinks
\* before slot[w], and nothing else.
PartlyDelivered(w) ==
    /\ \A c \in DOMAIN ins[w] :
         /\ ins[w][c].parent \in Held(w)
         /\ ins[w][c].slot \in 1..(slot[w] - 1)
         /\ ins[w][c].bucket = Sinks[PipelineOf(w)][ins[w][c].slot]
         /\ ins[w][c].pipeline = PipelineOf(w)
         /\ ins[w][c].origin = rows[ins[w][c].parent].origin
         /\ ins[w][c].status = "pending"
    /\ \A c, d \in DOMAIN ins[w] :
         ins[w][c].parent = ins[w][d].parent /\ ins[w][c].slot = ins[w][d].slot
           => c = d
    /\ \A i \in Held(w), k \in 1..(slot[w] - 1) :
         \E c \in DOMAIN ins[w] : ins[w][c].parent = i /\ ins[w][c].slot = k

Stage(w) ==
    /\ pc[w] \notin {"write", "commit"} => DOMAIN ins[w] = {} /\ slot[w] = 1
    /\ pc[w] \in {"write", "commit"} =>
         /\ PartlyDelivered(w)
         /\ slot[w] <= Len(Sinks[PipelineOf(w)]) + 1
         /\ ~Raises(w)
    /\ pc[w] = "commit" => /\ slot[w] = Len(Sinks[PipelineOf(w)]) + 1
                           /\ mark[w] = "processed"

StageInv == \A w \in Workers : Stage(w)

IInv == TypeOK /\ LockInv /\ HeldApart /\ IdsInv /\ StageInv
          /\ ExactlyOnce /\ NothingStranded

-----------------------------------------------------------------------------
\* A function over a finite range into S is a sequence over S.
LEMMA FunctionIsSeq ==
    ASSUME NEW S, NEW k \in Nat, NEW s \in [1..k -> S]
    PROVE  s \in Seq(S) /\ Len(s) = k
OBVIOUS

\* The table without rows is a table.
LEMMA EmptyTable == IsTable(NoRows) /\ DOMAIN NoRows = {}
BY DEF IsTable, NoRows

\* The end of a transaction resets a worker's locals to values of their type.
LEMMA EndTxType ==
    ASSUME TypeOK, NEW w \in Workers, EndTx(w)
    PROVE  /\ batch' \in [Workers -> Seq(Nat \ {0})]
           /\ mark' \in [Workers -> Status]
           /\ now' \in [Workers -> Nat] /\ slot' \in [Workers -> Nat \ {0}]
           /\ ins' = [v \in Workers |-> ins'[v]]
           /\ \A v \in Workers : IsTable(ins'[v])
<1>1. batch' \in [Workers -> Seq(Nat \ {0})]
  BY DEF TypeOK, EndTx
<1>2. /\ mark' \in [Workers -> Status]
      /\ now' \in [Workers -> Nat] /\ slot' \in [Workers -> Nat \ {0}]
  BY DEF TypeOK, EndTx, Status
<1>3. ins' = [v \in Workers |-> ins'[v]]
  BY DEF TypeOK, EndTx
<1>4. ASSUME NEW v \in Workers PROVE IsTable(ins'[v])
  <2>1. ins'[v] = IF v = w THEN NoRows ELSE ins[v]
    BY DEF TypeOK, EndTx
  <2> QED BY <2>1, EmptyTable DEF TypeOK
<1> QED BY <1>1, <1>2, <1>3, <1>4

\* Moving to the next (source, pipeline) pair of the list keeps the types.
LEMMA NextPairType ==
    ASSUME TypeOK, NEW w \in Workers, NextPair(w), at[w] \in 1..Len(Pairs)
    PROVE  /\ pc' \in [Workers -> Busy \cup {"pass", "sleep", "down", "done"}]
           /\ at' \in [Workers -> 1..(Len(Pairs) + 1)]
BY PairsAssumption DEF TypeOK, NextPair

-----------------------------------------------------------------------------
(* Type correctness *)

\* A worker's locals are typed at the start.
LEMMA TypeInit == Init => TypeOK
<1> SUFFICES ASSUME Init PROVE TypeOK
  OBVIOUS
<1> USE DEF Init
<1>1. IsTable(rows) /\ nextId \in Nat \ {0} /\ clock \in Nat
  BY EmptyTable
<1>2. exists \subseteq Buckets /\ ingested \in Nat /\ failures \in Nat
  BY BucketsAssumption
<1>3. /\ pc \in [Workers -> Busy \cup {"pass", "sleep", "down", "done"}]
      /\ at \in [Workers -> 1..(Len(Pairs) + 1)]
      /\ found \in [Workers -> BOOLEAN] /\ stop \in [Workers -> BOOLEAN]
  BY PairsAssumption
<1>4. /\ batch \in [Workers -> Seq(Nat \ {0})]
      /\ mark \in [Workers -> Status]
      /\ now \in [Workers -> Nat] /\ slot \in [Workers -> Nat \ {0}]
  BY DEF Status
<1>5. ins = [w \in Workers |-> ins[w]] /\ \A w \in Workers : IsTable(ins[w])
  BY EmptyTable
<1> QED BY <1>1, <1>2, <1>3, <1>4, <1>5 DEF TypeOK

\* What a worker has read back is what is in the table.
LEMMA HeldType ==
    ASSUME TypeOK, NEW w \in Workers
    PROVE  /\ Held(w) \subseteq Nat \ {0}
           /\ Len(batch[w]) \in Nat
           /\ \A n \in 1..Len(batch[w]) : batch[w][n] \in Held(w)
<1>1. batch[w] \in Seq(Nat \ {0})
  BY DEF TypeOK
<1> QED BY <1>1 DEF Held

\* The table a commit leaves is a table.
LEMMA CommittedType ==
    ASSUME TypeOK, NEW w \in Workers
    PROVE  IsTable(Committed(w))
<1>1. Committed(w) = [i \in DOMAIN Committed(w) |-> Committed(w)[i]]
  BY DEF Committed
<1>2. DOMAIN Committed(w) = DOMAIN rows \cup DOMAIN ins[w]
  BY DEF Committed
<1>3. ASSUME NEW i \in DOMAIN rows \cup DOMAIN ins[w]
      PROVE  Committed(w)[i] \in Row
  <2>1. CASE i \in DOMAIN ins[w]
    BY <2>1 DEF Committed, TypeOK, IsTable
  <2>2. CASE i \notin DOMAIN ins[w] /\ i \in Held(w)
    <3>1. Committed(w)[i] = [rows[i] EXCEPT !.status = mark[w]]
      BY <2>2 DEF Committed
    <3>2. rows[i] \in Row /\ mark[w] \in Status
      BY <2>2 DEF TypeOK, IsTable
    <3> QED BY <3>1, <3>2 DEF Row
  <2>3. CASE i \notin DOMAIN ins[w] /\ i \notin Held(w)
    BY <2>3 DEF Committed, TypeOK, IsTable
  <2> QED BY <2>1, <2>2, <2>3
<1> QED BY <1>1, <1>2, <1>3 DEF IsTable, TypeOK

\* The pair a busy worker holds is one of the pairs it was configured with.
LEMMA PairType ==
    ASSUME NEW w \in Workers, at[w] \in 1..Len(Pairs)
    PROVE  /\ PipelineOf(w) \in Pipelines /\ SourceOf(w) \in Buckets
           /\ Sinks[PipelineOf(w)] \in Seq(Buckets)
           /\ Len(Sinks[PipelineOf(w)]) \in Nat
<1>1. Pairs[at[w]] \in [pipeline : Pipelines, source : Buckets]
  BY PairsAssumption, ElementOfSeq
<1> QED BY <1>1, SinksAssumption DEF PipelineOf, SourceOf

\* The rows one call of add_entities inserts, and their ids.
NewIds(w) == nextId .. (nextId + Len(batch[w]) - 1)
CopyOf(w, i) == Derived(rows[batch[w][i - nextId + 1]], batch[w][i - nextId + 1],
                        PipelineOf(w), slot[w], now[w])

\* The rows the worker adds for its copies are rows of the table.
LEMMA AddEntitiesRows ==
    ASSUME TypeOK, LockInv, HeldApart, NEW w \in Workers, AddEntities(w)
    PROVE  /\ \A v \in Workers \ {w} : ins'[v] = ins[v]
           /\ DOMAIN ins'[w] = DOMAIN ins[w] \cup NewIds(w)
           /\ ins'[w] = [i \in DOMAIN ins'[w] |-> ins'[w][i]]
           /\ NewIds(w) \subseteq Nat \ {0}
           /\ \A i \in NewIds(w) : /\ ins'[w][i] = CopyOf(w, i)
                                   /\ batch[w][i - nextId + 1] \in Held(w)
                                   /\ i - nextId + 1 \in 1..Len(batch[w])
           /\ \A i \in DOMAIN ins[w] \ NewIds(w) : ins'[w][i] = ins[w][i]
           /\ ins' = [v \in Workers |-> ins'[v]]
           /\ nextId' = nextId + Len(batch[w]) /\ nextId' \in Nat \ {0}
<1>1. Len(batch[w]) \in Nat /\ \A n \in 1..Len(batch[w]) : batch[w][n] \in Held(w)
  BY HeldType
<1>2. nextId \in Nat \ {0} /\ ins = [v \in Workers |-> ins[v]]
  BY DEF TypeOK
<1>3. ins' = [ins EXCEPT ![w] =
                [i \in DOMAIN ins[w] \cup NewIds(w) |->
                   IF i \in NewIds(w) THEN CopyOf(w, i) ELSE ins[w][i]]]
  BY DEF AddEntities, NewIds, CopyOf
<1>4. ins'[w] = [i \in DOMAIN ins[w] \cup NewIds(w) |->
                   IF i \in NewIds(w) THEN CopyOf(w, i) ELSE ins[w][i]]
  BY <1>2, <1>3
<1>5. \A i \in NewIds(w) : i \in Nat \ {0} /\ i - nextId + 1 \in 1..Len(batch[w])
  BY <1>1, <1>2 DEF NewIds
<1>6. nextId' = nextId + Len(batch[w])
  BY DEF AddEntities
<1>7. ins' = [v \in Workers |-> ins'[v]] /\ \A v \in Workers \ {w} : ins'[v] = ins[v]
  BY <1>2, <1>3
<1> HIDE DEF NewIds, CopyOf
<1> QED BY <1>1, <1>2, <1>4, <1>5, <1>6, <1>7

\* add_entities keeps the types.
LEMMA AddEntitiesType ==
    ASSUME TypeOK, LockInv, HeldApart, NEW w \in Workers, AddEntities(w)
    PROVE  TypeOK'
<1>1. pc[w] = "write" /\ slot[w] <= Len(Sinks[PipelineOf(w)])
  BY DEF AddEntities
<1>2. at[w] \in 1..Len(Pairs)
  BY <1>1 DEF LockInv, Busy
<1>3. ASSUME NEW i \in NewIds(w) PROVE CopyOf(w, i) \in Row
  <2> DEFINE src == batch[w][i - nextId + 1]
  <2>1. src \in DOMAIN rows /\ src \in Nat /\ rows[src] \in Row
    BY <1>3, HeldType, AddEntitiesRows DEF HeldApart, TypeOK, IsTable
  <2>2. slot[w] \in 1..Len(Sinks[PipelineOf(w)]) /\ now[w] \in Nat /\ slot[w] \in Nat
    BY <1>1, <1>2, PairType DEF TypeOK
  <2>3. Sinks[PipelineOf(w)][slot[w]] \in Buckets
    BY <1>2, <2>2, PairType
  <2> QED BY <1>2, <2>1, <2>2, <2>3, PairType DEF CopyOf, Derived, Row, Status
<1>4. IsTable(ins[w])
  BY DEF TypeOK
<1>5. IsTable(ins'[w])
  BY <1>3, <1>4, AddEntitiesRows DEF IsTable
<1>6. \A v \in Workers : IsTable(ins'[v])
  BY <1>5, AddEntitiesRows DEF TypeOK
<1>7. slot' \in [Workers -> Nat \ {0}]
  BY DEF AddEntities, TypeOK
<1>8. IsTable(rows)'
  BY DEF TypeOK, AddEntities, world, IsTable
<1>9. /\ UNCHANGED <<clock, exists, ingested, failures, pc, at, found, stop,
                     batch, mark, now>>
      /\ nextId' \in Nat \ {0} /\ ins' = [v \in Workers |-> ins'[v]]
  BY AddEntitiesRows DEF AddEntities, world, loop
<1> QED BY <1>6, <1>7, <1>8, <1>9 DEF TypeOK

\* A rollback ends the transaction and moves on to the next pair.
LEMMA RollbackType ==
    ASSUME TypeOK, NEW w \in Workers, Rollback(w), at[w] \in 1..Len(Pairs),
           failures' \in Nat
    PROVE  TypeOK'
<1>1. EndTx(w) /\ NextPair(w) /\ UNCHANGED <<world, nextId, clock, found, stop>>
  BY DEF Rollback
<1> QED BY <1>1, EndTxType, NextPairType DEF TypeOK, IsTable, world

\* acquire_entities keeps the types.
LEMMA AcquireType ==
    ASSUME TypeOK, NEW w \in Workers, Acquire(w)
    PROVE  TypeOK'
<1>1. PICK k \in 1..BatchSize : \E s \in [1..k -> Available(SourceOf(w))] :
         batch' = [batch EXCEPT ![w] = s]
  BY DEF Acquire
<1>0. PICK s \in [1..k -> Available(SourceOf(w))] : batch' = [batch EXCEPT ![w] = s]
  BY <1>1
<1>2. s \in Seq(Nat \ {0})
  <2>1. Available(SourceOf(w)) \subseteq Nat \ {0}
    BY DEF Available, TypeOK, IsTable
  <2>2. k \in Nat /\ s \in [1..k -> Nat \ {0}]
    BY <2>1, BatchSizeAssumption
  <2> QED BY <2>2, FunctionIsSeq
<1>3. batch' \in [Workers -> Seq(Nat \ {0})] /\ mark' \in [Workers -> Status]
  BY <1>0, <1>2 DEF TypeOK, Acquire, Status
<1>4. pc' \in [Workers -> Busy \cup {"pass", "sleep", "down", "done"}]
  BY DEF TypeOK, Acquire, Busy
<1>5. UNCHANGED <<rows, exists, ingested, nextId, clock, failures, at, found,
                  stop, now, slot, ins>>
  BY DEF Acquire, world, loop
<1> QED BY <1>3, <1>4, <1>5 DEF TypeOK, IsTable

\* A batch that is ingested puts rows under new ids into the table.
LEMMA IngestRows ==
    ASSUME TypeOK, Ingest
    PROVE  /\ nextId' \in Nat /\ nextId < nextId' /\ ingested' \in Nat
           /\ \E r \in [nextId .. (nextId' - 1) -> Row] :
                /\ rows' = [i \in DOMAIN rows \cup nextId .. (nextId' - 1) |->
                              IF i \in nextId .. (nextId' - 1) THEN r[i] ELSE rows[i]]
                /\ \A i \in nextId .. (nextId' - 1) :
                     /\ r[i].status = "pending" /\ r[i].pipeline = NoPipeline
                     /\ r[i].parent = 0
<1>1. PICK b \in exists \cap Targets, t \in 1..clock, k \in 1..(MaxIngest - ingested) :
      \E os \in [1..k -> Origins] :
        /\ rows' = [i \in DOMAIN rows \cup nextId .. (nextId + k - 1) |->
                      IF i \in nextId .. (nextId + k - 1)
                      THEN Ingested(b, os[i - nextId + 1], t) ELSE rows[i]]
        /\ ingested' = ingested + k /\ nextId' = nextId + k
  BY DEF Ingest
<1>2. PICK os \in [1..k -> Origins] :
        rows' = [i \in DOMAIN rows \cup nextId .. (nextId + k - 1) |->
                  IF i \in nextId .. (nextId + k - 1)
                  THEN Ingested(b, os[i - nextId + 1], t) ELSE rows[i]]
  BY <1>1
<1>3. /\ ingested' = ingested + k /\ nextId' = nextId + k
      /\ ingested \in Nat /\ nextId \in Nat \ {0} /\ clock \in Nat
      /\ k \in Nat \ {0} /\ t \in Nat /\ b \in Buckets
  BY <1>1, MaxIngestAssumption DEF TypeOK
<1>4. nextId' - 1 = nextId + k - 1
  BY <1>3
<1> DEFINE new == nextId .. (nextId + k - 1)
           r == [i \in new |-> Ingested(b, os[i - nextId + 1], t)]
<1>5. ASSUME NEW o \in Origins
      PROVE  /\ Ingested(b, o, t) \in Row
             /\ Ingested(b, o, t).status = "pending"
             /\ Ingested(b, o, t).pipeline = NoPipeline
             /\ Ingested(b, o, t).parent = 0
  BY <1>3 DEF Ingested, Row, Status
<1>6. \A i \in new : os[i - nextId + 1] \in Origins
  <2>1. \A i \in new : i - nextId + 1 \in 1..k
    BY <1>3
  <2> QED BY <2>1
<1>7. /\ r \in [new -> Row]
      /\ \A i \in new : /\ r[i].status = "pending" /\ r[i].pipeline = NoPipeline
                        /\ r[i].parent = 0
  BY <1>5, <1>6
<1>8. rows' = [i \in DOMAIN rows \cup new |-> IF i \in new THEN r[i] ELSE rows[i]]
  BY <1>2
<1> HIDE DEF r
<1> QED BY <1>3, <1>4, <1>7, <1>8

\* The rows that were there stay as they are.
LEMMA IngestFacts ==
    ASSUME TypeOK, IdsInv, Ingest
    PROVE  /\ \A i \in DOMAIN rows : i \in DOMAIN rows' /\ rows'[i] = rows[i]
           /\ \A i \in DOMAIN rows' \ DOMAIN rows :
                /\ i \in Nat \ {0} /\ nextId <= i /\ i < nextId'
                /\ rows'[i].status = "pending" /\ rows'[i].pipeline = NoPipeline
                /\ rows'[i].parent = 0
           /\ nextId \in Nat \ {0} /\ nextId' \in Nat /\ nextId < nextId'
<1> DEFINE new == nextId .. (nextId' - 1)
<1>0. \A i \in DOMAIN rows : i \in Nat /\ i < nextId
  BY DEF IdsInv, TypeOK, IsTable
<1>1. nextId \in Nat \ {0} /\ nextId' \in Nat /\ nextId < nextId'
  BY IngestRows DEF TypeOK
<1>2. \A i \in DOMAIN rows : i \notin new
  BY <1>0, <1>1
<1>3. \A i \in new : i \in Nat \ {0} /\ nextId <= i /\ i < nextId'
  <2>1. ASSUME NEW m \in Nat \ {0}, NEW n \in Nat, NEW i \in m .. (n - 1)
        PROVE  i \in Nat \ {0} /\ m <= i /\ i < n
    OBVIOUS
  <2> QED BY <1>1, <2>1
<1>4. PICK r \in [new -> Row] :
        /\ rows' = [i \in DOMAIN rows \cup new |-> IF i \in new THEN r[i] ELSE rows[i]]
        /\ \A i \in new : /\ r[i].status = "pending" /\ r[i].pipeline = NoPipeline
                          /\ r[i].parent = 0
  BY IngestRows
<1> HIDE DEF new
<1>5. DOMAIN rows' = DOMAIN rows \cup new
  BY <1>4
<1>6. \A i \in DOMAIN rows : i \in DOMAIN rows' /\ rows'[i] = rows[i]
  BY <1>2, <1>4, <1>5
<1>7. \A i \in new : rows'[i] = r[i]
  BY <1>4
<1>8. \A i \in DOMAIN rows' \ DOMAIN rows :
        /\ i \in Nat \ {0} /\ nextId <= i /\ i < nextId'
        /\ rows'[i].status = "pending" /\ rows'[i].pipeline = NoPipeline
        /\ rows'[i].parent = 0
  BY <1>3, <1>4, <1>5, <1>7
<1> QED BY <1>1, <1>6, <1>8

\* Ingesting a batch keeps the types.
LEMMA IngestType == TypeOK /\ Ingest => TypeOK'
<1> SUFFICES ASSUME TypeOK, Ingest PROVE TypeOK'
  OBVIOUS
<1> DEFINE new == nextId .. (nextId' - 1)
<1>1. PICK r \in [new -> Row] :
         rows' = [i \in DOMAIN rows \cup new |-> IF i \in new THEN r[i] ELSE rows[i]]
  BY IngestRows
<1>2. /\ nextId' \in Nat \ {0} /\ ingested' \in Nat
      /\ \A i \in new : i \in Nat \ {0}
      /\ UNCHANGED <<clock, exists, failures, pc, at, found, stop, batch, mark, now, slot, ins>>
  BY IngestRows DEF Ingest, TypeOK, loop, tx
<1> HIDE DEF new
<1>3. IsTable(rows)'
  BY <1>1, <1>2 DEF IsTable, TypeOK
<1> QED BY <1>2, <1>3 DEF TypeOK, IsTable

\* Every step keeps the types, given what the open transactions hold.
LEMMA TypeStep ==
    ASSUME TypeOK, LockInv, HeldApart, [Next]_vars
    PROVE  TypeOK'
<1>1. ASSUME NEW w \in Workers, Exit(w) \/ Wake(w) \/ ResolveSinks(w)
      PROVE  TypeOK'
  <2>1. pc' \in [Workers -> Busy \cup {"pass", "sleep", "down", "done"}]
    BY <1>1 DEF Exit, Wake, ResolveSinks, TypeOK, Busy
  <2>2. UNCHANGED <<rows, exists, ingested, nextId, clock, failures, at, found,
                    stop, batch, mark, now, slot, ins>>
    BY <1>1 DEF Exit, Wake, ResolveSinks, world, loop, tx
  <2> QED BY <2>1, <2>2 DEF TypeOK, IsTable
<1>2. ASSUME NEW w \in Workers, SkipPair(w) PROVE TypeOK'
  BY <1>2, NextPairType DEF SkipPair, TypeOK, IsTable, world, tx
<1>3. ASSUME NEW w \in Workers, EndPass(w) PROVE TypeOK'
  BY <1>3, PairsAssumption DEF EndPass, TypeOK, IsTable, world, tx
<1>4. ASSUME NEW w \in Workers, Acquire(w) PROVE TypeOK'
  BY <1>4, AcquireType
<1>5. ASSUME NEW w \in Workers, SinkNotFound(w) \/ ExecutionError(w) \/ DbError(w)
      PROVE  TypeOK'
  <2>1. at[w] \in 1..Len(Pairs)
    BY <1>5 DEF SinkNotFound, ExecutionError, DbError, LockInv, Busy
  <2>2. Rollback(w) /\ failures' \in Nat
    BY <1>5 DEF SinkNotFound, ExecutionError, DbError, TypeOK
  <2> QED BY <2>1, <2>2, RollbackType
<1>6. ASSUME NEW w \in Workers, Execute(w) PROVE TypeOK'
  BY <1>6 DEF Execute, TypeOK, IsTable, world, loop, Busy
<1>7. ASSUME NEW w \in Workers, AddEntities(w) PROVE TypeOK'
  BY <1>7, AddEntitiesType
<1>8. ASSUME NEW w \in Workers, MarkProcessed(w) PROVE TypeOK'
  BY <1>8 DEF MarkProcessed, TypeOK, IsTable, world, Busy, Status
<1>9. ASSUME NEW w \in Workers, Commit(w) PROVE TypeOK'
  <2>1. at[w] \in 1..Len(Pairs)
    BY <1>9 DEF Commit, LockInv, Busy
  <2>2. IsTable(rows)'
    BY <1>9, CommittedType DEF Commit, IsTable
  <2> QED BY <1>9, <2>1, <2>2, EndTxType, NextPairType DEF Commit, TypeOK
<1>10. ASSUME NEW w \in Workers, Crash(w) PROVE TypeOK'
  <2>1. EndTx(w) /\ UNCHANGED <<rows, exists, ingested, nextId, clock, at, found, stop>>
    BY <1>10 DEF Crash, world, loop
  <2>2. /\ failures' \in Nat
        /\ pc' \in [Workers -> Busy \cup {"pass", "sleep", "down", "done"}]
    BY <1>10 DEF Crash, TypeOK
  <2> QED BY <2>1, <2>2, EndTxType DEF TypeOK, IsTable
<1>11. ASSUME NEW w \in Workers, Restart(w) PROVE TypeOK'
  BY <1>11, PairsAssumption DEF Restart, TypeOK, IsTable, world, tx
<1>12. ASSUME NEW w \in Workers, Stop(w) PROVE TypeOK'
  BY <1>12 DEF Stop, TypeOK, IsTable, world, tx
<1>13. ASSUME Ingest PROVE TypeOK'
  BY <1>13, IngestType
<1>14. ASSUME Provision PROVE TypeOK'
  BY <1>14 DEF Provision, TypeOK, IsTable, loop, tx
<1>15. ASSUME UNCHANGED vars PROVE TypeOK'
  BY <1>15 DEF vars, TypeOK, IsTable
<1> QED BY <1>1, <1>2, <1>3, <1>4, <1>5, <1>6, <1>7, <1>8, <1>9, <1>10, <1>11,
           <1>12, <1>13, <1>14, <1>15 DEF Next, Step

-----------------------------------------------------------------------------
(* Locks *)

\* A step that leaves every batch alone, and the committed rows as they were.
LEMMA LockFrame ==
    ASSUME LockInv, HeldApart, UNCHANGED <<batch, at>>,
           \A i \in DOMAIN rows : i \in DOMAIN rows' /\ rows'[i] = rows[i],
           \A v \in Workers : pc'[v] \in Busy <=> pc[v] \in Busy
    PROVE  LockInv' /\ HeldApart'
<1>1. \A v \in Workers : Held(v)' = Held(v) /\ SourceOf(v)' = SourceOf(v)
  BY DEF Held, SourceOf
<1>2. LockInv'
  BY <1>1 DEF LockInv
<1>3. HeldApart'
  BY <1>1 DEF HeldApart
<1> QED BY <1>2, <1>3

\* A step after which w holds nothing, and the others what they held.
LEMMA LockRelease ==
    ASSUME LockInv, HeldApart, NEW w \in Workers,
           batch'[w] = <<>>, pc'[w] \notin Busy,
           \A v \in Workers \ {w} :
             /\ batch'[v] = batch[v] /\ at'[v] = at[v] /\ pc'[v] = pc[v]
             /\ \A i \in Held(v) : i \in DOMAIN rows' /\ rows'[i] = rows[i]
    PROVE  LockInv' /\ HeldApart'
<1>1. Held(w)' = {}
  BY DEF Held
<1>2. \A v \in Workers \ {w} : Held(v)' = Held(v) /\ SourceOf(v)' = SourceOf(v)
  BY DEF Held, SourceOf
<1>3. LockInv'
  <2> SUFFICES ASSUME NEW v \in Workers
               PROVE  /\ pc'[v] \in Busy => at'[v] \in 1..Len(Pairs) /\ Held(v)' # {}
                      /\ pc'[v] \notin Busy => batch'[v] = <<>>
                      /\ \A m, n \in 1..Len(batch'[v]) :
                           batch'[v][m] = batch'[v][n] => m = n
    BY DEF LockInv
  <2>1. CASE v = w
    BY <2>1
  <2>2. CASE v # w
    BY <1>2, <2>2 DEF LockInv
  <2> QED BY <2>1, <2>2
<1>4. HeldApart'
  BY <1>1, <1>2 DEF HeldApart
<1> QED BY <1>3, <1>4

\* What acquire_entities locks was unlocked: the locks stay exclusive.
LEMMA LockAcquire ==
    ASSUME TypeOK, LockInv, HeldApart, NEW w \in Workers, Acquire(w)
    PROVE  LockInv' /\ HeldApart'
<1> DEFINE avail == Available(SourceOf(w))
<1>1. PICK k \in 1..BatchSize : \E s \in [1..k -> avail] :
         OldestFirst(s, avail) /\ batch' = [batch EXCEPT ![w] = s]
  BY DEF Acquire
<1>2. PICK s \in [1..k -> avail] :
         OldestFirst(s, avail) /\ batch' = [batch EXCEPT ![w] = s]
  BY <1>1
<1>3. k \in Nat /\ k >= 1 /\ Len(s) = k
  BY BatchSizeAssumption, FunctionIsSeq
<1>4. batch'[w] = s /\ \A v \in Workers \ {w} : batch'[v] = batch[v]
  BY <1>2 DEF TypeOK
<1>5. /\ pc' = [pc EXCEPT ![w] = "resolve"] /\ UNCHANGED <<rows, at>>
      /\ at[w] \in 1..Len(Pairs)
  BY DEF Acquire, world, loop
<1>6. Held(w)' \subseteq avail /\ Held(w)' # {}
  <2>1. Held(w)' = {s[n] : n \in 1..k}
    BY <1>3, <1>4 DEF Held
  <2>2. 1 \in 1..k /\ s[1] \in Held(w)'
    BY <1>3, <2>1
  <2> QED BY <2>1, <2>2
<1>7. \A v \in Workers \ {w} : Held(v)' = Held(v)
  BY <1>4 DEF Held
<1>8. \A v \in Workers : SourceOf(v)' = SourceOf(v)
  BY <1>5 DEF SourceOf
<1>9. LockInv'
  <2> SUFFICES ASSUME NEW v \in Workers
               PROVE  /\ pc'[v] \in Busy => at'[v] \in 1..Len(Pairs) /\ Held(v)' # {}
                      /\ pc'[v] \notin Busy => batch'[v] = <<>>
                      /\ \A m, n \in 1..Len(batch'[v]) :
                           batch'[v][m] = batch'[v][n] => m = n
    BY DEF LockInv
  <2>1. CASE v = w
    <3>1. pc'[w] \in Busy
      BY <1>5 DEF TypeOK, Busy
    <3>2. \A m, n \in 1..Len(s) : s[m] = s[n] => m = n
      BY <1>2 DEF OldestFirst
    <3> QED BY <1>4, <1>5, <1>6, <2>1, <3>1, <3>2
  <2>2. CASE v # w
    BY <1>4, <1>5, <1>7, <2>2 DEF LockInv, TypeOK
  <2> QED BY <2>1, <2>2
<1>10. HeldApart'
  <2>1. \A i \in avail : /\ i \in DOMAIN rows /\ rows[i].status = "pending"
                         /\ rows[i].bucket = SourceOf(w)
                         /\ \A v \in Workers : i \notin Held(v)
    BY DEF Available
  <2>2. ASSUME NEW v \in Workers \ {w}
        PROVE  Held(v)' \cap Held(w)' = {}
    BY <1>6, <1>7, <2>1
  <2> QED BY <1>5, <1>6, <1>7, <1>8, <2>1, <2>2 DEF HeldApart
<1> QED BY <1>9, <1>10

\* The end of a transaction (commit or rollback) releases exactly its locks.
LEMMA EndTxFacts ==
    ASSUME TypeOK, NEW w \in Workers, EndTx(w)
    PROVE  /\ batch'[w] = <<>> /\ ins'[w] = NoRows /\ slot'[w] = 1
           /\ \A v \in Workers \ {w} :
                batch'[v] = batch[v] /\ ins'[v] = ins[v] /\ slot'[v] = slot[v]
                /\ mark'[v] = mark[v]
BY DEF EndTx, TypeOK

\* Commit changes no row that another worker holds.
LEMMA CommitFacts ==
    ASSUME TypeOK, HeldApart, IdsInv, NEW w \in Workers
    PROVE  /\ DOMAIN Committed(w) = DOMAIN rows \cup DOMAIN ins[w]
           /\ \A i \in DOMAIN ins[w] : i \notin DOMAIN rows /\ Committed(w)[i] = ins[w][i]
           /\ \A i \in Held(w) :
                /\ i \in DOMAIN rows /\ i \notin DOMAIN ins[w]
                /\ Committed(w)[i] = [rows[i] EXCEPT !.status = mark[w]]
           /\ \A i \in DOMAIN rows \ Held(w) : Committed(w)[i] = rows[i]
           /\ \A v \in Workers \ {w} : \A i \in Held(v) : Committed(w)[i] = rows[i]
<1>1. \A i \in DOMAIN ins[w] : i \notin DOMAIN rows
  BY DEF IdsInv
<1>2. \A i \in Held(w) : i \in DOMAIN rows
  BY DEF HeldApart
<1>3. \A v \in Workers \ {w} : \A i \in Held(v) : i \in DOMAIN rows \ Held(w)
  BY DEF HeldApart
<1> QED BY <1>1, <1>2, <1>3 DEF Committed

\* Every step keeps the lock invariant: rows in a batch are locked by its worker.
LEMMA LockStep ==
    ASSUME TypeOK, LockInv, HeldApart, IdsInv, [Next]_vars
    PROVE  LockInv' /\ HeldApart'
<1>1. ASSUME NEW w \in Workers,
             Exit(w) \/ Wake(w) \/ ResolveSinks(w) \/ Execute(w) \/ AddEntities(w)
               \/ MarkProcessed(w) \/ Stop(w)
      PROVE  LockInv' /\ HeldApart'
  <2>1. UNCHANGED <<batch, at, rows>>
    BY <1>1 DEF Exit, Wake, ResolveSinks, Execute, AddEntities, MarkProcessed, Stop,
                world, loop, tx
  <2>2. \A v \in Workers : pc'[v] \in Busy <=> pc[v] \in Busy
    BY <1>1 DEF Exit, Wake, ResolveSinks, Execute, AddEntities, MarkProcessed, Stop,
                Busy, TypeOK
  <2> QED BY <2>1, <2>2, LockFrame
<1>2. ASSUME Ingest PROVE LockInv' /\ HeldApart'
  <2>1. UNCHANGED <<batch, at, pc>>
    BY <1>2 DEF Ingest, loop, tx
  <2>2. \A i \in DOMAIN rows : i \in DOMAIN rows' /\ rows'[i] = rows[i]
    BY <1>2, IngestFacts
  <2> QED BY <2>1, <2>2, LockFrame
<1>3. ASSUME Provision \/ UNCHANGED vars PROVE LockInv' /\ HeldApart'
  BY <1>3, LockFrame DEF Provision, loop, tx, vars
<1>4. ASSUME NEW w \in Workers, Acquire(w) PROVE LockInv' /\ HeldApart'
  BY <1>4, LockAcquire
<1>5. ASSUME NEW w \in Workers, SkipPair(w) \/ EndPass(w) \/ Restart(w)
      PROVE  LockInv' /\ HeldApart'
  <2>1. UNCHANGED <<batch, rows>> /\ batch[w] = <<>>
    BY <1>5 DEF SkipPair, EndPass, Restart, world, tx, LockInv, Busy
  <2>2. /\ pc'[w] \notin Busy
        /\ \A v \in Workers \ {w} : at'[v] = at[v] /\ pc'[v] = pc[v]
    BY <1>5 DEF SkipPair, EndPass, Restart, NextPair, TypeOK, Busy
  <2>3. \A v \in Workers \ {w} : \A i \in Held(v) : i \in DOMAIN rows
    BY DEF HeldApart
  <2> QED BY <2>1, <2>2, <2>3, LockRelease
<1>6. ASSUME NEW w \in Workers,
             SinkNotFound(w) \/ ExecutionError(w) \/ DbError(w) \/ Crash(w)
      PROVE  LockInv' /\ HeldApart'
  <2>1. EndTx(w) /\ UNCHANGED rows
    BY <1>6 DEF SinkNotFound, ExecutionError, DbError, Crash, Rollback, world
  <2>2. /\ pc'[w] \notin Busy
        /\ \A v \in Workers \ {w} : at'[v] = at[v] /\ pc'[v] = pc[v]
    BY <1>6 DEF SinkNotFound, ExecutionError, DbError, Crash, Rollback, NextPair,
                TypeOK, Busy, loop
  <2>3. \A v \in Workers \ {w} : \A i \in Held(v) : i \in DOMAIN rows
    BY DEF HeldApart
  <2> QED BY <2>1, <2>2, <2>3, EndTxFacts, LockRelease
<1>7. ASSUME NEW w \in Workers, Commit(w) PROVE LockInv' /\ HeldApart'
  <2>1. EndTx(w) /\ rows' = Committed(w)
    BY <1>7 DEF Commit
  <2>2. /\ pc'[w] \notin Busy
        /\ \A v \in Workers \ {w} : at'[v] = at[v] /\ pc'[v] = pc[v]
    BY <1>7 DEF Commit, NextPair, TypeOK, Busy
  <2>3. \A v \in Workers \ {w} : \A i \in Held(v) : i \in DOMAIN rows' /\ rows'[i] = rows[i]
    <3>1. \A v \in Workers \ {w} : \A i \in Held(v) : i \in DOMAIN rows
      BY DEF HeldApart
    <3>2. DOMAIN rows' = DOMAIN rows \cup DOMAIN ins[w]
      BY <2>1, CommitFacts
    <3>0. \A v \in Workers \ {w} : \A i \in Held(v) : Committed(w)[i] = rows[i]
      BY CommitFacts
    <3>3. \A v \in Workers \ {w} : \A i \in Held(v) : rows'[i] = rows[i]
      BY <2>1, <3>0
    <3> QED BY <3>1, <3>2, <3>3
  <2> QED BY <2>1, <2>2, <2>3, EndTxFacts, LockRelease
<1> QED BY <1>1, <1>2, <1>3, <1>4, <1>5, <1>6, <1>7 DEF Next, Step

-----------------------------------------------------------------------------
(* Ids *)

\* Every step keeps the ids of the rows apart, ids being issued once.
LEMMA IdsStep ==
    ASSUME TypeOK, LockInv, HeldApart, IdsInv, StageInv, [Next]_vars
    PROVE  IdsInv'
<1>1. ASSUME NEW w \in Workers,
             Exit(w) \/ Wake(w) \/ ResolveSinks(w) \/ Execute(w) \/ MarkProcessed(w)
               \/ Stop(w) \/ SkipPair(w) \/ EndPass(w) \/ Restart(w) \/ Acquire(w)
      PROVE  IdsInv'
  <2>1. UNCHANGED <<rows, nextId, ins>>
    BY <1>1 DEF Exit, Wake, ResolveSinks, Execute, MarkProcessed, Stop, SkipPair,
                EndPass, Restart, Acquire, world, tx
  <2> QED BY <2>1 DEF IdsInv
<1>2. ASSUME NEW w \in Workers,
             SinkNotFound(w) \/ ExecutionError(w) \/ DbError(w) \/ Crash(w)
      PROVE  IdsInv'
  <2>1. EndTx(w) /\ UNCHANGED <<rows, nextId>>
    BY <1>2 DEF SinkNotFound, ExecutionError, DbError, Crash, Rollback, world
  <2>2. \A v \in Workers : \A i \in DOMAIN ins'[v] : i \in DOMAIN ins[v]
    BY <2>1, EndTxFacts, EmptyTable
  <2> QED BY <2>1, <2>2 DEF IdsInv
<1>3. ASSUME NEW w \in Workers, AddEntities(w) PROVE IdsInv'
  <2>1. UNCHANGED rows /\ nextId \in Nat /\ Len(batch[w]) \in Nat
    BY <1>3, HeldType DEF AddEntities, world, TypeOK
  <2>0. nextId' = nextId + Len(batch[w])
    BY <1>3, AddEntitiesRows
  <2>2. \A i \in NewIds(w) : i \in Nat /\ i >= nextId /\ i < nextId'
    BY <2>0, <2>1 DEF NewIds
  <2>3. \A i \in DOMAIN rows : i \in Nat /\ i < nextId /\ i < nextId'
    BY <2>0, <2>1 DEF IdsInv, TypeOK, IsTable
  <2>4. \A v \in Workers : \A i \in DOMAIN ins[v] : i \in Nat /\ i < nextId /\ i < nextId'
    BY <2>0, <2>1 DEF IdsInv, TypeOK, IsTable
  <2>5. \A i \in NewIds(w) : /\ i \notin DOMAIN rows
                             /\ \A v \in Workers : i \notin DOMAIN ins[v]
    BY <2>1, <2>2, <2>3, <2>4
  <2>6. \A v \in Workers \ {w} : ins'[v] = ins[v]
    BY <1>3, AddEntitiesRows
  <2>7. DOMAIN ins'[w] = DOMAIN ins[w] \cup NewIds(w)
    BY <1>3, AddEntitiesRows
  <2> HIDE DEF NewIds
  <2>8. \A i \in DOMAIN rows' : i < nextId' /\ rows'[i].parent \in DOMAIN rows' \cup {0}
    BY <2>1, <2>3 DEF IdsInv
  <2>9. ASSUME NEW v \in Workers, NEW i \in DOMAIN ins'[v]
        PROVE  /\ i < nextId' /\ i \notin DOMAIN rows'
               /\ \A u \in Workers \ {v} : i \notin DOMAIN ins'[u]
    BY <2>1, <2>2, <2>4, <2>5, <2>6, <2>7 DEF IdsInv
  <2> QED BY <2>8, <2>9 DEF IdsInv
<1>4. ASSUME NEW w \in Workers, Commit(w) PROVE IdsInv'
  <2>1. EndTx(w) /\ rows' = Committed(w) /\ UNCHANGED nextId /\ pc[w] = "commit"
    BY <1>4 DEF Commit
  <2>2. DOMAIN rows' = DOMAIN rows \cup DOMAIN ins[w]
    BY <2>1, CommitFacts
  <2>3. ASSUME NEW i \in DOMAIN rows'
        PROVE  i < nextId' /\ rows'[i].parent \in DOMAIN rows' \cup {0}
    <3>1. CASE i \in DOMAIN ins[w]
      <4>1. rows'[i] = ins[w][i] /\ ins[w][i].parent \in Held(w)
        BY <2>1, <3>1, CommitFacts DEF StageInv, Stage, PartlyDelivered
      <4> QED BY <2>1, <2>2, <3>1, <4>1 DEF IdsInv, HeldApart
    <3>2. CASE i \in DOMAIN rows
      <4>1. rows[i] \in Row /\ i \notin DOMAIN ins[w]
        BY <3>2 DEF TypeOK, IsTable, IdsInv
      <4>2. rows'[i] = rows[i] \/ rows'[i] = [rows[i] EXCEPT !.status = mark[w]]
        BY <2>1, <3>2, <4>1 DEF Committed
      <4>3. rows'[i].parent = rows[i].parent
        BY <4>1, <4>2 DEF Row
      <4> QED BY <2>1, <2>2, <3>2, <4>3 DEF IdsInv
    <3> QED BY <2>2, <3>1, <3>2
  <2>4. \A v \in Workers : DOMAIN ins'[v] = IF v = w THEN {} ELSE DOMAIN ins[v]
    BY <2>1, EndTxFacts, EmptyTable
  <2>5. ASSUME NEW v \in Workers, NEW i \in DOMAIN ins'[v]
        PROVE  /\ i < nextId' /\ i \notin DOMAIN rows'
               /\ \A u \in Workers \ {v} : i \notin DOMAIN ins'[u]
    BY <2>1, <2>2, <2>4 DEF IdsInv
  <2> QED BY <2>3, <2>5 DEF IdsInv
<1>5. ASSUME Ingest PROVE IdsInv'
  <2>1. /\ UNCHANGED ins /\ nextId \in Nat /\ nextId' \in Nat /\ nextId < nextId'
        /\ \A i \in DOMAIN rows : i \in DOMAIN rows' /\ rows'[i] = rows[i]
        /\ \A i \in DOMAIN rows' \ DOMAIN rows :
             i \in Nat /\ nextId <= i /\ i < nextId' /\ rows'[i].parent = 0
    BY <1>5, IngestFacts DEF Ingest, tx
  <2>2. \A i \in DOMAIN rows : i \in Nat /\ i < nextId
    BY DEF IdsInv, TypeOK, IsTable
  <2>3. \A v \in Workers : \A i \in DOMAIN ins[v] : i \in Nat /\ i < nextId
    BY DEF IdsInv, TypeOK, IsTable
  <2>4. ASSUME NEW i \in DOMAIN rows'
        PROVE  i < nextId' /\ rows'[i].parent \in DOMAIN rows' \cup {0}
    <3>1. CASE i \in DOMAIN rows
      BY <2>1, <2>2, <3>1 DEF IdsInv
    <3>2. CASE i \notin DOMAIN rows
      BY <2>1, <3>2
    <3> QED BY <3>1, <3>2
  <2>5. ASSUME NEW v \in Workers, NEW i \in DOMAIN ins'[v]
        PROVE  /\ i < nextId' /\ i \notin DOMAIN rows'
               /\ \A u \in Workers \ {v} : i \notin DOMAIN ins'[u]
    BY <2>1, <2>3 DEF IdsInv
  <2> QED BY <2>4, <2>5 DEF IdsInv
<1>6. ASSUME Provision \/ UNCHANGED vars PROVE IdsInv'
  BY <1>6 DEF Provision, vars, tx, IdsInv
<1> QED BY <1>1, <1>2, <1>3, <1>4, <1>5, <1>6 DEF Next, Step

-----------------------------------------------------------------------------
(* Stages of a transaction *)

\* A step that leaves v's transaction and the rows it holds alone.
LEMMA StageFrame ==
    ASSUME NEW v \in Workers, Stage(v), pc'[v] = pc[v], ins'[v] = ins[v],
           slot'[v] = slot[v], batch'[v] = batch[v], at'[v] = at[v], mark'[v] = mark[v],
           \A i \in Held(v) : rows'[i] = rows[i]
    PROVE  Stage(v)'
<1>1. Held(v)' = Held(v) /\ PipelineOf(v)' = PipelineOf(v)
  BY DEF Held, PipelineOf
<1>2. Raises(v)' <=> Raises(v)
  BY <1>1 DEF Raises
<1>3. PartlyDelivered(v) => PartlyDelivered(v)'
  BY <1>1 DEF PartlyDelivered
<1> QED BY <1>1, <1>2, <1>3 DEF Stage

\* Before the first insertion nothing is delivered and nothing is due.
LEMMA NothingDelivered ==
    ASSUME NEW w \in Workers, DOMAIN ins[w] = {}, slot[w] = 1
    PROVE  PartlyDelivered(w)
BY DEF PartlyDelivered

\* execute keeps what a worker has staged in step with the batch it holds.
LEMMA StageExecute ==
    ASSUME TypeOK, LockInv, StageInv, NEW w \in Workers, Execute(w)
    PROVE  Stage(w)'
<1>1. /\ pc[w] = "execute" /\ ~Raises(w) /\ pc'[w] = "write"
      /\ UNCHANGED <<rows, at, batch, slot, ins>>
  BY DEF Execute, TypeOK, world, loop
<1>2. DOMAIN ins[w] = {} /\ slot[w] = 1
  BY <1>1 DEF StageInv, Stage
<1>3. PartlyDelivered(w)'
  BY <1>1, <1>2 DEF PartlyDelivered
<1>4. ~Raises(w)' /\ PipelineOf(w)' = PipelineOf(w)
  BY <1>1 DEF Raises, Held, PipelineOf
<1>5. Len(Sinks[PipelineOf(w)]) \in Nat
  BY <1>1, PairType DEF LockInv, Busy
<1> QED BY <1>1, <1>2, <1>3, <1>4, <1>5 DEF Stage

\* add_entities for one sink extends the staged copies by that sink only.
LEMMA StageAddEntities ==
    ASSUME TypeOK, LockInv, HeldApart, IdsInv, StageInv,
           NEW w \in Workers, AddEntities(w)
    PROVE  Stage(w)'
<1> DEFINE p == PipelineOf(w)
           k == slot[w]
           src(i) == batch[w][i - nextId + 1]
<1>1. /\ pc[w] = "write" /\ k \in Nat \ {0} /\ k <= Len(Sinks[p]) /\ slot'[w] = k + 1
      /\ UNCHANGED <<rows, at, batch, pc, mark>> /\ Len(Sinks[p]) \in Nat
  BY PairType DEF AddEntities, TypeOK, world, loop, LockInv, Busy
<1>2. PartlyDelivered(w) /\ ~Raises(w)
  BY <1>1 DEF StageInv, Stage
<1>3. Held(w)' = Held(w) /\ PipelineOf(w)' = p /\ ~Raises(w)'
  BY <1>1, <1>2 DEF Held, PipelineOf, Raises
<1>4. \A i \in DOMAIN ins[w] : i \in Nat /\ i < nextId
  BY DEF IdsInv, TypeOK, IsTable
<1>5. DOMAIN ins'[w] = DOMAIN ins[w] \cup NewIds(w)
  BY AddEntitiesRows
<1>6. \A i \in DOMAIN ins[w] : i \notin NewIds(w) /\ ins'[w][i] = ins[w][i]
  <2>1. \A i \in DOMAIN ins[w] : i \notin NewIds(w)
    BY <1>4, HeldType DEF NewIds, TypeOK
  <2> QED BY <2>1, AddEntitiesRows
<1>7. \A i \in NewIds(w) :
        /\ src(i) \in Held(w) /\ i \in Nat
        /\ ins'[w][i].parent = src(i) /\ ins'[w][i].slot = k
        /\ ins'[w][i].bucket = Sinks[p][k] /\ ins'[w][i].pipeline = p
        /\ ins'[w][i].origin = rows[src(i)].origin
        /\ ins'[w][i].status = "pending"
  <2>1. \A i \in NewIds(w) : /\ src(i) \in Held(w) /\ i \in Nat
                             /\ ins'[w][i] = CopyOf(w, i)
    BY AddEntitiesRows
  <2>2. \A i : CopyOf(w, i) = Derived(rows[src(i)], src(i), p, k, now[w])
    BY DEF CopyOf
  <2> HIDE DEF src
  <2> QED BY <2>1, <2>2 DEF Derived
<1>8. ASSUME NEW c \in DOMAIN ins'[w]
      PROVE  /\ ins'[w][c].parent \in Held(w)
             /\ ins'[w][c].slot \in 1..k
             /\ ins'[w][c].bucket = Sinks[p][ins'[w][c].slot]
             /\ ins'[w][c].pipeline = p
             /\ ins'[w][c].origin = rows[ins'[w][c].parent].origin
             /\ ins'[w][c].status = "pending"
  <2>1. CASE c \in DOMAIN ins[w]
    BY <1>1, <1>2, <1>6, <2>1 DEF PartlyDelivered
  <2>2. CASE c \in NewIds(w)
    BY <1>1, <1>7, <2>2
  <2> QED BY <1>5, <2>1, <2>2
<1>9. ASSUME NEW c \in DOMAIN ins'[w], NEW d \in DOMAIN ins'[w],
             ins'[w][c].parent = ins'[w][d].parent, ins'[w][c].slot = ins'[w][d].slot
      PROVE  c = d
  <2>1. \A i \in DOMAIN ins[w] : ins'[w][i].slot \in 1..(k - 1)
    BY <1>2, <1>6 DEF PartlyDelivered
  <2>2. CASE c \in DOMAIN ins[w] /\ d \in DOMAIN ins[w]
    BY <1>2, <1>6, <1>9, <2>2 DEF PartlyDelivered
  <2>3. CASE c \in NewIds(w) /\ d \in NewIds(w)
    <3>1. src(c) = src(d)
      BY <1>7, <1>9, <2>3
    <3>2. c - nextId + 1 \in 1..Len(batch[w]) /\ d - nextId + 1 \in 1..Len(batch[w])
      BY <2>3, AddEntitiesRows
    <3>3. c - nextId + 1 = d - nextId + 1
      BY <3>1, <3>2 DEF LockInv
    <3>4. c \in Nat /\ d \in Nat /\ nextId \in Nat
      BY <1>7, <2>3 DEF TypeOK
    <3> QED BY <3>3, <3>4
  <2>4. \A i \in NewIds(w) : ins'[w][i].slot = k
    BY <1>7
  <2> QED BY <1>1, <1>5, <1>9, <2>1, <2>2, <2>3, <2>4
<1>10. ASSUME NEW i \in Held(w), NEW m \in 1..k
       PROVE  \E c \in DOMAIN ins'[w] : ins'[w][c].parent = i /\ ins'[w][c].slot = m
  <2>1. CASE m < k
    <3>1. m \in 1..(k - 1)
      BY <1>1, <2>1
    <3>2. PICK c \in DOMAIN ins[w] : ins[w][c].parent = i /\ ins[w][c].slot = m
      BY <1>2, <3>1 DEF PartlyDelivered
    <3> QED BY <1>5, <1>6, <3>2
  <2>2. CASE m = k
    <3>1. PICK n \in 1..Len(batch[w]) : batch[w][n] = i
      BY DEF Held
    <3>2. Len(batch[w]) \in Nat /\ nextId \in Nat
      BY HeldType DEF TypeOK
    <3>3. nextId + n - 1 \in NewIds(w) /\ (nextId + n - 1) - nextId + 1 = n
      BY <3>2 DEF NewIds
    <3>4. src(nextId + n - 1) = i
      BY <3>1, <3>3
    <3> QED BY <1>5, <1>7, <2>2, <3>3, <3>4
  <2> QED BY <1>1, <2>1, <2>2
<1>11. slot'[w] - 1 = k
  BY <1>1
<1>12. PartlyDelivered(w)'
  BY <1>1, <1>3, <1>8, <1>9, <1>10, <1>11 DEF PartlyDelivered
<1>13. slot'[w] <= Len(Sinks[PipelineOf(w)']) + 1
  BY <1>1, <1>3
<1> QED BY <1>1, <1>3, <1>12, <1>13 DEF Stage

\* Marking the batch as processed happens when every sink has its copies.
LEMMA StageMarkProcessed ==
    ASSUME TypeOK, LockInv, StageInv, NEW w \in Workers, MarkProcessed(w)
    PROVE  Stage(w)'
<1>1. /\ pc[w] = "write" /\ slot[w] > Len(Sinks[PipelineOf(w)])
      /\ pc'[w] = "commit" /\ mark'[w] = "processed"
      /\ UNCHANGED <<rows, at, batch, slot, ins>>
  BY DEF MarkProcessed, TypeOK, world
<1>2. /\ PartlyDelivered(w) /\ ~Raises(w)
      /\ slot[w] <= Len(Sinks[PipelineOf(w)]) + 1
  BY <1>1 DEF StageInv, Stage
<1>3. slot[w] \in Nat /\ Len(Sinks[PipelineOf(w)]) \in Nat
  BY <1>1, PairType DEF LockInv, Busy, TypeOK
<1>4. Held(w)' = Held(w) /\ PipelineOf(w)' = PipelineOf(w)
  BY <1>1 DEF Held, PipelineOf
<1>5. PartlyDelivered(w)' /\ ~Raises(w)'
  BY <1>1, <1>2, <1>4 DEF PartlyDelivered, Raises
<1>6. slot'[w] = Len(Sinks[PipelineOf(w)']) + 1
  BY <1>1, <1>2, <1>3, <1>4
<1> QED BY <1>1, <1>5, <1>6, <1>3, <1>4 DEF Stage

\* Every step keeps the relation of staged work and batch.
LEMMA StageStep ==
    ASSUME TypeOK, LockInv, HeldApart, IdsInv, StageInv, [Next]_vars
    PROVE  StageInv'
<1>0. \A v \in Workers : Stage(v)
  BY DEF StageInv
<1>1. ASSUME NEW w \in Workers,
             Exit(w) \/ Wake(w) \/ ResolveSinks(w) \/ SkipPair(w) \/ EndPass(w)
               \/ Restart(w) \/ Acquire(w)
      PROVE  StageInv'
  <2>1. /\ UNCHANGED <<rows, ins, slot>>
        /\ pc[w] \notin {"write", "commit"} /\ pc'[w] \notin {"write", "commit"}
    BY <1>1 DEF Exit, Wake, ResolveSinks, SkipPair, EndPass, Restart, Acquire,
                NextPair, TypeOK, world, tx
  <2>2. \A v \in Workers \ {w} :
          pc'[v] = pc[v] /\ at'[v] = at[v] /\ batch'[v] = batch[v] /\ mark'[v] = mark[v]
    BY <1>1 DEF Exit, Wake, ResolveSinks, SkipPair, EndPass, Restart, Acquire,
                NextPair, TypeOK, loop, tx
  <2>3. Stage(w)'
    BY <1>0, <2>1 DEF Stage
  <2>4. \A v \in Workers \ {w} : Stage(v)'
    BY <1>0, <2>1, <2>2, StageFrame
  <2> QED BY <2>3, <2>4 DEF StageInv
<1>2. ASSUME NEW w \in Workers,
             SinkNotFound(w) \/ ExecutionError(w) \/ DbError(w) \/ Crash(w) \/ Commit(w)
      PROVE  StageInv'
  <2>1. EndTx(w) /\ pc'[w] \notin {"write", "commit"}
    BY <1>2 DEF SinkNotFound, ExecutionError, DbError, Crash, Commit, Rollback,
                NextPair, TypeOK
  <2>2. \A v \in Workers \ {w} : pc'[v] = pc[v] /\ at'[v] = at[v]
    BY <1>2 DEF SinkNotFound, ExecutionError, DbError, Crash, Commit, Rollback,
                NextPair, TypeOK, loop
  <2>3. \A v \in Workers \ {w} : \A i \in Held(v) : rows'[i] = rows[i]
    <3>1. CASE Commit(w)
      <4>1. rows' = Committed(w)
        BY <3>1 DEF Commit
      <4>2. \A v \in Workers \ {w} : \A i \in Held(v) : Committed(w)[i] = rows[i]
        BY CommitFacts
      <4> QED BY <4>1, <4>2
    <3>2. CASE ~Commit(w)
      BY <1>2, <3>2 DEF SinkNotFound, ExecutionError, DbError, Crash, Rollback, world
    <3> QED BY <3>1, <3>2
  <2>4. Stage(w)'
    BY <2>1, EndTxFacts, EmptyTable DEF Stage
  <2>5. \A v \in Workers \ {w} : Stage(v)'
    BY <1>0, <2>1, <2>2, <2>3, EndTxFacts, StageFrame
  <2> QED BY <2>4, <2>5 DEF StageInv
<1>3. ASSUME NEW w \in Workers,
             Execute(w) \/ AddEntities(w) \/ MarkProcessed(w)
      PROVE  StageInv'
  <2>1. Stage(w)'
    BY <1>3, StageExecute, StageAddEntities, StageMarkProcessed
  <2>2. UNCHANGED <<rows, at, batch>>
    BY <1>3 DEF Execute, AddEntities, MarkProcessed, world, loop
  <2>3. \A v \in Workers \ {w} :
          pc'[v] = pc[v] /\ mark'[v] = mark[v] /\ slot'[v] = slot[v]
    BY <1>3 DEF Execute, AddEntities, MarkProcessed, TypeOK
  <2>4. \A v \in Workers \ {w} : ins'[v] = ins[v]
    BY <1>3, AddEntitiesRows DEF Execute, MarkProcessed
  <2>5. \A v \in Workers \ {w} : Stage(v)'
    BY <1>0, <2>2, <2>3, <2>4, StageFrame
  <2> QED BY <2>1, <2>5 DEF StageInv
<1>4. ASSUME Ingest PROVE StageInv'
  <2>1. UNCHANGED <<pc, at, batch, mark, slot, ins>>
    BY <1>4 DEF Ingest, loop, tx
  <2>2. \A v \in Workers : \A i \in Held(v) : i \in DOMAIN rows
    BY DEF HeldApart
  <2>3. \A v \in Workers : \A i \in Held(v) : rows'[i] = rows[i]
    BY <1>4, <2>2, IngestFacts
  <2> QED BY <1>0, <2>1, <2>3, StageFrame DEF StageInv
<1>5. ASSUME NEW w \in Workers, Stop(w) PROVE StageInv'
  BY <1>0, <1>5, StageFrame DEF Stop, world, tx, StageInv
<1>6. ASSUME Provision \/ UNCHANGED vars PROVE StageInv'
  BY <1>0, <1>6, StageFrame DEF Provision, vars, loop, tx, StageInv
<1> QED BY <1>1, <1>2, <1>3, <1>4, <1>5, <1>6 DEF Next, Step

-----------------------------------------------------------------------------
(* Exactly once *)

\* DeliveredOnce looks at a row and its children only, and not at any status.
LEMMA DeliveredStable ==
    ASSUME NEW t, NEW u, NEW i, NEW p,
           Children(u, i) = Children(t, i), DeliveredOnce(t, i, p),
           u[i].bucket = t[i].bucket, u[i].origin = t[i].origin,
           \A c \in Children(t, i) :
             /\ u[c].slot = t[c].slot /\ u[c].bucket = t[c].bucket
             /\ u[c].pipeline = t[c].pipeline /\ u[c].origin = t[c].origin
    PROVE  DeliveredOnce(u, i, p)
BY DEF DeliveredOnce

\* A commit adds rows and changes nothing of an old one but its status.
LEMMA CommitKeeps ==
    ASSUME TypeOK, HeldApart, IdsInv, NEW w \in Workers, NEW i \in DOMAIN rows
    PROVE  /\ i \in DOMAIN Committed(w)
           /\ Committed(w)[i].bucket = rows[i].bucket
           /\ Committed(w)[i].pipeline = rows[i].pipeline
           /\ Committed(w)[i].origin = rows[i].origin
           /\ Committed(w)[i].parent = rows[i].parent
           /\ Committed(w)[i].slot = rows[i].slot
<1>1. rows[i] \in Row /\ i \notin DOMAIN ins[w]
  BY DEF TypeOK, IsTable, IdsInv
<1>2. i \in DOMAIN Committed(w)
  BY CommitFacts
<1>3. Committed(w)[i] = rows[i] \/ Committed(w)[i] = [rows[i] EXCEPT !.status = mark[w]]
  BY <1>1 DEF Committed
<1> QED BY <1>1, <1>2, <1>3 DEF Row

\* Which rows are made from which, after a commit.
LEMMA CommitChildren ==
    ASSUME IInv, NEW w \in Workers, Commit(w)
    PROVE  /\ \A i \in Held(w) :
                Children(rows', i) = {c \in DOMAIN ins[w] : ins[w][c].parent = i}
           /\ \A i \in DOMAIN rows \ Held(w) : Children(rows', i) = Children(rows, i)
           /\ \A i \in DOMAIN ins[w] : Children(rows', i) = {}
<1> USE DEF IInv
<1>1. rows' = Committed(w) /\ PartlyDelivered(w)
  BY DEF Commit, StageInv, Stage
<1>2. DOMAIN rows' = DOMAIN rows \cup DOMAIN ins[w]
  BY <1>1, CommitFacts
<1>3. \A c \in DOMAIN ins[w] : rows'[c] = ins[w][c] /\ c \notin DOMAIN rows
  BY <1>1, CommitFacts
<1>4. \A c \in DOMAIN rows : rows'[c].parent = rows[c].parent
  BY <1>1, CommitKeeps
<1>5. \A c \in DOMAIN ins[w] : ins[w][c].parent \in Held(w)
  BY <1>1 DEF PartlyDelivered
<1>6. \A i \in Held(w) : i \in DOMAIN rows /\ Children(rows, i) = {}
  BY DEF HeldApart, ExactlyOnce
<1>7. \A c \in DOMAIN rows : rows[c].parent \in DOMAIN rows \cup {0}
  BY DEF IdsInv
<1>8. \A c \in DOMAIN ins[w] : c # 0
  BY DEF TypeOK, IsTable
<1>9. ASSUME NEW i \in Held(w)
      PROVE  Children(rows', i) = {c \in DOMAIN ins[w] : ins[w][c].parent = i}
  <2>1. \A c \in DOMAIN rows : rows[c].parent # i
    BY <1>6 DEF Children
  <2> QED BY <1>2, <1>3, <1>4, <2>1 DEF Children
<1>10. ASSUME NEW i \in DOMAIN rows \ Held(w)
       PROVE  Children(rows', i) = Children(rows, i)
  BY <1>2, <1>3, <1>4, <1>5 DEF Children
<1>11. ASSUME NEW i \in DOMAIN ins[w] PROVE Children(rows', i) = {}
  BY <1>2, <1>3, <1>4, <1>5, <1>6, <1>7, <1>8 DEF Children
<1> QED BY <1>9, <1>10, <1>11

\* A commit takes each row of the batch through the pipeline exactly once.
LEMMA CommitDelivers ==
    ASSUME IInv, NEW w \in Workers, Commit(w), NEW i \in Held(w)
    PROVE  /\ DeliveredOnce(rows', i, PipelineOf(w))
           /\ rows'[i] = [rows[i] EXCEPT !.status = "processed"]
           /\ rows[i].status = "pending" /\ i \in DOMAIN rows
           /\ <<PipelineOf(w), rows'[i].origin>> \notin Fails
           /\ PipelineOf(w) \in Pipelines
<1> USE DEF IInv
<1> DEFINE p == PipelineOf(w)
<1>1. /\ rows' = Committed(w) /\ PartlyDelivered(w) /\ mark[w] = "processed"
      /\ slot[w] = Len(Sinks[p]) + 1 /\ ~Raises(w) /\ at[w] \in 1..Len(Pairs)
  BY DEF Commit, StageInv, Stage, LockInv, Busy
<1>2. /\ p \in Pipelines /\ Len(Sinks[p]) \in Nat
      /\ slot[w] - 1 = Len(Sinks[p])
  BY <1>1, PairType
<1>3. Children(rows', i) = {c \in DOMAIN ins[w] : ins[w][c].parent = i}
  BY CommitChildren
<1>4. \A c \in DOMAIN ins[w] : rows'[c] = ins[w][c]
  BY <1>1, CommitFacts
<1>5. i \in DOMAIN rows /\ rows[i].status = "pending" /\ rows[i].bucket = SourceOf(w)
  BY DEF HeldApart
<1>6. rows'[i].bucket = rows[i].bucket /\ rows'[i].origin = rows[i].origin
  BY <1>1, <1>5, CommitKeeps
<1>7. Reads(p, rows'[i].bucket)
  BY <1>1, <1>5, <1>6 DEF Reads, PipelineOf, SourceOf
<1>8. \A k \in 1..Len(Sinks[p]) : \E c \in Children(rows', i) : rows'[c].slot = k
  BY <1>1, <1>2, <1>3, <1>4 DEF PartlyDelivered
<1>9. \A c \in Children(rows', i) :
        /\ rows'[c].slot \in 1..Len(Sinks[p])
        /\ rows'[c].bucket = Sinks[p][rows'[c].slot]
        /\ rows'[c].pipeline = p /\ rows'[c].origin = rows'[i].origin
  BY <1>1, <1>2, <1>3, <1>4, <1>6 DEF PartlyDelivered
<1>10. \A c, d \in Children(rows', i) : rows'[c].slot = rows'[d].slot => c = d
  BY <1>1, <1>3, <1>4 DEF PartlyDelivered
<1>11. rows'[i] = [rows[i] EXCEPT !.status = "processed"]
  <2>1. Committed(w)[i] = [rows[i] EXCEPT !.status = mark[w]]
    BY CommitFacts
  <2> QED BY <1>1, <2>1
<1>12. <<p, rows'[i].origin>> \notin Fails
  BY <1>1, <1>6 DEF Raises
<1> QED BY <1>2, <1>5, <1>7, <1>8, <1>9, <1>10, <1>11, <1>12 DEF DeliveredOnce

\* Every step keeps "exactly once": a commit adds the copies of a batch it alone held.
LEMMA OnceStep ==
    ASSUME IInv, [Next]_vars
    PROVE  ExactlyOnce' /\ NothingStranded'
<1> USE DEF IInv
<1>1. ASSUME NEW w \in Workers, Commit(w) PROVE ExactlyOnce' /\ NothingStranded'
  <2>1. rows' = Committed(w) /\ PartlyDelivered(w)
    BY <1>1 DEF Commit, StageInv, Stage
  <2>2. DOMAIN rows' = DOMAIN rows \cup DOMAIN ins[w]
    BY <2>1, CommitFacts
  <2>3. ASSUME NEW i \in DOMAIN ins[w]
        PROVE  rows'[i].status = "pending" /\ Children(rows', i) = {}
    <3>1. rows'[i] = ins[w][i]
      BY <2>1, CommitFacts
    <3> QED BY <1>1, <2>1, <3>1, CommitChildren DEF PartlyDelivered
  <2>4. ASSUME NEW i \in DOMAIN rows \ Held(w)
        PROVE  /\ rows'[i] = rows[i]
               /\ \A p : DeliveredOnce(rows, i, p) => DeliveredOnce(rows', i, p)
               /\ Children(rows', i) = Children(rows, i)
    <3>1. rows'[i] = rows[i]
      BY <2>1, CommitFacts
    <3>2. Children(rows', i) = Children(rows, i)
      BY <1>1, CommitChildren
    <3>3. \A c \in Children(rows, i) : c \in DOMAIN rows
      BY DEF Children
    <3>4. \A c \in Children(rows, i) :
            /\ rows'[c].slot = rows[c].slot /\ rows'[c].bucket = rows[c].bucket
            /\ rows'[c].pipeline = rows[c].pipeline /\ rows'[c].origin = rows[c].origin
      BY <2>1, <3>3, CommitKeeps
    <3> QED BY <3>1, <3>2, <3>4, DeliveredStable
  <2>5. ASSUME NEW i \in Held(w)
        PROVE  /\ rows'[i].status = "processed"
               /\ \E p \in Pipelines : /\ DeliveredOnce(rows', i, p)
                                       /\ <<p, rows'[i].origin>> \notin Fails
    <3>1. rows[i] \in Row
      BY <1>1, CommitDelivers DEF TypeOK, IsTable
    <3>2. rows'[i] = [rows[i] EXCEPT !.status = "processed"]
      BY <1>1, CommitDelivers
    <3>3. rows'[i].status = "processed"
      BY <3>1, <3>2 DEF Row
    <3> QED BY <1>1, <3>3, CommitDelivers
  <2>6. NothingStranded'
    BY <2>2, <2>3, <2>4, <2>5 DEF NothingStranded
  <2>7. ExactlyOnce'
    <3> SUFFICES ASSUME NEW i \in DOMAIN rows'
                 PROVE  /\ rows'[i].status = "pending" => Children(rows', i) = {}
                        /\ rows'[i].status = "processed" =>
                             \E p \in Pipelines :
                               /\ DeliveredOnce(rows', i, p)
                               /\ <<p, rows'[i].origin>> \notin Fails
      BY DEF ExactlyOnce
    <3>1. CASE i \in DOMAIN ins[w]
      BY <2>3, <3>1
    <3>2. CASE i \in Held(w)
      BY <2>5, <3>2
    <3>3. CASE i \in DOMAIN rows \ Held(w)
      BY <2>4, <3>3 DEF ExactlyOnce
    <3> QED BY <2>2, <3>1, <3>2, <3>3
  <2> QED BY <2>6, <2>7
<1>2. ASSUME Ingest PROVE ExactlyOnce' /\ NothingStranded'
  <2> DEFINE new == DOMAIN rows' \ DOMAIN rows
  <2>1. /\ \A i \in DOMAIN rows : i \in DOMAIN rows' /\ rows'[i] = rows[i]
        /\ \A i \in new : rows'[i].status = "pending" /\ rows'[i].parent = 0
    BY <1>2, IngestFacts
  <2>2. \A i \in new : i # 0 /\ \A c \in DOMAIN rows : rows[c].parent # i
    BY <1>2, IngestFacts DEF IdsInv
  <2>3. \A i \in new : Children(rows', i) = {}
    BY <2>1, <2>2 DEF Children
  <2>4. \A i \in DOMAIN rows : Children(rows', i) = Children(rows, i)
    <3>1. \A i \in DOMAIN rows : i # 0
      BY DEF TypeOK, IsTable
    <3> QED BY <2>1, <3>1 DEF Children
  <2>5. \A i \in DOMAIN rows : \A p : DeliveredOnce(rows, i, p) => DeliveredOnce(rows', i, p)
    <3>1. \A i : Children(rows, i) \subseteq DOMAIN rows
      BY DEF Children
    <3> QED BY <2>1, <2>4, <3>1, DeliveredStable
  <2> QED BY <2>1, <2>3, <2>4, <2>5 DEF ExactlyOnce, NothingStranded
<1>3. ASSUME UNCHANGED rows PROVE ExactlyOnce' /\ NothingStranded'
  BY <1>3 DEF ExactlyOnce, NothingStranded
<1>4. CASE \E w \in Workers : Commit(w)
  BY <1>1, <1>4
<1>5. CASE Ingest
  BY <1>2, <1>5
<1>6. CASE ~(\E w \in Workers : Commit(w)) /\ ~Ingest
  <2>1. UNCHANGED rows
    BY <1>6 DEF Next, Step, Exit, SkipPair, EndPass, Wake, Acquire, ResolveSinks,
       SinkNotFound, Execute, ExecutionError, AddEntities, MarkProcessed, DbError, Crash,
       Restart, Stop, Provision, Rollback, world, vars
  <2> QED BY <1>3, <2>1
<1> QED BY <1>4, <1>5, <1>6

-----------------------------------------------------------------------------
(* The theorems *)

\* The inductive invariant holds initially.
LEMMA InvInit == Init => IInv
<1> SUFFICES ASSUME Init PROVE IInv
  OBVIOUS
<1>1. TypeOK
  BY TypeInit
<1>2. \A w \in Workers : /\ batch[w] = <<>> /\ pc[w] = "pass" /\ slot[w] = 1
                         /\ DOMAIN ins[w] = {} /\ Held(w) = {}
  BY EmptyTable DEF Init, Held
<1>3. DOMAIN rows = {}
  BY EmptyTable DEF Init
<1>4. LockInv /\ HeldApart /\ IdsInv /\ StageInv
  BY <1>2, <1>3 DEF LockInv, HeldApart, IdsInv, StageInv, Stage, Busy
<1>5. ExactlyOnce /\ NothingStranded
  BY <1>3 DEF ExactlyOnce, NothingStranded
<1> QED BY <1>1, <1>4, <1>5 DEF IInv

\* Every step keeps the inductive invariant.
LEMMA InvStep == IInv /\ [Next]_vars => IInv'
<1> SUFFICES ASSUME IInv, [Next]_vars PROVE IInv'
  OBVIOUS
<1>1. TypeOK'
  BY TypeStep DEF IInv
<1>2. LockInv' /\ HeldApart'
  BY LockStep DEF IInv
<1>3. IdsInv' /\ StageInv'
  BY IdsStep, StageStep DEF IInv
<1>4. ExactlyOnce' /\ NothingStranded'
  BY OnceStep
<1> QED BY <1>1, <1>2, <1>3, <1>4 DEF IInv

\* The inductive invariant holds in every reachable state.
LEMMA Invariance == Spec => []IInv
BY InvInit, InvStep, PTL DEF Spec

\* Every variable of the worker system keeps its type, for every instance.
THEOREM TypeCorrect == Spec => []TypeOK
<1>1. IInv => TypeOK
  BY DEF IInv
<1> QED BY <1>1, Invariance, PTL

\* Row locks: no two workers ever hold one row, whatever process_batch,
\* failures and restarts do in between.
THEOREM LocksExclude == Spec => []HeldApart
<1>1. IInv => HeldApart
  BY DEF IInv
<1> QED BY <1>1, Invariance, PTL

\* Every committed entity goes through one pipeline exactly once or not at
\* all, with any number of workers, crashes and database errors.
THEOREM OnceCorrect == Spec => []ExactlyOnce
<1>1. IInv => ExactlyOnce
  BY DEF IInv
<1> QED BY <1>1, Invariance, PTL

\* No entity is ever left "processing" where no worker would find it.
THEOREM NoneStranded == Spec => []NothingStranded
<1>1. IInv => NothingStranded
  BY DEF IInv
<1> QED BY <1>1, Invariance, PTL

-----------------------------------------------------------------------------
(* Refinement: each step of the workers is a step of BucketFlow or none.    *)

\* A commit of the worker is one Move of the abstract specification.
LEMMA CommitIsMove ==
    ASSUME IInv, NEW w \in Workers, Commit(w)
    PROVE  Flow!Next
<1> USE DEF IInv
<1> DEFINE p == PipelineOf(w)
<1>1. rows' = Committed(w) /\ PartlyDelivered(w) /\ Held(w) # {}
  BY DEF Commit, StageInv, Stage, LockInv, Busy
<1>2. DOMAIN rows' = DOMAIN rows \cup DOMAIN ins[w]
  BY <1>1, CommitFacts
<1>3. \A i \in DOMAIN rows \ Held(w) : rows'[i] = rows[i]
  BY <1>1, CommitFacts
<1>4. \A i \in Held(w) :
        /\ i \in DOMAIN rows /\ rows[i].status = "pending"
        /\ rows'[i] = [rows[i] EXCEPT !.status = "processed"]
        /\ DeliveredOnce(rows', i, p) /\ p \in Pipelines
  BY CommitDelivers
<1>5. Flow!Taken = Held(w)
  <2>1. \A i \in Held(w) : rows'[i].status # rows[i].status
    <3>1. \A i \in Held(w) : rows[i] \in Row
      BY <1>4 DEF TypeOK, IsTable
    <3> QED BY <1>4, <3>1 DEF Row
  <2> QED BY <1>3, <1>4, <2>1 DEF Flow!Taken
<1>6. \A c \in DOMAIN rows' \ DOMAIN rows :
        rows'[c].status = "pending" /\ rows'[c].parent \in Held(w)
  <2>1. \A c \in DOMAIN ins[w] : rows'[c] = ins[w][c]
    BY <1>1, CommitFacts
  <2> QED BY <1>1, <1>2, <2>1 DEF PartlyDelivered
<1>7. Flow!Move(p)
  BY <1>1, <1>2, <1>3, <1>4, <1>5, <1>6 DEF Flow!Move, Flow!DeliveredOnce, Flow!Reads, Flow!Children, DeliveredOnce, Reads, Children
<1> QED BY <1>1, <1>4, <1>7 DEF Flow!Next

\* An ingestion is one Arrive of the abstract specification.
LEMMA IngestIsArrive ==
    ASSUME IInv, Ingest
    PROVE  Flow!Next
  BY IngestFacts DEF IInv, Flow!Next, Flow!Arrive

\* The worker system implements the abstract flow: to a reader of the table
\* every transaction is one indivisible move of a batch.
THEOREM Refinement == Spec => ImplementsFlow
<1>1. Init => Flow!Init
  BY DEF Init, Flow!Init, NoRows
<1>2. IInv /\ [Next]_vars => [Flow!Next]_rows
  <2> SUFFICES ASSUME IInv, [Next]_vars, rows' # rows PROVE Flow!Next
    OBVIOUS
  <2>1. CASE \E w \in Workers : Commit(w)
    BY <2>1, CommitIsMove
  <2>2. CASE Ingest
    BY <2>2, IngestIsArrive
  <2>3. CASE ~(\E w \in Workers : Commit(w)) /\ ~Ingest
    BY <2>3 DEF Next, Step, Exit, SkipPair, EndPass, Wake, Acquire, ResolveSinks,
       SinkNotFound, Execute, ExecutionError, AddEntities, MarkProcessed, DbError, Crash,
       Restart, Stop, Provision, Rollback, world, vars
  <2> QED BY <2>1, <2>2, <2>3
<1> QED BY <1>1, <1>2, Invariance, PTL DEF Spec, ImplementsFlow, Flow!Spec
=============================================================================

------------------------------ MODULE BucketFlow ------------------------------
(***************************************************************************)
(* What the pipeline system promises to a reader of the database, with no  *)
(* worker, lock or transaction in sight: the table only ever changes by    *)
(* the arrival of new pending entities, or by one indivisible move that    *)
(* takes some pending entities of one bucket through one pipeline.         *)
(* Module PipelineWorker implements it.                                    *)
(***************************************************************************)
EXTENDS EntityTable

VARIABLE rows       \* the committed rows: a function from ids to Row

Init == rows = [i \in {} |-> 0]

\* A batch of new entities, in any bucket.
Arrive ==
    /\ DOMAIN rows \subseteq DOMAIN rows'
    /\ \A j \in DOMAIN rows : rows'[j] = rows[j]
    /\ \A i \in DOMAIN rows' \ DOMAIN rows :
         /\ rows'[i].status = "pending"
         /\ rows'[i].pipeline = NoPipeline
         /\ rows'[i].parent = 0

\* The rows this step marks processed.
Taken == {i \in DOMAIN rows : rows'[i].status # rows[i].status}

Move(p) ==
    /\ DOMAIN rows \subseteq DOMAIN rows'
    /\ Taken # {}
    /\ \A i \in Taken :
         /\ rows[i].status = "pending"
         /\ rows'[i] = [rows[i] EXCEPT !.status = "processed"]
         /\ DeliveredOnce(rows', i, p)
    /\ \A i \in DOMAIN rows \ Taken : rows'[i] = rows[i]
    /\ \A c \in DOMAIN rows' \ DOMAIN rows :
         rows'[c].status = "pending" /\ rows'[c].parent \in Taken

Next == Arrive \/ \E p \in Pipelines : Move(p)

Spec == Init /\ [][Next]_rows
=============================================================================

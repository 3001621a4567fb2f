----------------------------- MODULE EntityTable -----------------------------
(***************************************************************************)
(* The rows of stix_entity_model that the pipeline system moves between    *)
(* buckets, and the pipelines that move them.  A row keeps the columns     *)
(* that decide what happens to it; the columns a pipeline carries over     *)
(* unchanged (stix_id, creator, type, value, other_stix_ids) are one value *)
(* of Origins.  "parent" and "slot" are history: the source row a pipeline *)
(* copied, and the position in the pipeline's sink list it was written to. *)
(* The object column is the subject of module RefResolver.                 *)
(***************************************************************************)
EXTENDS Integers, Sequences

CONSTANTS
    Buckets,        \* names of the configured buckets
    Pipelines,      \* names of the configured pipelines
    NoPipeline,     \* NULL in the "pipeline" column: ingested, not derived
    Origins,        \* the carried-over columns of an entity
    Pairs,          \* run_once's loop: the (pipeline, source) pairs in order
    Sinks           \* the sink list of every pipeline

ASSUME PairsAssumption ==
    Pairs \in Seq([pipeline : Pipelines, source : Buckets])

ASSUME SinksAssumption == Sinks \in [Pipelines -> Seq(Buckets)]

ASSUME NoPipelineAssumption == NoPipeline \notin Pipelines

Status == {"pending", "processing", "processed"}

Row == [bucket   : Buckets,
        status   : Status,
        modified : Nat,
        pipeline : Pipelines \cup {NoPipeline},
        origin   : Origins,
        parent   : Nat,
        slot     : Nat]

\* Mistake: the initial state the README names ("New->Pending->Processed").
IngestedNew(b, o, t) ==
    [bucket |-> b, status |-> "new", modified |-> t,
     pipeline |-> NoPipeline, origin |-> o, parent |-> 0, slot |-> 0]

Ingested(b, o, t) ==
    [bucket |-> b, status |-> "pending", modified |-> t,
     pipeline |-> NoPipeline, origin |-> o, parent |-> 0, slot |-> 0]

\* What process_batch hands to add_entities for the result of row "src", with
\* id "i", in the k-th sink of pipeline p.
Derived(src, i, p, k, t) ==
    [bucket |-> Sinks[p][k], status |-> "pending", modified |-> t,
     pipeline |-> p, origin |-> src.origin, parent |-> i, slot |-> k]

Reads(p, b) ==
    \E n \in 1..Len(Pairs) : Pairs[n].pipeline = p /\ Pairs[n].source = b

Children(table, i) == {c \in DOMAIN table : table[c].parent = i}

\* Row i of the table has been through pipeline p exactly once: every sink of
\* p holds one copy of it, and nothing else in the table was made from it.
DeliveredOnce(table, i, p) ==
    /\ Reads(p, table[i].bucket)
    /\ \A k \in 1..Len(Sinks[p]) :
         \E c \in Children(table, i) : table[c].slot = k
    /\ \A c \in Children(table, i) :
         /\ table[c].slot \in 1..Len(Sinks[p])
         /\ table[c].bucket = Sinks[p][table[c].slot]
         /\ table[c].pipeline = p
         /\ table[c].origin = table[i].origin
    /\ \A c, d \in Children(table, i) :
         table[c].slot = table[d].slot => c = d
=============================================================================

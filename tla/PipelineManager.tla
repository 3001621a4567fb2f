---------------------------- MODULE PipelineManager ----------------------------
(***************************************************************************)
(* PipelineManager (pipeline/pipeline_manager.py): when a worker starts,   *)
(* it rejects pipelines that form a cycle of buckets, by a depth-first     *)
(* search, and then validates the pipelines one by one.                    *)
(*                                                                         *)
(* A configuration holds the roles, by name, and the pipelines.  The       *)
(* search visits buckets in sorted order; here it is any order.            *)
(***************************************************************************)
EXTENDS PipelineSteps

CONSTANTS
    Buckets,
    Configs     \* the configurations a worker may be started with

ASSUME ConfigsAssumption ==
    \A c \in Configs :
      /\ Len(c.pipelines) \in Nat
      /\ \A i \in 1..Len(c.pipelines) :
           c.pipelines[i].sources \subseteq Buckets /\ c.pipelines[i].sinks \subseteq Buckets

VARIABLES
    config,     \* the configuration file that was read
    phase,      \* "routing", "cyclic", "loading", "invalid" or "ready"
    roots,      \* sources the search has not started from
    path,       \* the buckets being visited, outermost first
    left,       \* the sinks of a bucket on the path that were not visited
    visited,
    loaded      \* how many pipelines were validated

managerVars == <<config, phase, roots, path, left, visited, loaded>>

-----------------------------------------------------------------------------
(* The graph: a key for each source, and the sinks it leads to.              *)

Pipelines(c) == {c.pipelines[i] : i \in 1..Len(c.pipelines)}

Sources(c) == UNION {p.sources : p \in Pipelines(c)}

\* Mistake: each pipeline sets the sinks of its sources, instead of adding to them.
SinksOfLast(c, b) ==
    LET reading == {i \in 1..Len(c.pipelines) : b \in c.pipelines[i].sources} IN
      IF reading = {} THEN {}
      ELSE c.pipelines[CHOOSE i \in reading : \A j \in reading : j <= i].sinks

Sinks(c, b) == UNION {p.sinks : p \in {p \in Pipelines(c) : b \in p.sources}}

-----------------------------------------------------------------------------
(* The validation of a pipeline: _validate_role, then PipelineExecutor.      *)

ValidRole(c, p) ==
    /\ p.role \in DOMAIN c.roles
    /\ p.sources \subseteq c.roles[p.role].can_read
    /\ p.sinks \subseteq c.roles[p.role].can_write

ValidPipeline(c, p) ==
    /\ ValidRole(c, p)
    /\ \A i \in 1..Len(p.steps) : ValidStep(p.steps[i])

-----------------------------------------------------------------------------

ManagerInit ==
    /\ config \in Configs
    /\ phase = "routing"
    /\ roots = Sources(config)
    /\ path = <<>>
    /\ left = [b \in Buckets |-> {}]
    /\ visited = {}
    /\ loaded = 0

OnPath == {path[i] : i \in 1..Len(path)}
Top == path[Len(path)]

\* Mistake: only the bucket the search started from closes a cycle.
ClosesAtRoot(b) == path # <<>> /\ b = path[1]

Closes(b) == b \in OnPath

\* "for bucket in sorted(graph)": the search starts again from a source.
VisitRoot(b) ==
    /\ phase = "routing" /\ path = <<>> /\ b \in roots
    /\ roots' = roots \ {b}
    /\ IF b \in visited
       THEN UNCHANGED <<path, left>>
       ELSE /\ path' = <<b>>
            /\ left' = [left EXCEPT ![b] = Sinks(config, b)]
    /\ UNCHANGED <<config, phase, visited, loaded>>

\* The recursive call of visit for a sink of the innermost bucket.
VisitSink(b) ==
    /\ phase = "routing" /\ path # <<>> /\ b \in left[Top]
    /\ IF Closes(b)
       THEN phase' = "cyclic" /\ UNCHANGED <<path, left>>
       ELSE /\ phase' = phase
            /\ path' = IF b \in visited THEN path ELSE Append(path, b)
            /\ left' = [x \in Buckets |->
                          IF x = Top THEN left[x] \ {b}
                          ELSE IF x = b /\ b \notin visited THEN Sinks(config, b)
                          ELSE left[x]]
    /\ UNCHANGED <<config, roots, visited, loaded>>

\* visit has no sink left: the bucket has been visited.
Return ==
    /\ phase = "routing" /\ path # <<>> /\ left[Top] = {}
    /\ visited' = visited \cup {Top}
    /\ path' = SubSeq(path, 1, Len(path) - 1)
    /\ UNCHANGED <<config, phase, roots, left, loaded>>

Routed ==
    /\ phase = "routing" /\ path = <<>> /\ roots = {}
    /\ phase' = "loading"
    /\ UNCHANGED <<config, roots, path, left, visited, loaded>>

\* The loop of _load_pipelines: an invalid pipeline stops the worker.
Load ==
    /\ phase = "loading" /\ loaded < Len(config.pipelines)
    /\ IF ValidPipeline(config, config.pipelines[loaded + 1])
       THEN loaded' = loaded + 1 /\ phase' = phase
       ELSE loaded' = loaded /\ phase' = "invalid"
    /\ UNCHANGED <<config, roots, path, left, visited>>

Ready ==
    /\ phase = "loading" /\ loaded = Len(config.pipelines)
    /\ phase' = "ready"
    /\ UNCHANGED <<config, roots, path, left, visited, loaded>>

ManagerNext ==
    \/ \E b \in Buckets : VisitRoot(b) \/ VisitSink(b)
    \/ Return \/ Routed \/ Load \/ Ready

ManagerSpec == ManagerInit /\ [][ManagerNext]_managerVars

-----------------------------------------------------------------------------

\* An entity could come back to a bucket: some buckets each lead to another of them.
Cyclic(c) ==
    \E S \in SUBSET Buckets :
      /\ S # {}
      /\ \A b \in S : \E p \in Pipelines(c) : b \in p.sources /\ p.sinks \cap S # {}

\* The types of the search, and that the path never repeats a bucket.
ManagerTypeOK ==
    /\ phase \in {"routing", "cyclic", "loading", "invalid", "ready"}
    /\ roots \subseteq Buckets
    /\ path \in Seq(Buckets)
    /\ \A i, j \in 1..Len(path) : path[i] = path[j] => i = j
    /\ left \in [Buckets -> SUBSET Buckets]
    /\ visited \subseteq Buckets
    /\ loaded \in 0..Len(config.pipelines)

\* A worker refuses to start for a cycle exactly when its pipelines, taken together,
\* can bring an entity back to a bucket it came from; a sole pipeline whose sink
\* is its source is one case (_validate_no_cycles).
Verdict ==
    /\ phase = "cyclic" => Cyclic(config)
    /\ phase \in {"loading", "invalid", "ready"} => ~Cyclic(config)
=============================================================================

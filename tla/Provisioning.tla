----------------------------- MODULE Provisioning -----------------------------
(***************************************************************************)
(* The start of a server (lifespan in server/__main__.py): the buckets the *)
(* configuration file declares are provisioned and the collections are     *)
(* validated, in one transaction, before the server answers a request.     *)
(* Several servers may run on one database; the operator edits the file    *)
(* while they do.  The name of a bucket is not unique in bucket_model.     *)
(***************************************************************************)
EXTENDS Integers, Sequences, FiniteSets

CONSTANTS
    Servers,
    Names,          \* of buckets
    Configs,        \* contents the configuration file may have
    Rolling,        \* the operator starts one server after the other
    MaxStarts       \* bound: starts of servers altogether

Modes == {"append", "merge"}

\* "buckets" is the list of declarations, "collections" the set of the bucket
\* names its collections refer to.
ASSUME ConfigsAssumption ==
    Configs \subseteq [buckets : Seq([name : Names, mode : Modes]),
                       collections : SUBSET Names]

ASSUME MaxStartsAssumption == MaxStarts \in Nat

VARIABLES
    buckets,    \* committed rows of bucket_model, by id
    nextId,     \* its id sequence
    file,       \* platform_config.yaml
    starts,     \* how many starts there have been
    pc,         \* "down", "provision" or "serving"
    config,     \* app.state.platform_config
    at,         \* the declaration provision_buckets is at
    tx,         \* rows as written by the server's transaction, by id
    active      \* app.state.active_collections

vars == <<buckets, nextId, file, starts, pc, config, at, tx, active>>

NoRows == [i \in {} |-> 0]

\* READ COMMITTED: what is committed now, under the transaction's own writes.
Visible(s) ==
    [i \in DOMAIN buckets \cup DOMAIN tx[s] |->
       IF i \in DOMAIN tx[s] THEN tx[s][i] ELSE buckets[i]]

Named(rows, n) == {i \in DOMAIN rows : rows[i].name = n}

\* get(bucket_name=...) returns the bucket: scalar_one_or_none finds one row.
Found(s, n) == Cardinality(Named(Visible(s), n)) = 1

\* The declaration provision_buckets is at, and the bucket it is about.
Current(s)  == config[s].buckets[at[s]]
Working(s)  == pc[s] = "provision" /\ at[s] <= Len(config[s].buckets)
Existing(s) == CHOOSE i \in Named(Visible(s), Current(s).name) : TRUE

\* The modes in the database and in the file, in this order.
Transition(s, from, to) ==
    /\ Working(s) /\ Found(s, Current(s).name)
    /\ Visible(s)[Existing(s)].mode = from /\ Current(s).mode = to

Write(s, i, r) ==
    tx' = [tx EXCEPT ![s] =
             [j \in DOMAIN tx[s] \cup {i} |-> IF j = i THEN r ELSE tx[s][j]]]

NextDeclaration(s) == at' = [at EXCEPT ![s] = @ + 1]

\* Mistake: a session opened without a context manager stays open.
DownSessionLeft(s) ==
    /\ pc' = [pc EXCEPT ![s] = "down"]
    /\ active' = [active EXCEPT ![s] = {}]
    /\ UNCHANGED <<buckets, nextId, file, starts, config, at, tx>>

\* The process is gone: its transaction is rolled back.
Down(s) ==
    /\ pc' = [pc EXCEPT ![s] = "down"]
    /\ tx' = [tx EXCEPT ![s] = NoRows]
    /\ active' = [active EXCEPT ![s] = {}]
    /\ UNCHANGED <<buckets, nextId, file, starts, config, at>>

-----------------------------------------------------------------------------
(* lifespan *)

Start(s) ==
    /\ pc[s] = "down" /\ starts < MaxStarts
    /\ Rolling => \A r \in Servers : pc[r] # "provision"
    /\ starts' = starts + 1
    /\ config' = [config EXCEPT ![s] = file]
    /\ at' = [at EXCEPT ![s] = 1]
    /\ pc' = [pc EXCEPT ![s] = "provision"]
    /\ UNCHANGED <<buckets, nextId, file, tx, active>>

\* Mistake: the bucket's default mode instead of the declared one.
SaveDefaultMode(s) ==
    /\ Working(s) /\ ~Found(s, Current(s).name)
    /\ Write(s, nextId, [name |-> Current(s).name, mode |-> "append"])
    /\ nextId' = nextId + 1
    /\ NextDeclaration(s)
    /\ UNCHANGED <<buckets, file, starts, pc, config, active>>

\* provision_buckets, no bucket: get returned None, or raised, for there are
\* two of that name, and the exception was swallowed.
Save(s) ==
    /\ Working(s) /\ ~Found(s, Current(s).name)
    /\ Write(s, nextId, Current(s))
    /\ nextId' = nextId + 1
    /\ NextDeclaration(s)
    /\ UNCHANGED <<buckets, file, starts, pc, config, active>>

Keep(s) ==
    /\ \E m \in Modes : Transition(s, m, m)
    /\ NextDeclaration(s)
    /\ UNCHANGED <<buckets, nextId, file, starts, pc, config, tx, active>>

\* An UPDATE waits for the other transaction that has written the row.
UpdateMode(s) ==
    /\ Transition(s, "merge", "append")
    /\ \A r \in Servers \ {s} : Existing(s) \notin DOMAIN tx[r]
    /\ Write(s, Existing(s), Current(s))
    /\ NextDeclaration(s)
    /\ UNCHANGED <<buckets, nextId, file, starts, pc, config, active>>

\* Mistake: any change of the mode is carried out.
RefuseNever(s) ==
    /\ Transition(s, "append", "merge")
    /\ Write(s, Existing(s), Current(s))
    /\ NextDeclaration(s)
    /\ UNCHANGED <<buckets, nextId, file, starts, pc, config, active>>

\* RuntimeError: the server does not come up.
Refuse(s) ==
    /\ Transition(s, "append", "merge")
    /\ Down(s)

\* validate_collections drops a collection only if get raises, which it does
\* when two buckets have the name; then the session commits.
Serve(s) ==
    /\ pc[s] = "provision" /\ ~Working(s)
    /\ active' = [active EXCEPT ![s] =
         {n \in config[s].collections : Cardinality(Named(Visible(s), n)) <= 1}]
    /\ buckets' = Visible(s)
    /\ tx' = [tx EXCEPT ![s] = NoRows]
    /\ pc' = [pc EXCEPT ![s] = "serving"]
    /\ UNCHANGED <<nextId, file, starts, config, at>>

-----------------------------------------------------------------------------
\* The server is shut down or dies, at any moment.
Exit(s) == pc[s] # "down" /\ Down(s)

Edit ==
    /\ file' \in Configs \ {file}
    /\ UNCHANGED <<buckets, nextId, starts, pc, config, at, tx, active>>

Init ==
    /\ buckets = NoRows /\ nextId = 1
    /\ file \in Configs
    /\ starts = 0
    /\ pc = [s \in Servers |-> "down"]
    /\ config = [s \in Servers |-> file]
    /\ at = [s \in Servers |-> 1]
    /\ tx = [s \in Servers |-> NoRows]
    /\ active = [s \in Servers |-> {}]

Next ==
    \/ \E s \in Servers :
         \/ Start(s) \/ Save(s) \/ Keep(s) \/ UpdateMode(s) \/ Refuse(s)
         \/ Serve(s) \/ Exit(s)
    \/ Edit

Spec == Init /\ [][Next]_vars

-----------------------------------------------------------------------------
IsTable(t) ==
    /\ t = [i \in DOMAIN t |-> t[i]]
    /\ DOMAIN t \subseteq Nat \ {0}
    /\ \A i \in DOMAIN t : t[i] \in [name : Names, mode : Modes]

\* Type invariant.  The ids in use are those the sequence has given out, and a
\* transaction is open only while its server starts.
TypeOK ==
    /\ IsTable(buckets)
    /\ nextId \in Nat \ {0}
    /\ DOMAIN buckets \subseteq 1..(nextId - 1)
    /\ file \in Configs
    /\ starts \in 0..MaxStarts
    /\ pc \in [Servers -> {"down", "provision", "serving"}]
    /\ config \in [Servers -> Configs]
    /\ at \in [Servers -> Nat \ {0}]
    /\ \A s \in Servers : at[s] <= Len(config[s].buckets) + 1
    /\ tx = [s \in Servers |-> tx[s]]
    /\ \A s \in Servers : IsTable(tx[s]) /\ DOMAIN tx[s] \subseteq 1..(nextId - 1)
    /\ \A s \in Servers : pc[s] # "provision" => DOMAIN tx[s] = {}
    /\ active \in [Servers -> SUBSET Names]

\* However often servers are started, killed half-way and reconfigured, the
\* moment one begins to serve every bucket its file declares is committed
\* exactly once, in the declared mode.
StartsAsConfigured ==
    [][\A s \in Servers : pc[s] # "serving" /\ pc'[s] = "serving" =>
         \A n \in 1..Len(config[s].buckets) :
           \E i \in DOMAIN buckets' :
             /\ Named(buckets', config[s].buckets[n].name) = {i}
             /\ buckets'[i].mode = config[s].buckets[n].mode]_vars

\* The append -> merge transition is refused whatever the other servers do: a
\* bucket a running server was told is in append mode never turns to merge
\* under it, nor gets a namesake.
AppendKept ==
    \A s \in Servers : pc[s] = "serving" =>
      \A n \in 1..Len(config[s].buckets) :
        config[s].buckets[n].mode = "append" =>
          \A i, j \in Named(buckets, config[s].buckets[n].name) :
            i = j /\ buckets[i].mode = "append"
=============================================================================

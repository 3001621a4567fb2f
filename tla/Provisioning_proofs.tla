------------------------- MODULE Provisioning_proofs -------------------------
(***************************************************************************)
(* The start of servers, for every set of servers, of bucket names and of  *)
(* configurations.  Rows of bucket_model only ever come to be, and their   *)
(* mode only ever turns from merge to append; as long as one server at a   *)
(* time provisions, a name has one row, so what a server found or wrote at *)
(* a declaration is still there when it commits, and ever after.           *)
(***************************************************************************)
EXTENDS Provisioning, FiniteSetTheorems, TLAPS

\* A configuration declares a bucket once (PlatformConfig does not check it).
DistinctNames ==
    \A c \in Configs : \A m, n \in 1..Len(c.buckets) :
        c.buckets[m].name = c.buckets[n].name => m = n

NoNamesakes(rows) ==
    \A i, j \in DOMAIN rows : rows[i].name = rows[j].name => i = j

\* The bucket of declaration d is there, in append mode if d says so.
Provided(rows, d) ==
    \E i \in DOMAIN rows :
        rows[i].name = d.name /\ (d.mode = "append" => rows[i].mode = "append")

OneAtATime ==
    \A r, s \in Servers : pc[r] = "provision" /\ pc[s] = "provision" => r = s

UniqueNames ==
    /\ NoNamesakes(buckets)
    /\ \A s \in Servers : NoNamesakes(Visible(s))

\* An update changes no name and never turns append to merge.
UpdatesKeep ==
    \A s \in Servers : \A i \in DOMAIN tx[s] \cap DOMAIN buckets :
        /\ tx[s][i].name = buckets[i].name
        /\ buckets[i].mode = "append" => tx[s][i].mode = "append"

Provisioned ==
    \A s \in Servers :
        /\ pc[s] = "provision" =>
             \A n \in 1..(at[s] - 1) : Provided(Visible(s), config[s].buckets[n])
        /\ pc[s] = "serving" =>
             \A n \in 1..Len(config[s].buckets) : Provided(buckets, config[s].buckets[n])

IInv == TypeOK /\ OneAtATime /\ UniqueNames /\ UpdatesKeep /\ Provisioned

\* The declarations before the current one, to the letter.
AsDeclared ==
    \A s \in Servers : pc[s] = "provision" =>
        \A n \in 1..(at[s] - 1) : \E i \in DOMAIN Visible(s) :
            Visible(s)[i] = config[s].buckets[n]

-----------------------------------------------------------------------------
(* The tables.                                                               *)

\* What the file declares.
LEMMA ConfigType ==
    ASSUME NEW c \in Configs
    PROVE  /\ Len(c.buckets) \in Nat
           /\ \A n \in 1..Len(c.buckets) : c.buckets[n] \in [name : Names, mode : Modes]
           /\ c.collections \subseteq Names
  <1>1. /\ c.buckets \in Seq([name : Names, mode : Modes])
        /\ c.collections \in SUBSET Names
    BY ConfigsAssumption
  <1>2. ASSUME NEW D, NEW b \in Seq(D)
        PROVE  Len(b) \in Nat /\ \A n \in 1..Len(b) : b[n] \in D
    OBVIOUS
  <1> QED BY <1>1, <1>2

\* The rows a transaction sees.
LEMMA VisibleRows ==
    ASSUME NEW s
    PROVE  /\ DOMAIN Visible(s) = DOMAIN buckets \cup DOMAIN tx[s]
           /\ \A i \in DOMAIN tx[s] : Visible(s)[i] = tx[s][i]
           /\ \A i \in DOMAIN buckets \ DOMAIN tx[s] : Visible(s)[i] = buckets[i]
           /\ DOMAIN tx[s] = {} /\ IsTable(buckets) => Visible(s) = buckets
  <1>1. DOMAIN Visible(s) = DOMAIN buckets \cup DOMAIN tx[s]
    BY DEF Visible
  <1>2. /\ \A i \in DOMAIN tx[s] : Visible(s)[i] = tx[s][i]
        /\ \A i \in DOMAIN buckets \ DOMAIN tx[s] : Visible(s)[i] = buckets[i]
    BY DEF Visible
  <1>3. ASSUME DOMAIN tx[s] = {}, IsTable(buckets)
        PROVE  Visible(s) = buckets
    <2>1. Visible(s) = [i \in DOMAIN buckets |-> buckets[i]]
      BY <1>3 DEF Visible
    <2> QED BY <1>3, <2>1 DEF IsTable
  <1> QED BY <1>1, <1>2, <1>3

LEMMA VisibleType ==
    ASSUME TypeOK, NEW s \in Servers
    PROVE  IsTable(Visible(s)) /\ DOMAIN Visible(s) \subseteq 1..(nextId - 1)
  <1>1. IsTable(buckets) /\ IsTable(tx[s])
        /\ DOMAIN buckets \subseteq 1..(nextId - 1) /\ DOMAIN tx[s] \subseteq 1..(nextId - 1)
    BY DEF TypeOK
  <1>2. Visible(s) = [i \in DOMAIN Visible(s) |-> Visible(s)[i]]
    BY DEF Visible
  <1>3. ASSUME NEW i \in DOMAIN Visible(s)
        PROVE  Visible(s)[i] \in [name : Names, mode : Modes]
    <2>1. i \in DOMAIN tx[s] => tx[s][i] \in [name : Names, mode : Modes]
      BY <1>1 DEF IsTable
    <2>2. i \in DOMAIN buckets => buckets[i] \in [name : Names, mode : Modes]
      BY <1>1 DEF IsTable
    <2> QED BY <2>1, <2>2, VisibleRows
  <1>4. DOMAIN Visible(s) \subseteq 1..(nextId - 1) /\ DOMAIN Visible(s) \subseteq Nat \ {0}
    BY <1>1, VisibleRows DEF IsTable
  <1> QED BY <1>2, <1>3, <1>4 DEF IsTable

\* get finds nothing, or the one bucket of the name.
LEMMA GetOne ==
    ASSUME TypeOK, NEW s \in Servers, NEW n
    PROVE  /\ Found(s, n) => \E i : Named(Visible(s), n) = {i}
           /\ NoNamesakes(Visible(s)) /\ ~Found(s, n) => Named(Visible(s), n) = {}
  <1> DEFINE N == Named(Visible(s), n)
  <1>1. IsFiniteSet(N)
    <2>1. N \subseteq 1..(nextId - 1) /\ nextId - 1 \in Int
      BY VisibleType DEF Named, TypeOK
    <2> QED BY <2>1, FS_Interval, FS_Subset
  <1>2. Cardinality(N) = 1 <=> \E i : N = {i}
    BY <1>1, FS_Singleton
  <1>3. ASSUME NoNamesakes(Visible(s)), NEW i \in N PROVE N = {i}
    BY <1>3 DEF NoNamesakes, Named
  <1> QED BY <1>2, <1>3 DEF Found

\* The bucket Keep, UpdateMode and Refuse are about.
LEMMA ExistingBucket ==
    ASSUME TypeOK, NEW s \in Servers, NEW from, NEW to, Transition(s, from, to)
    PROVE  /\ Named(Visible(s), Current(s).name) = {Existing(s)}
           /\ Existing(s) \in DOMAIN Visible(s)
           /\ Visible(s)[Existing(s)].name = Current(s).name
           /\ Visible(s)[Existing(s)].mode = from /\ Current(s).mode = to
           /\ Existing(s) \in 1..(nextId - 1)
  <1>1. Found(s, Current(s).name)
    BY DEF Transition
  <1>2. PICK i : Named(Visible(s), Current(s).name) = {i}
    BY <1>1, GetOne
  <1>3. Existing(s) = i
    BY <1>2 DEF Existing
  <1> QED BY <1>2, <1>3, VisibleType DEF Named, Transition

\* The declaration a server is at is one of its configuration.
LEMMA CurrentType ==
    ASSUME TypeOK, NEW s \in Servers, Working(s)
    PROVE  /\ pc[s] = "provision"
           /\ at[s] \in 1..Len(config[s].buckets)
           /\ Current(s) \in [name : Names, mode : Modes]
           /\ at[s] + 1 \in Nat \ {0} /\ at[s] + 1 <= Len(config[s].buckets) + 1
  <1>1. config[s] \in Configs /\ at[s] \in Nat \ {0}
    BY DEF TypeOK
  <1>2. Len(config[s].buckets) \in Nat
    BY <1>1, ConfigType
  <1>3. at[s] \in 1..Len(config[s].buckets)
    BY <1>1, <1>2 DEF Working
  <1> QED BY <1>1, <1>2, <1>3, ConfigType DEF Current, Working

\* A row is written.
LEMMA WriteType ==
    ASSUME TypeOK, NEW s \in Servers, NEW i \in Nat \ {0},
           NEW r \in [name : Names, mode : Modes], Write(s, i, r)
    PROVE  /\ tx' = [q \in Servers |-> tx'[q]]
           /\ \A q \in Servers : q # s => tx'[q] = tx[q]
           /\ DOMAIN tx'[s] = DOMAIN tx[s] \cup {i}
           /\ tx'[s][i] = r
           /\ \A j \in DOMAIN tx[s] : j # i => tx'[s][j] = tx[s][j]
           /\ IsTable(tx'[s])
  <1>1. tx = [q \in Servers |-> tx[q]] /\ IsTable(tx[s])
    BY DEF TypeOK
  <1>2. tx'[s] = [j \in DOMAIN tx[s] \cup {i} |-> IF j = i THEN r ELSE tx[s][j]]
    BY <1>1 DEF Write
  <1>3. tx' = [q \in Servers |-> tx'[q]] /\ \A q \in Servers : q # s => tx'[q] = tx[q]
    BY <1>1 DEF Write
  <1>4. IsTable(tx'[s])
    BY <1>1, <1>2 DEF IsTable
  <1> QED BY <1>2, <1>3, <1>4

-----------------------------------------------------------------------------
(* Types, however many servers start at once.                                *)

LEMMA InitType == Init => TypeOK
  <1> SUFFICES ASSUME Init PROVE TypeOK
    OBVIOUS
  <1>1. DOMAIN NoRows = {} /\ IsTable(NoRows)
    BY DEF NoRows, IsTable
  <1>2. \A c \in Configs : Len(c.buckets) \in Nat
    BY ConfigType
  <1> QED BY <1>1, <1>2, MaxStartsAssumption DEF Init, TypeOK

LEMMA StartType ==
    ASSUME TypeOK, NEW s \in Servers, Start(s) PROVE TypeOK'
  <1>1. \A c \in Configs : Len(c.buckets) \in Nat
    BY ConfigType
  <1>2. starts' \in 0..MaxStarts
    BY MaxStartsAssumption DEF TypeOK, Start
  <1>3. /\ pc' \in [Servers -> {"down", "provision", "serving"}]
        /\ config' \in [Servers -> Configs]
        /\ at' \in [Servers -> Nat \ {0}]
        /\ \A q \in Servers : at'[q] <= Len(config'[q].buckets) + 1
    BY <1>1 DEF TypeOK, Start
  <1>4. \A q \in Servers : pc'[q] # "provision" => DOMAIN tx'[q] = {}
    BY DEF TypeOK, Start
  <1> QED BY <1>2, <1>3, <1>4 DEF TypeOK, Start

\* The three steps that go on to the next declaration.
LEMMA DeclarationType ==
    ASSUME TypeOK, NEW s \in Servers, Working(s), NextDeclaration(s),
           UNCHANGED <<buckets, file, starts, pc, config, active>>
    PROVE  /\ at' \in [Servers -> Nat \ {0}]
           /\ \A q \in Servers : at'[q] <= Len(config'[q].buckets) + 1
           /\ at'[s] = at[s] + 1 /\ \A q \in Servers : q # s => at'[q] = at[q]
  <1>1. at[s] + 1 \in Nat \ {0} /\ at[s] + 1 <= Len(config[s].buckets) + 1
    BY CurrentType
  <1>2. at \in [Servers -> Nat \ {0}]
    BY DEF TypeOK
  <1>3. at'[s] = at[s] + 1 /\ \A q \in Servers : q # s => at'[q] = at[q]
    BY <1>2 DEF NextDeclaration
  <1> QED BY <1>1, <1>2, <1>3 DEF NextDeclaration, TypeOK

LEMMA SaveType ==
    ASSUME TypeOK, NEW s \in Servers, Save(s) PROVE TypeOK'
  <1>1. Working(s) /\ pc[s] = "provision" /\ Current(s) \in [name : Names, mode : Modes]
    BY CurrentType DEF Save
  <1>2. nextId \in Nat \ {0} /\ nextId' = nextId + 1 /\ nextId' \in Nat \ {0}
        /\ 1..(nextId - 1) \subseteq 1..(nextId' - 1) /\ nextId \in 1..(nextId' - 1)
    BY DEF TypeOK, Save
  <1>3. /\ tx' = [q \in Servers |-> tx'[q]]
        /\ \A q \in Servers : q # s => tx'[q] = tx[q]
        /\ IsTable(tx'[s]) /\ DOMAIN tx'[s] = DOMAIN tx[s] \cup {nextId}
    BY <1>1, <1>2, WriteType DEF Save
  <1>4. ASSUME NEW q \in Servers
        PROVE  IsTable(tx'[q]) /\ DOMAIN tx'[q] \subseteq 1..(nextId' - 1)
    <2>1. DOMAIN tx[q] \subseteq 1..(nextId - 1) /\ IsTable(tx[q])
      BY DEF TypeOK
    <2>2. DOMAIN tx[q] \subseteq 1..(nextId' - 1)
      BY <1>2, <2>1
    <2> QED BY <1>2, <1>3, <2>1, <2>2
  <1>5. \A q \in Servers : pc'[q] # "provision" => DOMAIN tx'[q] = {}
    BY <1>1, <1>3 DEF TypeOK, Save
  <1>6. DOMAIN buckets \subseteq 1..(nextId' - 1)
    BY <1>2 DEF TypeOK
  <1> QED BY <1>1, <1>2, <1>3, <1>4, <1>5, <1>6, DeclarationType DEF TypeOK, Save

LEMMA KeepType ==
    ASSUME TypeOK, NEW s \in Servers, Keep(s) PROVE TypeOK'
  <1>1. Working(s)
    BY DEF Keep, Transition
  <1> QED BY <1>1, DeclarationType DEF TypeOK, Keep

LEMMA UpdateModeType ==
    ASSUME TypeOK, NEW s \in Servers, UpdateMode(s) PROVE TypeOK'
  <1>1. Working(s) /\ pc[s] = "provision" /\ Current(s) \in [name : Names, mode : Modes]
    BY CurrentType DEF UpdateMode, Transition
  <1>2. Existing(s) \in 1..(nextId - 1) /\ Existing(s) \in Nat \ {0}
    BY ExistingBucket DEF UpdateMode, TypeOK
  <1>3. /\ tx' = [q \in Servers |-> tx'[q]]
        /\ \A q \in Servers : q # s => tx'[q] = tx[q]
        /\ IsTable(tx'[s]) /\ DOMAIN tx'[s] = DOMAIN tx[s] \cup {Existing(s)}
    BY <1>1, <1>2, WriteType DEF UpdateMode
  <1>4. \A q \in Servers : IsTable(tx'[q]) /\ DOMAIN tx'[q] \subseteq 1..(nextId - 1)
    BY <1>2, <1>3 DEF TypeOK
  <1>5. \A q \in Servers : pc'[q] # "provision" => DOMAIN tx'[q] = {}
    BY <1>1, <1>3 DEF TypeOK, UpdateMode
  <1> QED BY <1>1, <1>3, <1>4, <1>5, DeclarationType DEF TypeOK, UpdateMode

\* A transaction is over.
LEMMA NoTransaction ==
    ASSUME TypeOK, NEW s \in Servers, tx' = [tx EXCEPT ![s] = NoRows]
    PROVE  /\ tx' = [q \in Servers |-> tx'[q]]
           /\ \A q \in Servers : q # s => tx'[q] = tx[q]
           /\ tx'[s] = NoRows /\ DOMAIN tx'[s] = {} /\ IsTable(tx'[s])
  <1>1. tx = [q \in Servers |-> tx[q]]
    BY DEF TypeOK
  <1>2. tx'[s] = NoRows /\ tx' = [q \in Servers |-> tx'[q]]
        /\ \A q \in Servers : q # s => tx'[q] = tx[q]
    BY <1>1
  <1>3. DOMAIN NoRows = {} /\ IsTable(NoRows)
    BY DEF NoRows, IsTable
  <1> QED BY <1>2, <1>3

LEMMA DownType ==
    ASSUME TypeOK, NEW s \in Servers, Down(s) PROVE TypeOK'
  <1>1. pc'[s] = "down" /\ \A q \in Servers : q # s => tx'[q] = tx[q] /\ pc'[q] = pc[q]
    BY NoTransaction DEF Down, TypeOK
  <1>2. \A q \in Servers : IsTable(tx'[q]) /\ DOMAIN tx'[q] \subseteq 1..(nextId - 1)
    BY <1>1, NoTransaction DEF Down, TypeOK
  <1>3. \A q \in Servers : pc'[q] # "provision" => DOMAIN tx'[q] = {}
    BY <1>1, NoTransaction DEF Down, TypeOK
  <1>4. tx' = [q \in Servers |-> tx'[q]]
    BY NoTransaction DEF Down
  <1> QED BY <1>2, <1>3, <1>4 DEF TypeOK, Down

LEMMA ServeType ==
    ASSUME TypeOK, NEW s \in Servers, Serve(s) PROVE TypeOK'
  <1>1. pc'[s] = "serving" /\ \A q \in Servers : q # s => tx'[q] = tx[q] /\ pc'[q] = pc[q]
    BY NoTransaction DEF Serve, TypeOK
  <1>2. \A q \in Servers : IsTable(tx'[q]) /\ DOMAIN tx'[q] \subseteq 1..(nextId - 1)
    BY <1>1, NoTransaction DEF Serve, TypeOK
  <1>3. \A q \in Servers : pc'[q] # "provision" => DOMAIN tx'[q] = {}
    BY <1>1, NoTransaction DEF Serve, TypeOK
  <1>4. tx' = [q \in Servers |-> tx'[q]]
    BY NoTransaction DEF Serve
  <1>5. IsTable(buckets') /\ DOMAIN buckets' \subseteq 1..(nextId - 1)
    BY VisibleType DEF Serve
  <1>6. config[s].collections \subseteq Names
    BY ConfigType DEF TypeOK
  <1>7. active' \in [Servers -> SUBSET Names]
    BY <1>6 DEF Serve, TypeOK
  <1> QED BY <1>2, <1>3, <1>4, <1>5, <1>7 DEF TypeOK, Serve

LEMMA NextType == TypeOK /\ [Next]_vars => TypeOK'
  <1> SUFFICES ASSUME TypeOK, [Next]_vars PROVE TypeOK'
    OBVIOUS
  <1>1. ASSUME NEW s \in Servers, Refuse(s) \/ Exit(s) PROVE TypeOK'
    BY <1>1, DownType DEF Refuse, Exit
  <1>2. CASE Edit
    BY <1>2 DEF Edit, TypeOK
  <1>3. CASE UNCHANGED vars
    BY <1>3 DEF vars, TypeOK
  <1> QED BY <1>1, <1>2, <1>3, StartType, SaveType, KeepType, UpdateModeType, ServeType
          DEF Next

\* The ids in use are those the sequence has given out, and a transaction is
\* open only while its server starts: with any number of servers starting at
\* once, killed half-way, refused or restarted on another file.
THEOREM ProvisioningTypes == Spec => []TypeOK
  BY InitType, NextType, PTL DEF Spec

-----------------------------------------------------------------------------
(* One server after the other: Rolling.                                      *)

\* What the transactions see while server s carries out a declaration.
LEMMA OthersIdle ==
    ASSUME IInv, NEW s \in Servers, pc[s] = "provision"
    PROVE  \A q \in Servers : q # s => pc[q] # "provision" /\ DOMAIN tx[q] = {}
                                       /\ Visible(q) = buckets
  BY VisibleRows DEF IInv, OneAtATime, TypeOK

\* Rows that are kept, but for a change to append.
Kept(rows, newRows) ==
    \A i \in DOMAIN rows :
        /\ i \in DOMAIN newRows /\ newRows[i].name = rows[i].name
        /\ rows[i].mode = "append" => newRows[i].mode = "append"

LEMMA ProvidedKept ==
    ASSUME NEW rows, NEW newRows, Kept(rows, newRows), NEW d, Provided(rows, d)
    PROVE  Provided(newRows, d)
  BY DEF Kept, Provided

\* A transaction adds to what is committed.
LEMMA VisibleKeeps ==
    ASSUME IInv, NEW s \in Servers
    PROVE  Kept(buckets, Visible(s))
  <1> SUFFICES ASSUME NEW i \in DOMAIN buckets
               PROVE  /\ i \in DOMAIN Visible(s) /\ Visible(s)[i].name = buckets[i].name
                      /\ buckets[i].mode = "append" => Visible(s)[i].mode = "append"
    BY DEF Kept
  <1>1. CASE i \in DOMAIN tx[s]
    <2>1. /\ tx[s][i].name = buckets[i].name
          /\ buckets[i].mode = "append" => tx[s][i].mode = "append"
      BY <1>1 DEF IInv, UpdatesKeep
    <2> QED BY <1>1, <2>1, VisibleRows
  <1>2. CASE i \notin DOMAIN tx[s]
    BY <1>2, VisibleRows
  <1> QED BY <1>1, <1>2

\* A declaration is carried out: what the transaction saw is kept, and the
\* declaration it was at is provided.
LEMMA DeclarationStep ==
    ASSUME IInv, NEW s \in Servers, Working(s), NextDeclaration(s),
           UNCHANGED <<buckets, file, starts, pc, config, active>>,
           TypeOK', \A q \in Servers : q # s => tx'[q] = tx[q],
           NoNamesakes(Visible(s)'), Kept(Visible(s), Visible(s)'),
           Provided(Visible(s)', Current(s)), UpdatesKeep'
    PROVE  IInv'
  <1> USE DEF IInv
  <1>1. pc[s] = "provision" /\ at[s] \in 1..Len(config[s].buckets) /\ at[s] \in Nat
    BY CurrentType
  <1>2. at'[s] = at[s] + 1 /\ \A q \in Servers : q # s => at'[q] = at[q]
    BY DeclarationType
  <1>3. \A q \in Servers : q # s => Visible(q)' = Visible(q)
    BY DEF Visible
  <1>4. OneAtATime'
    BY DEF OneAtATime
  <1>5. UniqueNames'
    BY <1>3 DEF UniqueNames
  <1>6. ASSUME NEW q \in Servers, pc'[q] = "provision", NEW n \in 1..(at'[q] - 1)
        PROVE  Provided(Visible(q)', config'[q].buckets[n])
    <2>1. q = s
      BY <1>1, <1>6 DEF OneAtATime
    <2>2. CASE n = at[s]
      BY <2>1, <2>2 DEF Current
    <2>3. CASE n # at[s]
      <3>1. n \in 1..(at[s] - 1)
        BY <1>1, <1>2, <1>6, <2>1, <2>3
      <3>2. Provided(Visible(s), config[s].buckets[n])
        BY <1>1, <3>1 DEF Provisioned
      <3> QED BY <2>1, <3>2, ProvidedKept
    <2> QED BY <2>2, <2>3
  <1>7. Provisioned'
    BY <1>6 DEF Provisioned
  <1> QED BY <1>4, <1>5, <1>7

LEMMA SaveStep ==
    ASSUME IInv, NEW s \in Servers, Save(s) PROVE IInv'
  <1> USE DEF IInv
  <1>1. Working(s) /\ pc[s] = "provision" /\ Current(s) \in [name : Names, mode : Modes]
    BY CurrentType DEF Save
  <1>2. nextId \in Nat \ {0} /\ nextId \notin 1..(nextId - 1)
    BY DEF TypeOK
  <1>3. /\ \A q \in Servers : q # s => tx'[q] = tx[q]
        /\ DOMAIN tx'[s] = DOMAIN tx[s] \cup {nextId} /\ tx'[s][nextId] = Current(s)
        /\ \A j \in DOMAIN tx[s] : j # nextId => tx'[s][j] = tx[s][j]
    BY <1>1, <1>2, WriteType DEF Save
  <1>4. nextId \notin DOMAIN tx[s] /\ nextId \notin DOMAIN buckets /\ buckets' = buckets
    BY <1>2 DEF TypeOK, Save
  <1>5. /\ DOMAIN Visible(s)' = DOMAIN Visible(s) \cup {nextId}
        /\ Visible(s)'[nextId] = Current(s)
        /\ \A j \in DOMAIN Visible(s) : Visible(s)'[j] = Visible(s)[j]
    BY <1>3, <1>4 DEF Visible
  <1>6. \A j \in DOMAIN Visible(s) : Visible(s)[j].name # Current(s).name
    BY GetOne DEF Save, UniqueNames, Named
  <1>7. NoNamesakes(Visible(s)')
    BY <1>5, <1>6 DEF UniqueNames, NoNamesakes
  <1>8. Kept(Visible(s), Visible(s)')
    BY <1>5 DEF Kept
  <1>9. Provided(Visible(s)', Current(s))
    BY <1>5 DEF Provided
  <1>10. UpdatesKeep'
    BY <1>3, <1>4 DEF UpdatesKeep
  <1> QED BY <1>1, <1>3, <1>7, <1>8, <1>9, <1>10, SaveType, DeclarationStep DEF Save

LEMMA KeepStep ==
    ASSUME IInv, NEW s \in Servers, Keep(s) PROVE IInv'
  <1> USE DEF IInv
  <1>1. PICK m \in Modes : Transition(s, m, m)
    BY DEF Keep
  <1>2. Working(s) /\ Visible(s)' = Visible(s) /\ \A q \in Servers : tx'[q] = tx[q]
    BY <1>1 DEF Keep, Transition, Visible
  <1>3. Provided(Visible(s), Current(s))
    BY <1>1, ExistingBucket DEF Provided
  <1>4. Kept(Visible(s), Visible(s)) /\ NoNamesakes(Visible(s))
    BY DEF Kept, UniqueNames
  <1>5. UpdatesKeep'
    BY DEF UpdatesKeep, Keep
  <1> QED BY <1>2, <1>3, <1>4, <1>5, KeepType, DeclarationStep DEF Keep

LEMMA UpdateModeStep ==
    ASSUME IInv, NEW s \in Servers, UpdateMode(s) PROVE IInv'
  <1> USE DEF IInv
  <1> DEFINE e == Existing(s)
  <1>1. Working(s) /\ pc[s] = "provision" /\ Current(s) \in [name : Names, mode : Modes]
    BY CurrentType DEF UpdateMode, Transition
  <1>2. /\ e \in Nat \ {0} /\ e \in DOMAIN Visible(s)
        /\ Visible(s)[e].name = Current(s).name
        /\ Visible(s)[e].mode = "merge" /\ Current(s).mode = "append"
    BY ExistingBucket DEF UpdateMode, TypeOK
  <1> HIDE DEF e
  <1>3. /\ \A q \in Servers : q # s => tx'[q] = tx[q]
        /\ DOMAIN tx'[s] = DOMAIN tx[s] \cup {e} /\ tx'[s][e] = Current(s)
        /\ \A j \in DOMAIN tx[s] : j # e => tx'[s][j] = tx[s][j]
    BY <1>1, <1>2, WriteType DEF UpdateMode, e
  <1>4. buckets' = buckets
    BY DEF UpdateMode
  <1>5. /\ DOMAIN Visible(s)' = DOMAIN Visible(s)
        /\ Visible(s)'[e] = Current(s)
        /\ \A j \in DOMAIN Visible(s) : j # e => Visible(s)'[j] = Visible(s)[j]
    BY <1>2, <1>3, <1>4 DEF Visible
  <1>6. NoNamesakes(Visible(s)')
    BY <1>2, <1>5 DEF UniqueNames, NoNamesakes
  <1>7. Kept(Visible(s), Visible(s)')
    BY <1>2, <1>5 DEF Kept
  <1>8. Provided(Visible(s)', Current(s))
    BY <1>2, <1>5 DEF Provided
  <1>9. ASSUME NEW q \in Servers, NEW i \in DOMAIN tx'[q] \cap DOMAIN buckets'
        PROVE  /\ tx'[q][i].name = buckets'[i].name
               /\ buckets'[i].mode = "append" => tx'[q][i].mode = "append"
    <2>1. CASE q = s /\ i = e
      <3>1. Kept(buckets, Visible(s))
        BY VisibleKeeps
      <3> QED BY <1>2, <1>3, <1>4, <2>1, <3>1 DEF Kept
    <2>2. CASE ~(q = s /\ i = e)
      BY <1>3, <1>4, <2>2 DEF UpdatesKeep
    <2> QED BY <2>1, <2>2
  <1>10. UpdatesKeep'
    BY <1>9 DEF UpdatesKeep
  <1> QED BY <1>1, <1>3, <1>6, <1>7, <1>8, <1>10, UpdateModeType, DeclarationStep
          DEF UpdateMode

LEMMA StartStep ==
    ASSUME Rolling, IInv, NEW s \in Servers, Start(s) PROVE IInv'
  <1> USE DEF IInv
  <1>1. \A q \in Servers : pc[q] # "provision"
    BY DEF Start
  <1>2. /\ pc'[s] = "provision" /\ at'[s] = 1
        /\ \A q \in Servers : q # s => pc'[q] = pc[q] /\ config'[q] = config[q]
        /\ buckets' = buckets /\ tx' = tx
    BY DEF Start, TypeOK
  <1>3. OneAtATime'
    BY <1>1, <1>2 DEF OneAtATime
  <1>4. UniqueNames' /\ UpdatesKeep'
    BY <1>2 DEF UniqueNames, UpdatesKeep, NoNamesakes, Visible
  <1>5. Provisioned'
    BY <1>1, <1>2 DEF Provisioned
  <1> QED BY StartType, <1>3, <1>4, <1>5

LEMMA DownStep ==
    ASSUME IInv, NEW s \in Servers, Down(s) PROVE IInv'
  <1> USE DEF IInv
  <1>1. /\ pc'[s] = "down" /\ \A q \in Servers : q # s => pc'[q] = pc[q] /\ tx'[q] = tx[q]
        /\ DOMAIN tx'[s] = {}
        /\ buckets' = buckets /\ config' = config /\ at' = at
    BY NoTransaction DEF Down, TypeOK
  <1>2. Visible(s)' = buckets /\ \A q \in Servers : q # s => Visible(q)' = Visible(q)
    <2>1. Visible(s)' = [i \in DOMAIN buckets |-> buckets[i]]
      BY <1>1 DEF Visible
    <2> QED BY <1>1, <2>1 DEF Visible, TypeOK, IsTable
  <1>3. OneAtATime'
    BY <1>1 DEF OneAtATime
  <1>4. UniqueNames'
    BY <1>1, <1>2 DEF UniqueNames
  <1>5. UpdatesKeep'
    BY <1>1 DEF UpdatesKeep
  <1>6. Provisioned'
    BY <1>1, <1>2 DEF Provisioned
  <1> QED BY DownType, <1>3, <1>4, <1>5, <1>6

\* The commit: nobody else is in a transaction.
LEMMA ServeStep ==
    ASSUME IInv, NEW s \in Servers, Serve(s) PROVE IInv'
  <1> USE DEF IInv
  <1>1. pc[s] = "provision" /\ at[s] \in Nat /\ Len(config[s].buckets) \in Nat
        /\ at[s] > Len(config[s].buckets)
    <2>1. pc[s] = "provision" /\ ~(at[s] <= Len(config[s].buckets))
      BY DEF Serve, Working
    <2>2. at[s] \in Nat /\ config[s] \in Configs
      BY DEF TypeOK
    <2> QED BY <2>1, <2>2, ConfigType
  <1>2. /\ buckets' = Visible(s) /\ config' = config /\ at' = at /\ pc'[s] = "serving"
        /\ \A q \in Servers : q # s => pc'[q] = pc[q]
    BY DEF Serve, TypeOK
  <1>3. \A q \in Servers : pc'[q] # "provision"
    BY <1>1, <1>2, OthersIdle
  <1>4. \A q \in Servers : DOMAIN tx'[q] = {}
    BY <1>3, ServeType DEF TypeOK
  <1>5. \A q \in Servers : Visible(q)' = buckets'
    <2>1. ASSUME NEW q \in Servers PROVE Visible(q)' = [i \in DOMAIN buckets' |-> buckets'[i]]
      BY <1>4 DEF Visible
    <2> QED BY <2>1, ServeType DEF TypeOK, IsTable
  <1>6. OneAtATime' /\ UpdatesKeep'
    BY <1>3, <1>4 DEF OneAtATime, UpdatesKeep
  <1>7. UniqueNames'
    BY <1>2, <1>5 DEF UniqueNames
  <1>8. ASSUME NEW q \in Servers, pc'[q] = "serving",
               NEW n \in 1..Len(config'[q].buckets)
        PROVE  Provided(buckets', config'[q].buckets[n])
    <2>1. CASE q = s
      <3>1. n \in 1..(at[s] - 1)
        BY <1>1, <1>2, <1>8, <2>1
      <3> QED BY <1>1, <1>2, <2>1, <3>1 DEF Provisioned
    <2>2. CASE q # s
      <3>1. Provided(buckets, config[q].buckets[n])
        BY <1>2, <1>8, <2>2 DEF Provisioned
      <3> QED BY <1>2, <3>1, VisibleKeeps, ProvidedKept
    <2> QED BY <2>1, <2>2
  <1>9. Provisioned'
    BY <1>3, <1>8 DEF Provisioned
  <1> QED BY ServeType, <1>6, <1>7, <1>9

LEMMA InitInv == Init => IInv
  <1> SUFFICES ASSUME Init PROVE IInv
    OBVIOUS
  <1>1. DOMAIN NoRows = {}
    BY DEF NoRows
  <1>2. \A s \in Servers : DOMAIN tx[s] = {} /\ DOMAIN buckets = {} /\ pc[s] = "down"
    BY <1>1 DEF Init
  <1>3. \A s \in Servers : DOMAIN Visible(s) = {}
    BY <1>2 DEF Visible
  <1>4. UniqueNames /\ UpdatesKeep
    BY <1>1, <1>2, <1>3 DEF UniqueNames, UpdatesKeep, NoNamesakes, Init
  <1>5. OneAtATime /\ Provisioned
    BY <1>2 DEF OneAtATime, Provisioned
  <1> QED BY <1>4, <1>5, InitType DEF IInv

LEMMA NextInv ==
    ASSUME Rolling, IInv, [Next]_vars PROVE IInv'
  <1>1. ASSUME NEW s \in Servers, Refuse(s) \/ Exit(s) PROVE IInv'
    BY <1>1, DownStep DEF Refuse, Exit
  <1>2. ASSUME UNCHANGED <<buckets, tx, pc, at, config>>, TypeOK' PROVE IInv'
    <2>1. \A s : Visible(s)' = Visible(s)
      BY <1>2 DEF Visible
    <2> QED BY <1>2, <2>1 DEF IInv, OneAtATime, UniqueNames, UpdatesKeep, Provisioned
  <1>3. CASE Edit
    BY <1>2, <1>3, NextType DEF Edit, IInv
  <1>4. CASE UNCHANGED vars
    BY <1>2, <1>4, NextType DEF vars, IInv
  <1> QED BY <1>1, <1>3, <1>4, StartStep, SaveStep, KeepStep, UpdateModeStep, ServeStep
          DEF Next

THEOREM ProvisioningInvariant ==
    ASSUME Rolling PROVE Spec => []IInv
  <1>1. IInv /\ [Next]_vars => IInv'
    BY NextInv
  <1> QED BY <1>1, InitInv, PTL DEF Spec

LEMMA InvKeepsAppend == IInv => AppendKept
  <1> SUFFICES ASSUME IInv, NEW s \in Servers, pc[s] = "serving",
                      NEW n \in 1..Len(config[s].buckets),
                      config[s].buckets[n].mode = "append",
                      NEW i \in Named(buckets, config[s].buckets[n].name),
                      NEW j \in Named(buckets, config[s].buckets[n].name)
               PROVE  i = j /\ buckets[i].mode = "append"
    BY DEF AppendKept
  <1>1. Provided(buckets, config[s].buckets[n])
    BY DEF IInv, Provisioned
  <1> QED BY <1>1 DEF IInv, UniqueNames, NoNamesakes, Provided, Named

\* A bucket a running server was told is in append mode never turns to merge
\* under it nor gets a namesake, if servers are started one after the other:
\* whatever the configurations, also those that declare a bucket twice.
THEOREM AppendModeKept ==
    ASSUME Rolling PROVE Spec => []AppendKept
  BY ProvisioningInvariant, InvKeepsAppend, PTL

-----------------------------------------------------------------------------
(* What is committed the moment a server begins to serve.                    *)

LEMMA AsDeclaredStep ==
    ASSUME DistinctNames, IInv, AsDeclared, NEW s \in Servers, Working(s),
           NextDeclaration(s), UNCHANGED <<buckets, file, starts, pc, config, active>>,
           \A n \in 1..(at[s] - 1) : \A i \in DOMAIN Visible(s) :
             Visible(s)[i] = config[s].buckets[n] =>
               i \in DOMAIN Visible(s)' /\ Visible(s)'[i] = Visible(s)[i],
           NEW e \in DOMAIN Visible(s)', Visible(s)'[e] = Current(s)
    PROVE  AsDeclared'
  <1>1. pc[s] = "provision" /\ at[s] \in 1..Len(config[s].buckets) /\ at[s] \in Nat
    BY CurrentType DEF IInv
  <1>2. at'[s] = at[s] + 1
    BY DeclarationType DEF IInv
  <1> SUFFICES ASSUME NEW q \in Servers, pc'[q] = "provision", NEW n \in 1..(at'[q] - 1)
               PROVE  \E i \in DOMAIN Visible(q)' : Visible(q)'[i] = config'[q].buckets[n]
    BY DEF AsDeclared
  <1>3. q = s
    BY <1>1 DEF IInv, OneAtATime
  <1>4. CASE n = at[s]
    BY <1>3, <1>4 DEF Current
  <1>5. CASE n # at[s]
    <2>1. n \in 1..(at[s] - 1)
      BY <1>1, <1>2, <1>3, <1>5
    <2>2. PICK i \in DOMAIN Visible(s) : Visible(s)[i] = config[s].buckets[n]
      BY <1>1, <2>1 DEF AsDeclared
    <2> QED BY <1>3, <2>1, <2>2
  <1> QED BY <1>4, <1>5

LEMMA SaveAsDeclared ==
    ASSUME DistinctNames, IInv, AsDeclared, NEW s \in Servers, Save(s) PROVE AsDeclared'
  <1>1. Working(s) /\ Current(s) \in [name : Names, mode : Modes]
    BY CurrentType DEF Save, IInv
  <1>2. nextId \in Nat \ {0} /\ nextId \notin 1..(nextId - 1)
    BY DEF IInv, TypeOK
  <1>3. /\ DOMAIN tx'[s] = DOMAIN tx[s] \cup {nextId} /\ tx'[s][nextId] = Current(s)
        /\ \A j \in DOMAIN tx[s] : j # nextId => tx'[s][j] = tx[s][j]
    BY <1>1, <1>2, WriteType DEF Save, IInv
  <1>4. nextId \notin DOMAIN tx[s] /\ nextId \notin DOMAIN buckets /\ buckets' = buckets
    BY <1>2 DEF IInv, TypeOK, Save
  <1>5. /\ DOMAIN Visible(s)' = DOMAIN Visible(s) \cup {nextId}
        /\ Visible(s)'[nextId] = Current(s)
        /\ \A j \in DOMAIN Visible(s) : Visible(s)'[j] = Visible(s)[j]
    BY <1>3, <1>4 DEF Visible
  <1> QED BY <1>1, <1>5, AsDeclaredStep DEF Save

LEMMA KeepAsDeclared ==
    ASSUME DistinctNames, IInv, AsDeclared, NEW s \in Servers, Keep(s) PROVE AsDeclared'
  <1>1. PICK m \in Modes : Transition(s, m, m)
    BY DEF Keep
  <1>2. Working(s) /\ Current(s) \in [name : Names, mode : Modes]
    BY <1>1, CurrentType DEF Transition, IInv
  <1>3. Visible(s)' = Visible(s)
    BY DEF Keep, Visible
  <1>4. /\ Existing(s) \in DOMAIN Visible(s)
        /\ Visible(s)[Existing(s)].name = Current(s).name
        /\ Visible(s)[Existing(s)].mode = Current(s).mode
    BY <1>1, ExistingBucket DEF IInv
  <1>5. Visible(s)[Existing(s)] \in [name : Names, mode : Modes]
    BY <1>4, VisibleType DEF IInv, IsTable
  <1>6. Visible(s)[Existing(s)] = Current(s)
    BY <1>2, <1>4, <1>5
  <1> QED BY <1>2, <1>3, <1>4, <1>6, AsDeclaredStep DEF Keep

\* The declarations before this one have other names.
LEMMA UpdateModeAsDeclared ==
    ASSUME DistinctNames, IInv, AsDeclared, NEW s \in Servers, UpdateMode(s)
    PROVE  AsDeclared'
  <1> DEFINE e == Existing(s)
  <1>1. Working(s) /\ Current(s) \in [name : Names, mode : Modes]
        /\ at[s] \in 1..Len(config[s].buckets)
    BY CurrentType DEF UpdateMode, Transition, IInv
  <1>2. /\ e \in Nat \ {0} /\ e \in DOMAIN Visible(s)
        /\ Visible(s)[e].name = Current(s).name
    BY ExistingBucket DEF UpdateMode, IInv, TypeOK
  <1> HIDE DEF e
  <1>3. /\ DOMAIN tx'[s] = DOMAIN tx[s] \cup {e} /\ tx'[s][e] = Current(s)
        /\ \A j \in DOMAIN tx[s] : j # e => tx'[s][j] = tx[s][j]
    BY <1>1, <1>2, WriteType DEF UpdateMode, e, IInv
  <1>4. /\ DOMAIN Visible(s)' = DOMAIN Visible(s)
        /\ Visible(s)'[e] = Current(s)
        /\ \A j \in DOMAIN Visible(s) : j # e => Visible(s)'[j] = Visible(s)[j]
    BY <1>2, <1>3 DEF Visible, UpdateMode
  <1>5. ASSUME NEW n \in 1..(at[s] - 1), Visible(s)[e] = config[s].buckets[n]
        PROVE  FALSE
    <2>1. config[s] \in Configs /\ Len(config[s].buckets) \in Nat
      BY ConfigType DEF IInv, TypeOK
    <2>2. n \in 1..Len(config[s].buckets) /\ n # at[s]
      BY <1>1, <2>1
    <2>3. config[s].buckets[n].name = config[s].buckets[at[s]].name
      BY <1>2, <1>5 DEF Current
    <2> QED BY <1>1, <2>1, <2>2, <2>3 DEF DistinctNames
  <1> QED BY <1>1, <1>2, <1>4, <1>5, AsDeclaredStep DEF UpdateMode

\* The other steps leave no server half-way that was not so before.
LEMMA OtherAsDeclared ==
    ASSUME IInv, AsDeclared, NEW s \in Servers,
           Start(s) \/ Refuse(s) \/ Exit(s) \/ Serve(s) \/ Edit \/ UNCHANGED vars
    PROVE  AsDeclared'
  <1>1. CASE Start(s)
    <2>1. at'[s] = 1 /\ \A q \in Servers : q # s => /\ pc'[q] = pc[q] /\ at'[q] = at[q]
                                                     /\ config'[q] = config[q]
      BY <1>1 DEF Start, IInv, TypeOK
    <2>2. \A q : Visible(q)' = Visible(q)
      BY <1>1 DEF Start, Visible
    <2> QED BY <2>1, <2>2 DEF AsDeclared
  <1>2. CASE Refuse(s) \/ Exit(s)
    <2>1. Down(s)
      BY <1>2 DEF Refuse, Exit
    <2>2. pc'[s] = "down" /\ \A q \in Servers : q # s => pc'[q] = pc[q] /\ tx'[q] = tx[q]
      BY <2>1, NoTransaction DEF Down, IInv, TypeOK
    <2>3. \A q \in Servers : q # s => Visible(q)' = Visible(q)
      BY <2>1, <2>2 DEF Visible, Down
    <2> QED BY <2>1, <2>2, <2>3 DEF AsDeclared, Down
  <1>3. CASE Serve(s)
    <2>1. pc'[s] = "serving" /\ \A q \in Servers : q # s => pc'[q] = pc[q]
      BY <1>3 DEF Serve, IInv, TypeOK
    <2>2. \A q \in Servers : pc'[q] # "provision"
      BY <1>3, <2>1, OthersIdle DEF Serve
    <2> QED BY <2>2 DEF AsDeclared
  <1>4. CASE Edit \/ UNCHANGED vars
    <2>1. \A q : Visible(q)' = Visible(q)
      BY <1>4 DEF Edit, vars, Visible
    <2> QED BY <1>4, <2>1 DEF Edit, vars, AsDeclared
  <1> QED BY <1>1, <1>2, <1>3, <1>4

LEMMA NextAsDeclared ==
    ASSUME DistinctNames, IInv, AsDeclared, [Next]_vars PROVE AsDeclared'
  <1>1. CASE Servers = {}
    BY <1>1 DEF AsDeclared
  <1>2. CASE Servers # {}
    BY <1>2, SaveAsDeclared, KeepAsDeclared, UpdateModeAsDeclared, OtherAsDeclared DEF Next
  <1> QED BY <1>1, <1>2

\* Only Serve brings a server up.
LEMMA ServesAsDeclared ==
    ASSUME IInv, IInv', AsDeclared, [Next]_vars,
           NEW s \in Servers, pc[s] # "serving", pc'[s] = "serving",
           NEW n \in 1..Len(config[s].buckets)
    PROVE  \E i \in DOMAIN buckets' :
             /\ Named(buckets', config[s].buckets[n].name) = {i}
             /\ buckets'[i].mode = config[s].buckets[n].mode
  <1>1. Serve(s)
    <2>1. ASSUME NEW q \in Servers, Start(q) \/ Refuse(q) \/ Exit(q) PROVE FALSE
      BY <2>1 DEF Start, Refuse, Exit, Down, IInv, TypeOK
    <2>2. ASSUME NEW q \in Servers, Save(q) \/ Keep(q) \/ UpdateMode(q) PROVE FALSE
      BY <2>2 DEF Save, Keep, UpdateMode
    <2>3. ASSUME NEW q \in Servers, q # s, Serve(q) PROVE FALSE
      BY <2>3 DEF Serve, IInv, TypeOK
    <2> QED BY <2>1, <2>2, <2>3 DEF Next, Edit, vars
  <1>2. pc[s] = "provision" /\ buckets' = Visible(s) /\ n \in 1..(at[s] - 1)
    <2>1. at[s] \in Nat /\ Len(config[s].buckets) \in Nat
      BY ConfigType DEF IInv, TypeOK
    <2> QED BY <1>1, <2>1 DEF Serve, Working
  <1>3. PICK i \in DOMAIN buckets' : buckets'[i] = config[s].buckets[n]
    BY <1>2 DEF AsDeclared
  <1>4. Named(buckets', config[s].buckets[n].name) = {i}
    BY <1>3 DEF IInv, UniqueNames, NoNamesakes, Named
  <1> QED BY <1>3, <1>4

\* However often servers are killed half-way, refused and reconfigured, the
\* moment one begins to serve every bucket its file declares is committed
\* exactly once, in the declared mode: for every number of servers, started one
\* after the other, and every set of files that declare a bucket once.
THEOREM ServersStartAsConfigured ==
    ASSUME Rolling, DistinctNames PROVE Spec => StartsAsConfigured
  <1>1. Init => AsDeclared
    BY DEF Init, AsDeclared
  <1>2. IInv /\ AsDeclared /\ [Next]_vars => AsDeclared'
    BY NextAsDeclared
  <1>3. IInv /\ IInv' /\ AsDeclared /\ [Next]_vars =>
          [\A s \in Servers : pc[s] # "serving" /\ pc'[s] = "serving" =>
             \A n \in 1..Len(config[s].buckets) :
               \E i \in DOMAIN buckets' :
                 /\ Named(buckets', config[s].buckets[n].name) = {i}
                 /\ buckets'[i].mode = config[s].buckets[n].mode]_vars
    BY ServesAsDeclared
  <1> QED BY <1>1, <1>2, <1>3, ProvisioningInvariant, PTL DEF Spec, StartsAsConfigured
=============================================================================

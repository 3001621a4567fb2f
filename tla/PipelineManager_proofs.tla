------------------------ MODULE PipelineManager_proofs ------------------------
(***************************************************************************)
(* The search for cycles decides correctly, for every configuration over   *)
(* every set of buckets, finite or not.                                    *)
(*                                                                         *)
(* The argument: what has been visited leads nowhere else and holds no     *)
(* cycle; a bucket on the path leads to what has been visited, to its      *)
(* successor on the path, or to what is left.                              *)
(***************************************************************************)
EXTENDS PipelineManager, SequenceTheorems, TLAPS

Circular(S) == S # {} /\ \A b \in S : S \cap Sinks(config, b) # {}

TypeInv ==
    /\ config \in Configs
    /\ phase \in {"routing", "cyclic", "loading", "invalid", "ready"}
    /\ roots \subseteq Buckets
    /\ path \in Seq(Buckets)
    /\ left \in [Buckets -> SUBSET Buckets]
    /\ visited \subseteq Buckets
    /\ loaded \in 0..Len(config.pipelines)

SimplePath == \A i, j \in 1..Len(path) : path[i] = path[j] => i = j

PathInv == \A i \in 1..Len(path) : i < Len(path) => path[i + 1] \in Sinks(config, path[i])

VisitedInv ==
    /\ \A b \in visited : Sinks(config, b) \subseteq visited
    /\ \A i \in 1..Len(path) : path[i] \notin visited

LeftInv ==
    \A i \in 1..Len(path) :
      /\ left[path[i]] \subseteq Sinks(config, path[i])
      /\ \A b \in Sinks(config, path[i]) \ left[path[i]] :
           b \in visited \/ (i < Len(path) /\ b = path[i + 1])

NoCycle == \A S \in SUBSET visited : ~Circular(S)

RootsInv == Sources(config) \subseteq roots \cup visited \cup OnPath

PhaseInv ==
    /\ phase = "cyclic" => Cyclic(config)
    /\ phase \in {"loading", "invalid", "ready"} => path = <<>> /\ roots = {}

IInv ==
    /\ TypeInv /\ SimplePath /\ PathInv /\ VisitedInv
    /\ LeftInv /\ NoCycle /\ RootsInv /\ PhaseInv

-----------------------------------------------------------------------------

\* The graph stays within the buckets.
LEMMA GraphType ==
    ASSUME NEW c \in Configs
    PROVE  /\ Len(c.pipelines) \in Nat
           /\ Sources(c) \subseteq Buckets
           /\ \A b : Sinks(c, b) \subseteq Buckets
  BY ConfigsAssumption DEF Sources, Sinks, Pipelines

\* A bucket with sinks is a source.
LEMMA SinksOfSource ==
    ASSUME NEW c, NEW b, Sinks(c, b) # {}
    PROVE  b \in Sources(c)
  BY DEF Sources, Sinks, Pipelines

\* The two ways to say that some buckets lead to each other.
LEMMA CyclicIsCircular ==
    Cyclic(config) <=> \E S \in SUBSET Buckets : Circular(S)
  <1>1. ASSUME NEW S, NEW b
        PROVE (\E p \in Pipelines(config) : b \in p.sources /\ p.sinks \cap S # {})
                <=> S \cap Sinks(config, b) # {}
    BY DEF Sinks
  <1> QED BY <1>1 DEF Cyclic, Circular

-----------------------------------------------------------------------------

LEMMA InitInv == ManagerInit => IInv
  <1> SUFFICES ASSUME ManagerInit PROVE IInv
    OBVIOUS
  <1>1. TypeInv
    BY GraphType DEF ManagerInit, TypeInv
  <1>2. SimplePath /\ PathInv /\ VisitedInv /\ LeftInv
    BY DEF ManagerInit, SimplePath, PathInv, VisitedInv, LeftInv
  <1>3. NoCycle
    BY DEF ManagerInit, NoCycle, Circular
  <1>4. RootsInv /\ PhaseInv
    BY DEF ManagerInit, RootsInv, PhaseInv
  <1> QED BY <1>1, <1>2, <1>3, <1>4 DEF IInv

\* A new search from a source.
LEMMA VisitRootStep ==
    ASSUME IInv, NEW b \in Buckets, VisitRoot(b)
    PROVE  IInv'
  <1> USE DEF IInv
  <1>0. path = <<>> /\ config' = config /\ visited' = visited /\ phase' = phase
        /\ phase = "routing" /\ loaded' = loaded
    BY DEF VisitRoot
  <1>a. \A x : Sinks(config, x) \subseteq Buckets
    BY GraphType DEF TypeInv
  <1>1. CASE b \in visited
    <2>1. path' = path /\ left' = left /\ roots' = roots \ {b}
      BY <1>1 DEF VisitRoot
    <2>2. TypeInv' /\ SimplePath' /\ PathInv' /\ VisitedInv' /\ LeftInv'
      BY <1>0, <2>1 DEF TypeInv, SimplePath, PathInv, VisitedInv, LeftInv
    <2>3. NoCycle' /\ PhaseInv'
      BY <1>0, <2>1 DEF NoCycle, Circular, PhaseInv
    <2>4. RootsInv'
      BY <1>0, <1>1, <2>1 DEF RootsInv, OnPath
    <2> QED BY <2>2, <2>3, <2>4
  <1>2. CASE b \notin visited
    <2>1. path' = <<b>> /\ left' = [left EXCEPT ![b] = Sinks(config, b)]
          /\ roots' = roots \ {b}
      BY <1>2 DEF VisitRoot
    <2>2. Len(path') = 1 /\ path'[1] = b
      BY <2>1
    <2>3. TypeInv'
      BY <1>0, <1>a, <2>1 DEF TypeInv
    <2>4. left'[b] = Sinks(config, b)
      BY <2>1 DEF TypeInv
    <2>5. SimplePath' /\ PathInv' /\ VisitedInv' /\ LeftInv'
      BY <1>0, <1>2, <2>2, <2>4 DEF SimplePath, PathInv, VisitedInv, LeftInv
    <2>6. NoCycle' /\ PhaseInv'
      BY <1>0 DEF NoCycle, Circular, PhaseInv
    <2>7. b \in OnPath'
      BY <2>2 DEF OnPath
    <2>8. RootsInv'
      BY <1>0, <2>1, <2>7 DEF RootsInv, OnPath
    <2> QED BY <2>3, <2>5, <2>6, <2>8
  <1> QED BY <1>1, <1>2

\* The buckets from the closing one to the innermost are a cycle.
LEMMA ClosingCycle ==
    ASSUME IInv, NEW b \in Buckets, path # <<>>, b \in left[Top], b \in OnPath
    PROVE  Cyclic(config)
  <1> USE DEF IInv
  <1>1. Len(path) \in Nat \ {0} /\ Top = path[Len(path)]
    BY DEF TypeInv, Top
  <1>2. PICK k \in 1..Len(path) : path[k] = b
    BY DEF OnPath
  <1> DEFINE S == {path[i] : i \in k..Len(path)}
  <1>3. S \in SUBSET Buckets
    BY <1>1 DEF TypeInv
  <1>4. S # {}
    BY <1>1, <1>2
  <1>5. b \in S
    BY <1>1, <1>2
  <1>6. ASSUME NEW i \in k..Len(path)
        PROVE S \cap Sinks(config, path[i]) # {}
    <2>1. i \in 1..Len(path)
      BY <1>1, <1>2
    <2>2. CASE i < Len(path)
      <3>1. path[i + 1] \in Sinks(config, path[i])
        BY <2>1, <2>2 DEF PathInv
      <3>2. i + 1 \in k..Len(path)
        BY <1>1, <1>2, <2>2
      <3> QED BY <3>1, <3>2
    <2>3. CASE i = Len(path)
      <3>1. b \in Sinks(config, path[i])
        BY <2>1, <2>3, <1>1 DEF LeftInv
      <3> QED BY <3>1, <1>5
    <2> QED BY <1>1, <2>1, <2>2, <2>3
  <1>7. Circular(S)
    <2> HIDE DEF S
    <2>1. \A x \in S : \E i \in k..Len(path) : x = path[i]
      BY DEF S
    <2> QED BY <1>4, <1>6, <2>1 DEF Circular
  <1> QED BY <1>3, <1>7, CyclicIsCircular

\* A sink closes a cycle, was visited, or is visited next.
LEMMA VisitSinkStep ==
    ASSUME IInv, NEW b \in Buckets, VisitSink(b)
    PROVE  IInv'
  <1> USE DEF IInv
  <1>0. /\ config' = config /\ visited' = visited /\ roots' = roots /\ loaded' = loaded
        /\ phase = "routing" /\ path # <<>> /\ b \in left[Top]
    BY DEF VisitSink
  <1>1. Len(path) \in Nat \ {0} /\ Top = path[Len(path)] /\ Top \in Buckets
    BY <1>0 DEF TypeInv, Top
  <1>a. \A x : Sinks(config, x) \subseteq Buckets
    BY GraphType DEF TypeInv
  <1>n. NoCycle'
    BY <1>0 DEF NoCycle, Circular
  <1>2. CASE b \in OnPath
    <2>1. path' = path /\ left' = left /\ phase' = "cyclic"
      BY <1>2 DEF VisitSink, Closes
    <2>2. Cyclic(config)
      BY <1>0, <1>2, ClosingCycle
    <2>3. TypeInv' /\ SimplePath' /\ PathInv' /\ VisitedInv' /\ LeftInv'
      BY <1>0, <2>1 DEF TypeInv, SimplePath, PathInv, VisitedInv, LeftInv
    <2>4. PhaseInv' /\ RootsInv'
      BY <1>0, <2>1, <2>2 DEF PhaseInv, RootsInv, OnPath
    <2> QED BY <1>n, <2>3, <2>4
  <1>3. CASE b \notin OnPath
    <2>1. /\ phase' = phase
          /\ path' = IF b \in visited THEN path ELSE Append(path, b)
          /\ left' = [x \in Buckets |->
                        IF x = Top THEN left[x] \ {b}
                        ELSE IF x = b /\ b \notin visited THEN Sinks(config, b)
                        ELSE left[x]]
      BY <1>3 DEF VisitSink, Closes
    <2>2. TypeInv'
      <3>1. path' \in Seq(Buckets)
        BY <2>1 DEF TypeInv
      <3>2. left' \in [Buckets -> SUBSET Buckets]
        BY <2>1, <1>a DEF TypeInv
      <3> QED BY <1>0, <2>1, <3>1, <3>2 DEF TypeInv
    <2>3. PhaseInv'
      BY <1>0, <2>1 DEF PhaseInv
    <2>4. \A i \in 1..Len(path) : path[i] \in Buckets /\ path[i] # b
      BY <1>3 DEF OnPath, TypeInv
    <2>5. \A i \in 1..Len(path) :
            left'[path[i]] = IF i = Len(path) THEN left[path[i]] \ {b} ELSE left[path[i]]
      BY <1>1, <2>1, <2>4 DEF SimplePath
    <2>6. CASE b \in visited
      <3>1. path' = path
        BY <2>1, <2>6
      <3>2. SimplePath' /\ PathInv' /\ VisitedInv' /\ RootsInv'
        BY <1>0, <3>1 DEF SimplePath, PathInv, VisitedInv, RootsInv, OnPath
      <3>3. LeftInv'
        <4> SUFFICES ASSUME NEW i \in 1..Len(path)
                     PROVE  /\ left'[path[i]] \subseteq Sinks(config, path[i])
                            /\ \A x \in Sinks(config, path[i]) \ left'[path[i]] :
                                 x \in visited \/ (i < Len(path) /\ x = path[i + 1])
          BY <1>0, <3>1 DEF LeftInv
        <4>1. left'[path[i]] = IF i = Len(path) THEN left[path[i]] \ {b} ELSE left[path[i]]
          BY ONLY <2>5, i \in 1..Len(path)
        <4> HIDE <2>5
        <4> QED BY <2>6, <4>1 DEF LeftInv
      <3> QED BY <1>n, <2>2, <2>3, <3>2, <3>3
    <2>7. CASE b \notin visited
      <3>1. path' = Append(path, b)
        BY <2>1, <2>7
      <3>2. /\ Len(path') = Len(path) + 1
            /\ \A i \in 1..Len(path) : path'[i] = path[i]
            /\ path'[Len(path) + 1] = b
        BY <3>1 DEF TypeInv
      <3>3. left'[b] = Sinks(config, b)
        BY <1>1, <2>1, <2>4, <2>7
      <3>4. SimplePath'
        BY <1>1, <2>4, <3>2 DEF SimplePath
      <3>5. b \in Sinks(config, Top)
        BY <1>0, <1>1 DEF LeftInv
      <3>6. PathInv'
        BY <1>0, <1>1, <3>2, <3>5 DEF PathInv
      <3>7. VisitedInv'
        BY <1>0, <1>1, <2>7, <3>2 DEF VisitedInv
      <3>8. OnPath \subseteq OnPath'
        BY <1>1, <3>2 DEF OnPath
      <3>9. RootsInv'
        BY <1>0, <3>8 DEF RootsInv
      <3>10. LeftInv'
        <4> SUFFICES ASSUME NEW i \in 1..(Len(path) + 1)
                     PROVE  /\ left'[path'[i]] \subseteq Sinks(config, path'[i])
                            /\ \A x \in Sinks(config, path'[i]) \ left'[path'[i]] :
                                 \/ x \in visited
                                 \/ i < Len(path) + 1 /\ x = path'[i + 1]
          BY <1>0, <3>2 DEF LeftInv
        <4>1. CASE i = Len(path) + 1
          BY <3>2, <3>3, <4>1
        <4>2. CASE i = Len(path)
          <5>1. i \in 1..Len(path) /\ path'[i] = path[i] /\ path'[i + 1] = b
            BY <1>1, <3>2, <4>2
          <5>2. left'[path[i]] = left[path[i]] \ {b}
            BY <2>5, <4>2, <5>1
          <5> QED BY <1>1, <4>2, <5>1, <5>2 DEF LeftInv
        <4>3. CASE i \in 1..Len(path) /\ i < Len(path)
          <5>1. i + 1 \in 1..Len(path)
            BY <1>1, <4>3
          <5>2. left'[path[i]] = left[path[i]]
            <6>1. i # Len(path) /\ i \in 1..Len(path)
              BY <1>1, <4>3
            <6> QED BY ONLY <2>5, <6>1
          <5>3. path'[i] = path[i] /\ path'[i + 1] = path[i + 1]
            BY <3>2, <4>3, <5>1
          <5> QED BY <1>1, <4>3, <5>2, <5>3 DEF LeftInv
        <4> QED BY <1>1, <4>1, <4>2, <4>3
      <3> QED BY <1>n, <2>2, <2>3, <3>4, <3>6, <3>7, <3>9, <3>10
    <2> QED BY <2>6, <2>7
  <1> QED BY <1>2, <1>3

\* A bucket whose sinks have all been visited closes no cycle with them.
LEMMA VisitedStaysAcyclic ==
    ASSUME NEW b, NoCycle, b \notin visited, Sinks(config, b) \subseteq visited,
           \A x \in visited : Sinks(config, x) \subseteq visited
    PROVE  \A S \in SUBSET (visited \cup {b}) : ~Circular(S)
  <1> SUFFICES ASSUME NEW S \in SUBSET (visited \cup {b}), Circular(S) PROVE FALSE
    OBVIOUS
  <1>1. PICK x \in S : TRUE
    BY DEF Circular
  <1>2. PICK y : y \in S \cap Sinks(config, x)
    BY <1>1 DEF Circular
  <1>3. y \in S \ {b}
    BY <1>1, <1>2
  <1>4. ASSUME NEW z \in S \ {b} PROVE (S \ {b}) \cap Sinks(config, z) # {}
    <2>1. PICK w : w \in S \cap Sinks(config, z)
      BY DEF Circular
    <2> QED BY <2>1
  <1>5. Circular(S \ {b})
    BY <1>3, <1>4 DEF Circular
  <1> QED BY <1>5 DEF NoCycle

\* The innermost bucket has been visited.
LEMMA ReturnStep ==
    ASSUME IInv, Return
    PROVE  IInv'
  <1> USE DEF IInv
  <1>0. /\ config' = config /\ roots' = roots /\ loaded' = loaded /\ left' = left
        /\ phase' = phase /\ phase = "routing" /\ path # <<>> /\ left[Top] = {}
        /\ visited' = visited \cup {Top}
        /\ path' = SubSeq(path, 1, Len(path) - 1)
    BY DEF Return
  <1>1. Len(path) \in Nat \ {0} /\ Top = path[Len(path)] /\ Top \in Buckets
    BY <1>0 DEF TypeInv, Top
  <1>2. /\ Len(path') = Len(path) - 1
        /\ \A i \in 1..(Len(path) - 1) : path'[i] = path[i]
        /\ path' \in Seq(Buckets)
    <2> DEFINE n == Len(path) - 1
    <2>1. n \in Int /\ 1 \in Int /\ n >= 0
      BY <1>1
    <2>2. \A i \in 1..n : path[i] \in Buckets
      BY <1>1 DEF TypeInv
    <2>3. /\ SubSeq(path, 1, n) \in Seq(Buckets)
          /\ Len(SubSeq(path, 1, n)) = IF 1 <= n THEN n - 1 + 1 ELSE 0
          /\ \A i \in 1..(n - 1 + 1) : SubSeq(path, 1, n)[i] = path[1 + i - 1]
      BY ONLY <2>1, <2>2, SubSeqProperties
    <2>4. path' = SubSeq(path, 1, n)
      BY <1>0
    <2> HIDE DEF n
    <2>5. /\ Len(path') = n
          /\ \A i \in 1..n : path'[i] = path[i]
          /\ path' \in Seq(Buckets)
      BY <2>1, <2>3, <2>4
    <2> QED BY <2>5 DEF n
  <1>3. TypeInv'
    BY <1>0, <1>1, <1>2 DEF TypeInv
  <1>4. Sinks(config, Top) \subseteq visited /\ Top \notin visited
    BY <1>0, <1>1 DEF LeftInv, VisitedInv
  <1>r. \A i \in 1..Len(path') :
          /\ i \in 1..(Len(path) - 1) /\ i \in 1..Len(path)
          /\ path'[i] = path[i]
          /\ i < Len(path') => i + 1 \in 1..(Len(path) - 1) /\ path'[i + 1] = path[i + 1]
    BY <1>1, <1>2
  <1>5. SimplePath' /\ PathInv'
    <2>1. SimplePath'
      BY <1>r DEF SimplePath
    <2>2. ASSUME NEW i \in 1..Len(path'), i < Len(path')
          PROVE  path'[i + 1] \in Sinks(config, path'[i])
      <3>1. i < Len(path)
        BY <1>1, <1>2, <2>2
      <3> QED BY <1>r, <2>2, <3>1 DEF PathInv
    <2>3. PathInv'
      BY <1>0, <2>2 DEF PathInv
    <2> QED BY <2>1, <2>3
  <1>6. \A i \in 1..(Len(path) - 1) : path[i] # Top
    BY <1>1 DEF SimplePath
  <1>7. VisitedInv'
    BY <1>0, <1>1, <1>2, <1>4, <1>6 DEF VisitedInv
  <1>8. LeftInv'
    <2>1. ASSUME NEW i \in 1..Len(path')
          PROVE  /\ left[path'[i]] \subseteq Sinks(config, path'[i])
                 /\ \A x \in Sinks(config, path'[i]) \ left[path'[i]] :
                      \/ x \in visited \cup {Top}
                      \/ i < Len(path') /\ x = path'[i + 1]
      <3>1. i \in 1..Len(path) /\ i < Len(path) /\ path'[i] = path[i]
        BY <1>1, <1>r
      <3>2. /\ left[path[i]] \subseteq Sinks(config, path[i])
            /\ \A x \in Sinks(config, path[i]) \ left[path[i]] : x \in visited \/ x = path[i + 1]
        BY <3>1 DEF LeftInv
      <3>3. CASE i = Len(path')
        BY <1>1, <1>2, <3>1, <3>2, <3>3
      <3>4. CASE i < Len(path')
        BY <1>r, <3>1, <3>2, <3>4
      <3> QED BY <1>1, <1>2, <3>3, <3>4
    <2> QED BY <1>0, <2>1 DEF LeftInv
  <1>9. NoCycle'
    <2>1. \A S \in SUBSET (visited \cup {Top}) : ~Circular(S)
      BY <1>4, VisitedStaysAcyclic DEF VisitedInv
    <2> QED BY <1>0, <2>1 DEF NoCycle, Circular
  <1>10. OnPath \subseteq OnPath' \cup {Top}
    <2> SUFFICES ASSUME NEW i \in 1..Len(path) PROVE path[i] \in OnPath' \cup {Top}
      BY DEF OnPath
    <2>1. CASE i = Len(path)
      BY <1>1, <2>1
    <2>2. CASE i \in 1..(Len(path) - 1)
      BY <1>2, <2>2 DEF OnPath
    <2> QED BY <1>1, <2>1, <2>2
  <1>11. RootsInv' /\ PhaseInv'
    BY <1>0, <1>10 DEF RootsInv, PhaseInv
  <1> QED BY <1>3, <1>5, <1>7, <1>8, <1>9, <1>11

\* The steps that do not search.
LEMMA LoadingStep ==
    ASSUME IInv, Routed \/ Load \/ Ready
    PROVE  IInv'
  <1> USE DEF IInv
  <1>0. /\ config' = config /\ roots' = roots /\ path' = path /\ left' = left
        /\ visited' = visited
    BY DEF Routed, Load, Ready
  <1>1. Len(config.pipelines) \in Nat
    BY GraphType DEF TypeInv
  <1>2. TypeInv' /\ PhaseInv'
    BY <1>0, <1>1 DEF Routed, Load, Ready, TypeInv, PhaseInv
  <1>3. SimplePath' /\ PathInv' /\ VisitedInv' /\ LeftInv' /\ NoCycle' /\ RootsInv'
    BY <1>0 DEF SimplePath, PathInv, VisitedInv, LeftInv, NoCycle, Circular, RootsInv, OnPath
  <1> QED BY <1>2, <1>3

LEMMA ManagerInductive == IInv /\ [ManagerNext]_managerVars => IInv'
  <1> SUFFICES ASSUME IInv, [ManagerNext]_managerVars PROVE IInv'
    OBVIOUS
  <1>1. CASE ManagerNext
    BY <1>1, VisitRootStep, VisitSinkStep, ReturnStep, LoadingStep DEF ManagerNext
  <1>2. CASE UNCHANGED managerVars
    BY <1>2 DEF IInv, managerVars, TypeInv, SimplePath, PathInv, VisitedInv, LeftInv,
                NoCycle, Circular, RootsInv, PhaseInv, OnPath
  <1> QED BY <1>1, <1>2

\* When the search is over, every source has been visited, and a cycle is made of
\* sources.
LEMMA VerdictHolds == IInv => Verdict
  <1> SUFFICES ASSUME IInv, phase \in {"loading", "invalid", "ready"}, Cyclic(config)
               PROVE  FALSE
    BY DEF IInv, PhaseInv, Verdict
  <1>1. PICK S \in SUBSET Buckets : Circular(S)
    BY CyclicIsCircular
  <1>2. S \subseteq Sources(config)
    BY <1>1, SinksOfSource DEF Circular
  <1>3. OnPath = {} /\ roots = {}
    BY DEF IInv, PhaseInv, OnPath
  <1>4. S \subseteq visited
    BY <1>2, <1>3 DEF IInv, RootsInv
  <1> QED BY <1>1, <1>4 DEF IInv, NoCycle

\* Whatever the configuration, the search keeps its types, and its path never
\* repeats a bucket.
THEOREM ManagerTypeCorrect == ManagerSpec => []ManagerTypeOK
  <1>1. IInv => ManagerTypeOK
    BY DEF IInv, TypeInv, SimplePath, ManagerTypeOK
  <1> QED BY <1>1, InitInv, ManagerInductive, PTL DEF ManagerSpec

\* Whatever the configuration, the search rejects it exactly if it has a cycle.
THEOREM SearchCorrect == ManagerSpec => []Verdict
  BY InitInv, ManagerInductive, VerdictHolds, PTL DEF ManagerSpec
=============================================================================

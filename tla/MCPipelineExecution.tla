-------------------------- MODULE MCPipelineExecution --------------------------
(***************************************************************************)
(* Start-up with every pair of pipelines over three buckets and every      *)
(* triple of pipelines with one source and one sink, and single pipelines  *)
(* whose role or steps are at the border of what is valid.  Those that     *)
(* read "raw" run on objects whose refs are stored in readable and hidden  *)
(* buckets, twice, under two ids of one value, or not at all.              *)
(***************************************************************************)
EXTENDS PipelineExecution

None == [type |-> "none"]
If(type, field, value) == [type |-> type, field |-> field, value |-> value]
Group(type, parts) == [type |-> type, parts |-> parts]

ByAcme  == If("eq", "created_by_ref", "ACME")
Unknown == If("not_eq", "created_by_ref", "ACME")
Apt     == If("contains", "labels", "ap")
Marked  == If("contains", "object_marking_refs", "statement:s")
NotMarked == If("not_contains", "object_marking_refs", "statement:s")
Sure    == If("contains", "confidence", "9")
Either  == Group("or", <<ByAcme, Sure>>)
Both    == Group("and", <<Unknown, Group("or", <<Marked, Sure>>)>>)
Greater == Group("and", <<ByAcme, If("greater", "confidence", "9")>>)
Example == Group("and", <<If("eq", "type", "campaign"),
                          Group("or", <<If("contains", "name", "ap"), Apt>>)>>)
NoGap   == If("contains", "name", "")

MCFields == {"labels", Markings, Author, "confidence", "type", "name"}

MCConditions ==
    {None, ByAcme, Unknown, Apt, Marked, NotMarked, Sure, Either, Both, Greater, Example,
     NoGap, Both.parts[2], Greater.parts[2], Example.parts[1], Example.parts[2],
     Example.parts[2].parts[1]}

MCSubstrings ==
    {<<"ap", "apt">>, <<"apt", "apt">>, <<"ACME", "ACME">>, <<"", "">>, <<"", "apt">>}

Step(action, field, value, condition) ==
    [action |-> action, field |-> field, value |-> value, condition |-> condition]

-----------------------------------------------------------------------------
(* Refs and what they stand for.                                             *)

Green1 == "marking--green-1.0"
Green2 == "marking--green-2.0"

MCTlpValues == (Green1 :> "tlp:green") @@ (Green2 :> "tlp:green")

MCPlatformId(type, value) ==
    CASE value = "tlp:green"   -> Green2
      [] value = "tlp:red"     -> "marking--red-2.0"
      [] value = "statement:s" -> "marking--s"
      [] value = "ACME"        -> "identity--acme"
      [] value = "Acme Ltd"    -> "identity--ltd"
      [] OTHER                 -> "unknown--" \o value

MCStixIds ==
    {Green1, Green2, "marking--red-2.0", "marking--s", "marking--s-feed", "marking--h",
     "identity--acme", "identity--acme-feed", "identity--h", "identity--ltd"}
      \cup {"unknown--" \o text :
               text \in {"malformed", "tx", "t", "x", "apt", "acme", "9", ""}}

MCLetters(text) == <<"t", "x">>

Row(id, bucket, type, ref, other, value) ==
    [id |-> id, bucket |-> bucket, type |-> type, stix_id |-> ref,
     other |-> other, value |-> value]

\* An identity and a marking that only "hidden" holds, and an identity there that is
\* older than the readable one its source gave the same id.
Stored ==
    {Row(1, "hidden", "identity", "identity--ltd", {"identity--acme-feed"}, "Acme Ltd"),
     Row(2, "hidden", "identity", "identity--acme", {"identity--h"}, "ACME"),
     Row(3, "hidden", "marking-definition", "marking--s", {"marking--h"}, "statement:s")}

MCTables == {Stored}

\* A statement with two ids comes late, too.
MCLate ==
    {Row(4, "raw", "identity", "identity--acme", {"identity--acme-feed"}, "ACME"),
     Row(5, "raw", "marking-definition", "marking--s", {"marking--s-feed"}, "statement:s")}

-----------------------------------------------------------------------------
(* The configurations.                                                       *)

Route(sources, sinks) ==
    [role |-> "all", sources |-> sources, sinks |-> sinks, steps |-> <<>>]

Refine(role, steps) ==
    [role |-> role, sources |-> {"raw"}, sinks |-> {"shared"}, steps |-> steps]

Circle == {"b1", "b2", "b3"}
MCBuckets == Circle \cup {"raw", "shared", "hidden"}

MCRoles ==
    [all     |-> [can_read |-> MCBuckets, can_write |-> MCBuckets],
     refiner |-> [can_read |-> {"raw"}, can_write |-> {"shared"}],
     reader  |-> [can_read |-> MCBuckets, can_write |-> {}],
     writer  |-> [can_read |-> {"shared"}, can_write |-> MCBuckets]]

Routes == {Route(s, t) : s, t \in SUBSET Circle \ {{}}}
Edges  == {Route({s}, {t}) : s, t \in Circle}

Steps ==
    {<<>>,
     <<Step("add", "labels", "acme", ByAcme), Step("add", "labels", "apt", Marked)>>,
     <<Step("add", Markings, "tlp:red", Either), Step("delete", "labels", "apt", None)>>,
     <<Step("delete", Markings, "tlp:green", Both), Step("set", Author, "ACME", None)>>,
     <<Step("delete", Markings, "tlp:green", None), Step("add", Markings, "tlp:green", Apt)>>,
     <<Step("add", Markings, "statement:s", NotMarked), Step("delete", Author, "", None)>>,
     <<Step("add", Markings, "unknown--x", NotMarked), Step("set", "confidence", "9", Unknown)>>,
     <<Step("add", Markings, "tlp:red", Example), Step("set", "confidence", "9", NoGap)>>,
     <<Step("replace", "labels", "apt", None)>>,
     <<Step("set", "labels", "apt", None)>>,
     <<Step("set", "name", "apt", None)>>,
     <<Step("delete", "confidence", "", Greater)>>}

MCConfigs ==
    {[roles |-> MCRoles, pipelines |-> <<p, q>>] : p, q \in Routes}
      \cup {[roles |-> MCRoles, pipelines |-> <<p, q, r>>] : p, q, r \in Edges}
      \cup {[roles |-> MCRoles, pipelines |-> <<Refine("refiner", s)>>] : s \in Steps}
      \cup {[roles |-> MCRoles, pipelines |-> <<Refine(r, <<>>)>>] :
              r \in {"reader", "writer", "nobody"}}

-----------------------------------------------------------------------------
(* The batches.                                                              *)

Object(labels, marks, author, confidence) ==
    [labels |-> labels, object_marking_refs |-> marks, created_by_ref |-> author,
     confidence |-> confidence, type |-> Text("campaign"), name |-> Missing]

Labels == {Missing, List(<<"apt">>), List(<<"x", "apt">>)}

Marks ==
    {Missing, List(<<Green1>>), List(<<Green1, Green2>>), List(<<"marking--s-feed", "marking--s">>),
     List(<<"marking--h", Green2>>), List(<<"malformed">>)}

Authors ==
    {Missing, Text("identity--acme-feed"), Text("identity--h"), Text("ACME")}

WellFormed ==
    {Object(l, m, a, c) : l \in Labels, m \in Marks, a \in Authors, c \in {Missing, Number}}

Odd ==
    {Object(l, List(<<Green1>>), Text("identity--acme-feed"), Missing) :
       l \in {Text("apt"), Null, List(<<"apt", "apt">>), List(<<>>)}}
    \cup {Object(Missing, m, Missing, Missing) : m \in {Text("tx"), Number, Null, List(<<>>)}}

Named ==
    {[Object(l, Missing, Missing, Missing) EXCEPT !.type = Text(t), !.name = n] :
       l \in Labels, t \in {"campaign", "tool"}, n \in {Text("apt"), Text("x"), Number}}

Plain == Object(List(<<"apt">>), List(<<"marking--h", "marking--s-feed">>),
                Text("identity--acme-feed"), Missing)

MCPending ==
    [b \in MCBuckets |->
       IF b = "raw" THEN {<<o>> : o \in WellFormed \cup Odd \cup Named} \cup {<<Plain, o>> : o \in Odd}
                         \cup {<<Object(Missing, Missing, Text("identity--h"), Missing), Plain>>}
       ELSE {}]

\* The theorems about refs and meanings apply to this instance.
ASSUME NamesAreNoIds /\ PlatformIdsAreUnique /\ StepsWriteNames
=============================================================================

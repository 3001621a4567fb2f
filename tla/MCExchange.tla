------------------------------ MODULE MCExchange ------------------------------
(***************************************************************************)
(* One reader and two writers on a collection, a second collection with a  *)
(* bucket of its own, and two administrators.  Objects: a "target", a      *)
(* relationship to it, a relationship to that relationship (before it in   *)
(* one batch, after it in the other), and an object without a processor.   *)
(***************************************************************************)
EXTENDS Exchange, TLC

CONSTANTS raw, shared, r, w1, w2, a1, a2

Target  == [id |-> <<"t">>, value |-> "v", refs |-> <<>>, valid |-> TRUE]
Refused == [id |-> <<"t">>, value |-> "v", refs |-> <<>>, valid |-> FALSE]
Link    == [id |-> <<"l">>, value |-> "uses", refs |-> <<<<"t">>>>, valid |-> TRUE]
Above   == [id |-> <<"a">>, value |-> "cites", refs |-> <<<<"l">>>>, valid |-> TRUE]

MCBatches == { <<Above, Link, Target>>, <<Refused, Link, Above>> }

MCPlatformId(value, refs) == <<"platform", value, refs>>

MCCollections ==
    ("all" :> [bucket |-> raw, can_read |-> TRUE, can_write |-> TRUE]) @@
    ("tip" :> [bucket |-> shared, can_read |-> TRUE, can_write |-> TRUE])

MCInitial == << [email |-> "reader", roles |-> {"analyst"}],
                [email |-> "writer", roles |-> {"feed"}] >>

MCUserOf == (r :> 1) @@ (w1 :> 2) @@ (w2 :> 2)

MCCanRead  == ("analyst" :> {raw, shared}) @@ ("feed" :> {})
MCCanWrite == ("analyst" :> {}) @@ ("feed" :> {raw, shared})
Mix(first, second, reader, writer, other) ==
    (a1 :> first) @@ (a2 :> second) @@ (r :> reader) @@ (w1 :> writer) @@ (w2 :> other)

\* The administrators among themselves; an administrator beside clients; clients
\* that fill the pool; a traversal beside two writers; the writers among themselves.
MCCapacities ==
    (Mix(2, 1, 0, 0, 0) :> {3}) @@ (Mix(1, 0, 1, 1, 0) :> {3}) @@
    (Mix(0, 0, 1, 1, 1) :> {3}) @@ (Mix(0, 0, 3, 1, 1) :> {6}) @@
    (Mix(0, 0, 0, 2, 1) :> {6})

MCBudgets == DOMAIN MCCapacities
=============================================================================

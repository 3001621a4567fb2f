--------------------------- MODULE MCPipelineWorker ---------------------------
(***************************************************************************)
(* Two workers, and two pipelines in a chain with a fork:                  *)
(*      "tag" : raw -> refined, shared        "share" : refined -> shared  *)
(* so that a batch writes to two sinks, a sink is itself a source, and a   *)
(* bucket is filled from two sides.                                        *)
(***************************************************************************)
EXTENDS PipelineWorker, TLC

CONSTANTS raw, refined, shared, tag, share, good, bad

MCPairs == << [pipeline |-> tag, source |-> raw],
              [pipeline |-> share, source |-> refined] >>

MCSinks == (tag :> <<refined, shared>>) @@ (share :> <<shared>>)

\* "bad" makes the second pipeline raise, and only that one.
MCFails == {<<share, bad>>}

\* For liveness: a chain, the failing pipeline first in the loop.
MCChainPairs == << [pipeline |-> share, source |-> refined],
                   [pipeline |-> tag, source |-> raw] >>

MCChainSinks == (tag :> <<refined>>) @@ (share :> <<shared>>)

\* The workers run one program.
MCSymmetry == Permutations(Workers)
=============================================================================

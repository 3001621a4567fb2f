---------------------------- MODULE MCProvisioning ----------------------------
(* Two servers, two buckets, and configuration files that declare one or both   *)
(* of them in either mode.                                                      *)
EXTENDS Provisioning, TLC

CONSTANTS raw, shared

Declare(n, m) == [name |-> n, mode |-> m]

MCConfigs ==
    { [buckets |-> <<Declare(raw, m)>>, collections |-> {raw}] : m \in Modes }
      \cup { [buckets |-> <<Declare(raw, m), Declare(shared, k)>>,
              collections |-> {raw, shared}] : m, k \in Modes }

MCSymmetry == Permutations(Servers)
=============================================================================

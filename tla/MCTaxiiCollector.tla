--------------------------- MODULE MCTaxiiCollector ---------------------------
(* Small instances of TaxiiCollector: pages of one or two objects, so that a   *)
(* feed of two or three objects takes several pages and several cycles.        *)
EXTENDS TaxiiCollector, TLC

\* The platform refuses the second object; a page of one then is all refused.
MCInvalid == {2}
MCNone    == {}

\* Calls that commit in time, and calls whose commit may fail.
MCRegister       == {"register"}
MCSubmit         == {"submit"}
MCPut            == {"put"}
MCAllButPut      == {"register", "submit"}
MCAll            == {"register", "submit", "put"}

MCSymmetry == Permutations(Buckets)
=============================================================================

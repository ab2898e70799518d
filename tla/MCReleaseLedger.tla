--------------------------- MODULE MCReleaseLedger ---------------------------
(* Small instances of the signed-release ledger.  Two markers compete for  *)
(* the challenge, the first with a window that opens late and closes early *)
(* enough for a command to run across either end of it.                    *)
EXTENDS ReleaseLedger, TLC

CONSTANTS m1, m2

OneMarkerFrom == (m1 :> 0)
OneMarkerUntil == (m1 :> 1)
TwoMarkersFrom == (m1 :> 1) @@ (m2 :> 0)
TwoMarkersUntil == (m1 :> 1) @@ (m2 :> 2)

Symmetry == Permutations(Proc) \cup Permutations(Nonce) \cup Permutations(ReconId)
=============================================================================

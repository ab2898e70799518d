------------------------- MODULE MCPolicyDeployment -------------------------
EXTENDS PolicyDeployment, TLC
Symmetry == Permutations(Signer)
\* The last two revisions carry the same DFM profile.
MCProfileOf == [r \in 2..MaxRevision |-> IF r = MaxRevision THEN r - 1 ELSE r]
=============================================================================

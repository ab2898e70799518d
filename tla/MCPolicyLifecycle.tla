-------------------------- MODULE MCPolicyLifecycle --------------------------
EXTENDS PolicyLifecycle
Symmetry == Permutations(Signer)
\* The last two revisions carry the same DFM profile.
MCProfileOf == [r \in 2..MaxRevision |-> IF r = MaxRevision THEN r - 1 ELSE r]
\* Only the last revision has a DFM profile of its own.
LastProfileOf == [r \in 2..MaxRevision |-> IF r = MaxRevision THEN r ELSE 2]
\* Every revision carries the same DFM profile.
OneProfile == [r \in 2..MaxRevision |-> 2]
=============================================================================

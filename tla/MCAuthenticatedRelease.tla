----------------------- MODULE MCAuthenticatedRelease -----------------------
(* One marker that is active from the start: the windows are the business  *)
(* of MCReleaseLedger.                                                     *)
EXTENDS AuthenticatedRelease, TLC

CONSTANTS m1

MCValidFrom == (m1 :> 0)
MCExpiresAt == (m1 :> 0)

Symmetry == Permutations(Proc) \cup Permutations(Nonce) \cup Permutations(Policy)
=============================================================================

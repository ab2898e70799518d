------------------------- MODULE MCMonotonicRelease -------------------------
(* An adapter that can sign a pending genesis g, a second genesis h, a     *)
(* pending and an accepted successor of g (a1, b1) and an accepted         *)
(* successor of a1 (c2).  Each run uses the states its question needs.     *)
EXTENDS MonotonicRelease, TLC

CONSTANTS x1, g, h, a1, b1, c2

AllSequenceOf == (g :> 0) @@ (h :> 0) @@ (a1 :> 1) @@ (b1 :> 1) @@ (c2 :> 2)
AllPreviousOf == (g :> Absent) @@ (h :> Absent) @@ (a1 :> g) @@ (b1 :> g) @@ (c2 :> a1)

MCSequenceOf == [s \in AdapterState |-> AllSequenceOf[s]]
MCPreviousOf == [s \in AdapterState |-> AllPreviousOf[s]]
MCSubmissionOf == [s \in AdapterState |-> IF s = h THEN "other" ELSE "one"]

Symmetry == Permutations(Proc) \cup Permutations(ReconId \ LegacyId)
=============================================================================

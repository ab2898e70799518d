----------------------- MODULE MCAnchoredPublication -----------------------
(* Two processes publish two names and records; a private name more than   *)
(* the processes hold lets a kill leave one behind.                        *)
EXTENDS AnchoredPublication, TLC

Symmetry == Permutations(Proc) \cup Permutations(Bytes)
              \cup Permutations(Temp) \cup Permutations(Inode)
=============================================================================

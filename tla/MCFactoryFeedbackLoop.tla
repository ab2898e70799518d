---------------------- MODULE MCFactoryFeedbackLoop ----------------------
(* An instance of FactoryFeedbackLoop for TLC.                             *)
EXTENDS FactoryFeedbackLoop, TLC

CONSTANTS first, fixed, rebound, broken

\* Two packages with one profile, a valid one with another, an invalid one.
MCPackage == {first, fixed, rebound, broken}
MCValid == {first, fixed, rebound}
MCProfile == [p \in MCPackage |-> IF p = rebound THEN "other" ELSE "profile"]
=============================================================================

---------------------- MODULE NoReplacePublicationProofs ----------------------
(***************************************************************************)
(* Proofs about NoReplacePublication for every set of processes, names and *)
(* records.  None of the three properties is inductive: what a caller may  *)
(* conclude from an outcome depends on what its publication has installed  *)
(* before, so the inductive invariant PubInv follows a publication from    *)
(* linkat on (InstalledIsVisible) and knows that only visible names are    *)
(* durable.  Its preservation is proved action by action, so that modules  *)
(* built on NoReplacePublication can cite the lemmas.                      *)
(***************************************************************************)
EXTENDS NoReplacePublication, TLAPS

(* A publication under way has a name and a record.                        *)
BusyHasRecord ==
  \A p \in Proc : pub[p].step # "idle" => pub[p].name \in Name /\ pub[p].bytes \in Bytes

(* From linkat on, the name shows the record of the publication.           *)
InstalledIsVisible ==
  \A p \in Proc : pub[p].step \in Installed => entry[pub[p].name] = pub[p].bytes

(* Only visible names are durable.                                         *)
DurableIsVisible == \A n \in durable : entry[n] # Absent

PubInv ==
  /\ PubTypeOK
  /\ BusyHasRecord
  /\ InstalledIsVisible
  /\ DurableIsVisible
  /\ OneWinner
  /\ OutcomeIsTruthful

USE AbsentAssumption
-----------------------------------------------------------------------------
(* Nothing is published when the first command starts.                     *)
LEMMA PubInitInv == PubInit => PubInv
BY DEF PubInit, PubInv, PubTypeOK, BusyHasRecord, InstalledIsVisible, DurableIsVisible,
       OneWinner, OutcomeIsTruthful, Publication, PubStep, Outcome, IdlePub, Installed

(* Staging a record, from whatever the process did before.                 *)
LEMMA StageAsInv ==
  ASSUME PubInv, NEW p \in Proc, NEW n \in Name, NEW b \in Bytes,
         StageAs(p, n, b), UNCHANGED <<entry, durable>>
  PROVE  PubInv'
<1>1. PubTypeOK'
  BY DEF PubInv, PubTypeOK, StageAs, Publication, PubStep, Outcome
<1>2. \A q \in Proc : IF q = p THEN pub'[q].step = "staged" /\ pub'[q].name = n
                                    /\ pub'[q].bytes = b
                               ELSE pub'[q] = pub[q]
  BY DEF PubInv, PubTypeOK, StageAs
<1>3. BusyHasRecord' /\ InstalledIsVisible' /\ DurableIsVisible' /\ OneWinner'
        /\ OutcomeIsTruthful'
  BY <1>2 DEF PubInv, BusyHasRecord, InstalledIsVisible, DurableIsVisible, OneWinner,
              OutcomeIsTruthful, Installed
<1>4. QED
  BY <1>1, <1>3 DEF PubInv

(* Reading an outcome, and being killed.                                   *)
LEMMA TakeInv ==
  ASSUME PubInv, NEW p \in Proc, pub' = [pub EXCEPT ![p] = IdlePub],
         UNCHANGED <<entry, durable>>
  PROVE  PubInv'
<1>1. PubTypeOK'
  BY DEF PubInv, PubTypeOK, Publication, PubStep, IdlePub
<1>2. \A q \in Proc : IF q = p THEN pub'[q].step = "idle" ELSE pub'[q] = pub[q]
  BY DEF PubInv, PubTypeOK, IdlePub
<1>3. BusyHasRecord' /\ InstalledIsVisible' /\ DurableIsVisible' /\ OneWinner'
        /\ OutcomeIsTruthful'
  BY <1>2 DEF PubInv, BusyHasRecord, InstalledIsVisible, DurableIsVisible, OneWinner,
              OutcomeIsTruthful, Installed
<1>4. QED
  BY <1>1, <1>3 DEF PubInv

(* Only p's publication moves, keeping its name and record.                *)
OnlyMoves(p) ==
  /\ pub' \in [Proc -> Publication]
  /\ \A q \in Proc \ {p} : pub'[q] = pub[q]
  /\ pub'[p].name = pub[p].name /\ pub'[p].bytes = pub[p].bytes

(* A move to a step that claims no more than the invariant already knows.  *)
LEMMA StepInv ==
  ASSUME PubInv, NEW p \in Proc, OnlyMoves(p), pub[p].step # "idle",
         entry' = entry,
         pub'[p].step \in Installed => pub[p].step \in Installed,
         pub'[p].step = "AlreadyExists" => entry[pub[p].name] # Absent,
         durable \subseteq durable', durable' \subseteq Visible,
         pub'[p].step = "CommittedDurable" => pub[p].name \in durable'
  PROVE  PubInv'
<1>1. PubTypeOK'
  BY DEF PubInv, PubTypeOK, OnlyMoves, Visible
<1>2. \A q \in Proc : /\ pub'[q].name = pub[q].name
                      /\ pub'[q].bytes = pub[q].bytes
                      /\ q # p => pub'[q].step = pub[q].step
  BY DEF OnlyMoves
<1>3. BusyHasRecord' /\ DurableIsVisible'
  BY <1>2 DEF PubInv, BusyHasRecord, DurableIsVisible, Visible
<1>4. InstalledIsVisible'
  BY <1>2 DEF PubInv, InstalledIsVisible
<1>5. OneWinner'
  BY <1>2 DEF PubInv, OneWinner
<1>6. OutcomeIsTruthful'
  BY <1>2, <1>4 DEF PubInv, InstalledIsVisible, OutcomeIsTruthful, Installed
<1>7. QED
  BY <1>1, <1>3, <1>4, <1>5, <1>6 DEF PubInv

(* linkat on a free name.                                                  *)
LEMMA LinkInv ==
  ASSUME PubInv, NEW p \in Proc, pub[p].step \in {"staged", "installing"},
         entry[pub[p].name] = Absent,
         entry' = [entry EXCEPT ![pub[p].name] = pub[p].bytes],
         pub' = [pub EXCEPT ![p].step = "installed"],
         durable' = durable
  PROVE  PubInv'
<1>1. pub[p].name \in Name /\ pub[p].bytes \in Bytes
  BY DEF PubInv, BusyHasRecord
<1>2. PubTypeOK'
  BY <1>1 DEF PubInv, PubTypeOK, Publication, PubStep
<1>3. \A q \in Proc :
        IF q = p THEN pub'[q].step = "installed" /\ pub'[q].name = pub[q].name
                        /\ pub'[q].bytes = pub[q].bytes
                 ELSE pub'[q] = pub[q]
  BY DEF PubInv, PubTypeOK, Publication
<1>4. \A n \in Name : entry'[n] = IF n = pub[p].name THEN pub[p].bytes ELSE entry[n]
  BY DEF PubInv, PubTypeOK
(* Whoever installed something has another name: this one was free.        *)
<1>5. \A q \in Proc : pub[q].step \in Installed =>
        /\ pub[q].name # pub[p].name
        /\ pub[q].name \in Name
        /\ entry[pub[q].name] = pub[q].bytes
  BY DEF PubInv, BusyHasRecord, InstalledIsVisible, Installed
<1>6. BusyHasRecord'
  BY <1>1, <1>3 DEF PubInv, BusyHasRecord
<1>7. DurableIsVisible'
  BY <1>1, <1>4 DEF PubInv, PubTypeOK, DurableIsVisible
<1>8. InstalledIsVisible'
  BY <1>1, <1>3, <1>4, <1>5 DEF InstalledIsVisible
<1>9. OneWinner'
  BY <1>3, <1>5 DEF PubInv, OneWinner
<1>10. OutcomeIsTruthful'
  <2>1. \A q \in Proc : pub'[q].step = "AlreadyExists" => entry'[pub'[q].name] # Absent
    BY <1>1, <1>3, <1>4 DEF PubInv, OutcomeIsTruthful, BusyHasRecord
  <2>2. QED
    BY <2>1, <1>3, <1>8 DEF PubInv, OutcomeIsTruthful, InstalledIsVisible, Installed
<1>11. QED
  BY <1>2, <1>6, <1>7, <1>8, <1>9, <1>10 DEF PubInv

(* A loss of power that spares the durable names.                          *)
LEMMA PowerLossInv ==
  ASSUME PubInv, NEW kept \in SUBSET Visible, durable \subseteq kept, PowerLossTo(kept)
  PROVE  PubInv'
<1>1. PubTypeOK'
  BY DEF PubInv, PubTypeOK, PowerLossTo, Visible, Publication, PubStep, IdlePub
<1>2. \A q \in Proc : pub'[q].step = "idle"
  BY DEF PowerLossTo, IdlePub
<1>3. DurableIsVisible'
  BY DEF PowerLossTo, DurableIsVisible, Visible
<1>4. QED
  BY <1>1, <1>2, <1>3 DEF PubInv, BusyHasRecord, InstalledIsVisible, OneWinner,
                          OutcomeIsTruthful, Installed
-----------------------------------------------------------------------------
(* Every step of persist_no_replace_with_guards.                           *)
LEMMA PublicationStepInv ==
  ASSUME PubInv, NEW p \in Proc, NEW ok \in BOOLEAN, PublicationStep(p, ok)
  PROVE  PubInv'
<1> USE DEF PubInv, PubTypeOK
<1>0. durable \subseteq Visible
  BY DEF DurableIsVisible, Visible
<1>1. CASE BeforeInstall(p, ok)
  <2>1. OnlyMoves(p) /\ pub'[p].step \in {"installing", "Failed"}
    BY <1>1 DEF BeforeInstall, OnlyMoves, Publication, PubStep, Outcome
  <2>2. QED
    BY <1>1, <2>1, <1>0, StepInv DEF BeforeInstall, Installed
<1>2. CASE Linkat(p)
  <2>1. CASE entry[pub[p].name] = Absent
    BY <1>2, <2>1, LinkInv DEF Linkat
  <2>2. CASE entry[pub[p].name] # Absent
    <3>1. OnlyMoves(p) /\ pub'[p].step = "AlreadyExists"
      BY <1>2, <2>2 DEF Linkat, OnlyMoves, Publication, PubStep, Outcome
    <3>2. QED
      BY <1>2, <2>2, <3>1, <1>0, StepInv DEF Linkat, Installed
  <2>3. QED
    BY <2>1, <2>2
<1>3. CASE LinkatError(p)
  <2>1. OnlyMoves(p) /\ pub'[p].step = "Failed"
    BY <1>3 DEF LinkatError, OnlyMoves, Publication, PubStep, Outcome
  <2>2. QED
    BY <1>3, <2>1, <1>0, StepInv DEF LinkatError, Installed
<1>4. CASE AfterInstall(p, ok)
  <2>1. OnlyMoves(p) /\ pub'[p].step = "syncing"
    BY <1>4 DEF AfterInstall, OnlyMoves, Publication, PubStep
  <2>2. QED
    BY <1>4, <2>1, <1>0, StepInv DEF AfterInstall, Installed
<1>5. CASE SyncDirectory(p)
  <2>1. OnlyMoves(p) /\ pub'[p].step \in {"CommittedDurable", "CommittedButCompletionFailed"}
    BY <1>5 DEF SyncDirectory, OnlyMoves, Publication, PubStep, Outcome
  <2>2. pub[p].step = "syncing" /\ entry' = entry /\ durable' = Visible
    BY <1>5 DEF SyncDirectory
  <2>3. pub[p].name \in Visible
    BY <2>2 DEF BusyHasRecord, InstalledIsVisible, Installed, Visible
  <2>4. QED
    BY <2>1, <2>2, <2>3, <1>0, StepInv DEF Installed
<1>6. CASE SyncDirectoryError(p)
  <2>1. OnlyMoves(p) /\ pub'[p].step = "CommittedButCompletionFailed"
    BY <1>6 DEF SyncDirectoryError, OnlyMoves, Publication, PubStep, Outcome
  <2>2. QED
    BY <1>6, <2>1, <1>0, StepInv DEF SyncDirectoryError, Installed
<1>7. QED
  BY <1>1, <1>2, <1>3, <1>4, <1>5, <1>6 DEF PublicationStep

(* Only a successful linkat changes what is visible, by adding one record; *)
(* nothing a publication does makes a durable name less than durable.      *)
LEMMA PublicationStepEffect ==
  ASSUME PubInv, NEW p \in Proc, NEW ok \in BOOLEAN, PublicationStep(p, ok)
  PROVE  /\ OnlyMoves(p)
         /\ pub[p].step \in {"staged", "installing", "installed", "syncing"}
         /\ durable \subseteq durable'
         /\ \/ entry' = entry
            \/ /\ pub[p].step = "installing" /\ pub'[p].step = "installed"
               /\ entry[pub[p].name] = Absent
               /\ entry' = [entry EXCEPT ![pub[p].name] = pub[p].bytes]
<1> USE DEF PubInv, PubTypeOK, OnlyMoves, Publication, PubStep, Outcome
<1>1. CASE BeforeInstall(p, ok)
  BY <1>1 DEF BeforeInstall
<1>2. CASE Linkat(p)
  BY <1>2 DEF Linkat
<1>3. CASE LinkatError(p)
  BY <1>3 DEF LinkatError
<1>4. CASE AfterInstall(p, ok)
  BY <1>4 DEF AfterInstall
<1>5. CASE SyncDirectory(p)
  BY <1>5 DEF SyncDirectory, Visible, DurableIsVisible
<1>6. CASE SyncDirectoryError(p)
  BY <1>6 DEF SyncDirectoryError
<1>7. QED
  BY <1>1, <1>2, <1>3, <1>4, <1>5, <1>6 DEF PublicationStep
-----------------------------------------------------------------------------
(* The invariant is inductive.                                             *)
LEMMA PubNextInv == PubInv /\ [PubNext]_pubVars => PubInv'
<1> SUFFICES ASSUME PubInv, [PubNext]_pubVars PROVE PubInv'
  OBVIOUS
<1>1. ASSUME NEW p \in Proc, NEW n \in Name, NEW b \in Bytes, Stage(p, n, b)
      PROVE  PubInv'
  BY <1>1, StageAsInv DEF Stage
<1>2. ASSUME NEW p \in Proc, NEW ok \in BOOLEAN, PublicationStep(p, ok)
      PROVE  PubInv'
  BY <1>2, PublicationStepInv
<1>3. ASSUME NEW p \in Proc, Return(p) \/ Kill(p)
      PROVE  PubInv'
  BY <1>3, TakeInv DEF Return, Kill
<1>4. CASE PowerLoss
  <2>1. PICK lost \in SUBSET (Visible \ durable) : PowerLossTo(Visible \ lost)
    BY <1>4 DEF PowerLoss
  <2>2. durable \subseteq Visible \ lost
    BY DEF PubInv, PubTypeOK, DurableIsVisible, Visible
  <2>3. QED
    BY <2>1, <2>2, PowerLossInv
<1>5. CASE UNCHANGED pubVars
  BY <1>5 DEF pubVars, PubInv, PubTypeOK, BusyHasRecord, InstalledIsVisible, DurableIsVisible,
              OneWinner, OutcomeIsTruthful
<1>6. QED
  BY <1>1, <1>2, <1>3, <1>4, <1>5 DEF PubNext

(* No step changes a record, and only a loss of power removes one that is   *)
(* not durable.                                                            *)
LEMMA PubNextKeepsRecords == PubInv /\ [PubNext]_pubVars => [RecordsKept]_pubVars
<1> SUFFICES ASSUME PubInv, PubNext PROVE RecordsKept
  OBVIOUS
<1> USE DEF RecordsKept
<1>0. entry \in [Name -> Bytes \cup {Absent}] /\ \A n \in durable : entry[n] # Absent
  BY DEF PubInv, PubTypeOK, DurableIsVisible
<1>1. ASSUME NEW p \in Proc, NEW n \in Name, NEW b \in Bytes, Stage(p, n, b)
      PROVE  RecordsKept
  BY <1>1 DEF Stage
<1>2. ASSUME NEW p \in Proc, NEW ok \in BOOLEAN, PublicationStep(p, ok)
      PROVE  RecordsKept
  <2>1. /\ durable \subseteq durable'
        /\ \/ entry' = entry
           \/ /\ entry[pub[p].name] = Absent
              /\ entry' = [entry EXCEPT ![pub[p].name] = pub[p].bytes]
    BY <1>2, PublicationStepEffect
  <2>2. QED
    BY <2>1, <1>0
<1>3. ASSUME NEW p \in Proc, Return(p) \/ Kill(p)
      PROVE  RecordsKept
  BY <1>3 DEF Return, Kill
<1>4. CASE PowerLoss
  BY <1>4, <1>0 DEF PowerLoss, PowerLossTo, Visible
<1>5. QED
  BY <1>1, <1>2, <1>3, <1>4 DEF PubNext
-----------------------------------------------------------------------------
(* PubInv always holds.                                                    *)
THEOREM PubInvariance == PubSpec => []PubInv
BY PubInitInv, PubNextInv, PTL DEF PubSpec

(* Type correctness of the directory and the publications.                 *)
THEOREM PubTypeCorrect == PubSpec => []PubTypeOK
<1>1. PubInv => PubTypeOK
  BY DEF PubInv
<1>2. QED
  BY <1>1, PubInvariance, PTL

(* persist_no_replace_with_guards never misleads its caller: each outcome   *)
(* says the truth about the directory until the caller has acted on it.     *)
THEOREM OutcomesAreTruthful == PubSpec => []OutcomeIsTruthful
<1>1. PubInv => OutcomeIsTruthful
  BY DEF PubInv
<1>2. QED
  BY <1>1, PubInvariance, PTL

(* However many processes publish a name, at most one passes linkat.        *)
THEOREM OneWinnerPerName == PubSpec => []OneWinner
<1>1. PubInv => OneWinner
  BY DEF PubInv
<1>2. QED
  BY <1>1, PubInvariance, PTL

(* Published records are immutable, and permanent once synchronized.        *)
THEOREM RecordsStayImmutable == PubSpec => RecordsAreImmutable
BY PubInvariance, PubNextKeepsRecords, PTL DEF PubSpec, RecordsAreImmutable
=============================================================================

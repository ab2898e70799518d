----------------------- MODULE MonotonicReleaseProofs -----------------------
(***************************************************************************)
(* Proofs about MonotonicRelease for every set of processes, adapter       *)
(* states, nonces and reconciliation ids, whatever the adapter signs.      *)
(*                                                                         *)
(* The chain is kept by two facts.  A record is only installed when the    *)
(* records it relies on are visible (Backed): a report relies on the entry *)
(* of the head it was requested with, a state entry on its report and on   *)
(* all earlier entries, a receipt on its report.  And a loss of power      *)
(* removes the end of the journal, so what survives (Survivors) is again   *)
(* such a set.  The right to POST is followed as in the release ledger     *)
(* (Holds).                                                                *)
(***************************************************************************)
EXTENDS MonotonicRelease, NoReplacePublicationProofs, WellFoundedInduction

(* A report says verified only of a state that continues what was          *)
(* requested.                                                              *)
GoodReport(report) ==
  /\ report \in Report
  /\ report.verified =>
       report.observed \in AdapterState /\ ValidTransition(report.requested, report.observed)

GoodEntry(e, n) ==
  /\ e \in StateEntry /\ GoodReport(e.report) /\ e.report.verified
  /\ e.state = e.report.observed /\ SequenceOf[e.state] = n

(* Which records the names can hold.                                       *)
EntryKinds ==
  /\ entry[IntentName] \in Nonce \cup LegacyNonce \cup {Absent}
  /\ \A r \in ObservationId : entry[ObservationName(r)] # Absent =>
       GoodReport(entry[ObservationName(r)]) /\ entry[ObservationName(r)].id = r
  /\ \A r \in ObservationId : entry[ReceiptName(r)] \in Receipt \cup {Absent}
  /\ \A n \in 0..MaxSequence : entry[StateName(n)] # Absent => GoodEntry(entry[StateName(n)], n)

(* The state, if there is one, has its entry.                              *)
Retained(s) ==
  s # Absent => /\ entry[StateName(SequenceOf[s])] # Absent
                /\ entry[StateName(SequenceOf[s])].state = s

(* Every record among the names S has what it relies on among them.        *)
BackedState(s, S) == Retained(s) /\ (s # Absent => StateName(SequenceOf[s]) \in S)

BackedReports(S) ==
  \A r \in ObservationId :
    ObservationName(r) \in S => BackedState(entry[ObservationName(r)].requested, S)

BackedEntry(n, S) ==
  LET e == entry[StateName(n)] IN
  /\ \A i \in 0..n : StateName(i) \in S
  /\ ObservationName(e.report.id) \in S /\ entry[ObservationName(e.report.id)] = e.report
  /\ e.report.requested # e.state

BackedEntries(S) == \A n \in 0..MaxSequence : StateName(n) \in S => BackedEntry(n, S)

(* The receipt of an older submit has no report, and neither have the ones *)
(* of older reconciles.                                                    *)
BackedReceipt(r, S) ==
  \/ /\ ObservationName(r) \in S
     /\ entry[ReceiptName(r)] = ReceiptOf(entry[ObservationName(r)])
  \/ r = Absent /\ entry[ObservationName(r)] = Absent

BackedReceipts(S) ==
  \A r \in ObservationId \ LegacyId : ReceiptName(r) \in S => BackedReceipt(r, S)

Backed(S) == BackedReports(S) /\ BackedEntries(S) /\ BackedReceipts(S)

(* What a loss of power at this moment may leave.                          *)
Survivors(S) ==
  \E kept \in 0..Len(journal) :
    S = Visible \ {journal[i] : i \in kept + 1..Len(journal)}

Journalled ==
  /\ \A i \in 1..Len(journal) : journal[i] \notin durable
  /\ \A S \in SUBSET Name : Survivors(S) => Backed(S)

SubmitPc == {"readIntent", "replay", "checkOrphan", "intent", "post"}
ReconcilePc == {"load", "readObservation", "readLegacy"}
RepairPc == {"entry", "stageReceipt", "receipt", "publish"}

(* The locals of a command at each of its steps, and the publication it    *)
(* has under way.                                                          *)
Asks(p) ==
  /\ Retained(inv[p].requested)
  /\ inv[p].pc \in SubmitPc => inv[p].nonce \in Nonce
  /\ inv[p].pc \in ReconcilePc => inv[p].id \in ReconId
  /\ inv[p].pc = "intent" => pub[p].name = IntentName /\ pub[p].bytes = inv[p].nonce

Observes(p) ==
  inv[p].pc = "observation" =>
    /\ GoodReport(inv[p].report)
    /\ inv[p].report.id = inv[p].id /\ inv[p].report.requested = inv[p].requested
    /\ pub[p].name = ObservationName(inv[p].id) /\ pub[p].bytes = inv[p].report

Repairs(p) ==
  /\ inv[p].pc \in RepairPc =>
       /\ GoodReport(inv[p].report)
       /\ entry[ObservationName(inv[p].report.id)] = inv[p].report
  /\ inv[p].pc = "entry" =>
       /\ inv[p].report.verified
       /\ pub[p].name = StateName(SequenceOf[inv[p].report.observed])
       /\ pub[p].bytes = [state |-> inv[p].report.observed, report |-> inv[p].report]
  /\ inv[p].pc \in RepairPc \ {"entry"} /\ inv[p].report.verified =>
       Retained(inv[p].report.observed)
  /\ inv[p].pc = "receipt" =>
       pub[p].name = ReceiptName(inv[p].report.id) /\ pub[p].bytes = ReceiptOf(inv[p].report)

Shape(p) == Asks(p) /\ Observes(p) /\ Repairs(p)

(* A submit holds the right to POST from the linkat of its intent on.      *)
Holds(p) ==
  \/ inv[p].pc = "intent" /\ pub[p].step \in Installed
  \/ inv[p].pc = "post"

PostRight ==
  /\ \A p, q \in Proc : Holds(p) /\ Holds(q) => p = q
  /\ \A p \in Proc : Holds(p) => posts = 0
  /\ \A p \in Proc : inv[p].pc = "post" => IntentName \in durable
  /\ PostedOnce

(* Beside the receipt of an older submit nobody submits.                   *)
OlderReceipt == entry[ReceiptName(Absent)] # Absent /\ entry[ObservationName(Absent)] = Absent

KeepsOff(p) ==
  /\ inv[p].pc \notin {"checkOrphan", "intent", "post"}
  /\ inv[p].pc \in {"await", "observation"} => inv[p].id # Absent

OlderSubmit ==
  OlderReceipt => IntentName \in durable /\ \A p \in Proc : KeepsOff(p)

HInv ==
  /\ TypeOK /\ PubInv
  /\ EntryKinds /\ Journalled
  /\ \A p \in Proc : Shape(p)
  /\ PostRight
  /\ OlderSubmit

USE AbsentAssumption
-----------------------------------------------------------------------------
(* The names of the ledger: all distinct.                                  *)
LEMMA NamesAreNames ==
  /\ IntentName \in Name
  /\ \A r \in ObservationId : ObservationName(r) \in Name /\ ReceiptName(r) \in Name
  /\ \A n \in 0..MaxSequence : StateName(n) \in Name
BY MonotonicAssumption DEF MonotonicName

(* Records of different kinds or for different ids have different names.   *)
LEMMA NamesDiffer ==
  /\ \A r : IntentName # ObservationName(r) /\ IntentName # ReceiptName(r) /\ IntentName # StateName(r)
  /\ \A r, t : /\ ObservationName(r) # ReceiptName(t) /\ ObservationName(r) # StateName(t)
               /\ ReceiptName(r) # StateName(t)
               /\ ObservationName(r) = ObservationName(t) => r = t
               /\ ReceiptName(r) = ReceiptName(t) => r = t
               /\ StateName(r) = StateName(t) => r = t
BY DEF IntentName, ObservationName, ReceiptName, StateName

(* No record is the missing one.                                           *)
LEMMA RecordsAreBytes ==
  /\ Nonce \subseteq Bytes /\ LegacyNonce \subseteq Bytes /\ Report \subseteq Bytes
  /\ Receipt \subseteq Bytes /\ StateEntry \subseteq Bytes
BY MonotonicAssumption DEF MonotonicBytes

(* What was said of records stays true while the records among S stay.     *)
LEMMA BackedStays ==
  ASSUME NEW S \in SUBSET Name, Backed(S), S \subseteq Visible,
         \A n \in S : entry'[n] = entry[n],
         ReceiptName(Absent) \in S /\ entry[ObservationName(Absent)] = Absent =>
           entry'[ObservationName(Absent)] = Absent
  PROVE  Backed(S)'
<1>1. BackedReports(S)'
  <2> SUFFICES ASSUME NEW r \in ObservationId, ObservationName(r) \in S
               PROVE  BackedState(entry[ObservationName(r)].requested, S)'
    BY DEF BackedReports
  <2>1. BackedState(entry[ObservationName(r)].requested, S)
    BY DEF Backed, BackedReports
  <2>2. QED
    BY <2>1 DEF BackedState, Retained
<1>2. BackedEntries(S)'
  <2> SUFFICES ASSUME NEW n \in 0..MaxSequence, StateName(n) \in S
               PROVE  BackedEntry(n, S)'
    BY DEF BackedEntries
  <2>1. BackedEntry(n, S)
    BY DEF Backed, BackedEntries
  <2>2. QED
    BY <2>1 DEF BackedEntry
<1>3. BackedReceipts(S)'
  <2> SUFFICES ASSUME NEW r \in ObservationId \ LegacyId, ReceiptName(r) \in S
               PROVE  BackedReceipt(r, S)'
    BY DEF BackedReceipts
  <2>1. BackedReceipt(r, S)
    BY DEF Backed, BackedReceipts
  <2>2. QED
    BY <2>1 DEF BackedReceipt
<1>4. QED
  BY <1>1, <1>2, <1>3 DEF Backed

(* One more record among S, which finds what it relies on.                 *)
LEMMA BackedGrows ==
  ASSUME NEW S \in SUBSET Name, Backed(S)', NEW m \in Name,
         \A r \in ObservationId : m = ObservationName(r) => BackedState(entry[m].requested, S)',
         \A n \in 0..MaxSequence : m = StateName(n) => BackedEntry(n, S \cup {m})',
         \A r \in ObservationId \ LegacyId : m = ReceiptName(r) => BackedReceipt(r, S)'
  PROVE  Backed(S \cup {m})'
<1>1. BackedReports(S \cup {m})'
  <2> SUFFICES ASSUME NEW r \in ObservationId, ObservationName(r) \in S \cup {m}
               PROVE  BackedState(entry[ObservationName(r)].requested, S \cup {m})'
    BY DEF BackedReports
  <2>1. BackedState(entry[ObservationName(r)].requested, S)'
    BY DEF Backed, BackedReports
  <2>2. QED
    BY <2>1 DEF BackedState
<1>2. BackedEntries(S \cup {m})'
  <2> SUFFICES ASSUME NEW n \in 0..MaxSequence, StateName(n) \in S, BackedEntry(n, S)'
               PROVE  BackedEntry(n, S \cup {m})'
    BY DEF BackedEntries, Backed
  <2>1. QED
    BY DEF BackedEntry
<1>3. BackedReceipts(S \cup {m})'
  <2> SUFFICES ASSUME NEW r \in ObservationId \ LegacyId, BackedReceipt(r, S)'
               PROVE  BackedReceipt(r, S \cup {m})'
    BY DEF BackedReceipts, Backed
  <2>1. QED
    BY DEF BackedReceipt
<1>4. QED
  BY <1>1, <1>2, <1>3 DEF Backed

(* What is visible is backed: nothing is lost without a loss of power.     *)
LEMMA VisibleIsBacked ==
  ASSUME TypeOK, Journalled
  PROVE  Backed(Visible)
<1>1. Len(journal) \in Nat /\ Len(journal) \in 0..Len(journal)
  BY DEF TypeOK
<1>2. Len(journal) + 1..Len(journal) = {}
  BY <1>1
<1>3. Visible = Visible \ {journal[i] : i \in Len(journal) + 1..Len(journal)}
  BY <1>2
<1>4. Survivors(Visible)
  BY <1>1, <1>3 DEF Survivors
<1>5. Visible \in SUBSET Name
  BY DEF Visible
<1>6. QED
  BY <1>4, <1>5 DEF Journalled

(* Installing one more record, at the end of the journal.                  *)
LEMMA InstallJournalled ==
  ASSUME TypeOK, PubInv, Journalled, NEW m \in Name, NEW b \in Bytes, entry[m] = Absent,
         entry' = [entry EXCEPT ![m] = b], durable' = durable, journal' = Append(journal, m),
         NEW V \in SUBSET Name, V = Visible, Backed(V \cup {m})',
         m = ObservationName(Absent) => entry[ReceiptName(Absent)] = Absent
  PROVE  Journalled'
<1> DEFINE L == Len(journal)
<1>1. /\ L \in Nat /\ Len(journal') = L + 1 /\ journal'[L + 1] = m
      /\ \A i \in 1..L : journal'[i] = journal[i]
      /\ \A i \in 1..L : journal[i] \in Name
  BY DEF TypeOK
<1>2. /\ \A n \in Name : entry'[n] = IF n = m THEN b ELSE entry[n]
      /\ m \notin V /\ Visible' = V \cup {m}
  BY DEF PubInv, PubTypeOK, Visible
<1>3. \A i \in 1..Len(journal') : journal'[i] \notin durable'
  <2>1. m \notin durable
    BY DEF PubInv, DurableIsVisible
  <2>2. \A i \in 1..L : journal[i] \notin durable
    BY DEF Journalled
  <2>3. QED
    BY <1>1, <2>1, <2>2
<1>4. ASSUME NEW S \in SUBSET Name, Survivors(S)'
      PROVE  Backed(S)'
  <2>1. PICK k \in 0..L + 1 : S = (V \cup {m}) \ {journal'[i] : i \in k + 1..L + 1}
    BY <1>1, <1>2, <1>4 DEF Survivors
  <2>2. CASE k = L + 1
    <3>1. k + 1..L + 1 = {}
      BY <1>1, <2>2
    <3>2. S = V \cup {m}
      BY <2>1, <3>1
    <3>3. QED
      BY <3>2
  <2>3. CASE k # L + 1
    <3>1. k \in 0..L /\ L + 1 \in k + 1..L + 1
      BY <1>1, <2>3
    <3>2. m \in {journal'[i] : i \in k + 1..L + 1}
      BY <1>1, <3>1
    <3>3. \A n \in V : n \in {journal'[i] : i \in k + 1..L + 1}
                         <=> n \in {journal[i] : i \in k + 1..L}
      BY <1>1, <1>2, <3>1
    <3>4. S = V \ {journal[i] : i \in k + 1..L}
      BY <1>2, <2>1, <3>2, <3>3
    <3>5. Survivors(S)
      BY <3>1, <3>4 DEF Survivors
    <3>6. Backed(S) /\ S \subseteq Visible
      BY <3>4, <3>5 DEF Journalled
    <3>7. \A n \in S : entry'[n] = entry[n]
      BY <1>2, <3>4
    <3>8. ReceiptName(Absent) \in S /\ entry[ObservationName(Absent)] = Absent =>
            entry'[ObservationName(Absent)] = Absent
      <4>1. ObservationName(Absent) \in Name
        BY NamesAreNames DEF ObservationId
      <4>2. QED
        BY <1>2, <3>6, <4>1 DEF Visible
    <3>9. QED
      BY <3>6, <3>7, <3>8, BackedStays
  <2>4. QED
    BY <2>2, <2>3
<1>5. QED
  BY <1>3, <1>4 DEF Journalled

(* With an empty journal only what is visible survives.                    *)
LEMMA EmptyJournal ==
  ASSUME journal' = <<>>, NEW V \in SUBSET Name, V = Visible', Backed(V)'
  PROVE  Journalled'
<1>1. Len(journal') = 0
  OBVIOUS
<1>2. ASSUME NEW S \in SUBSET Name, Survivors(S)' PROVE S = V
  <2>1. PICK k \in 0..0 : S = V \ {journal'[i] : i \in k + 1..0}
    BY <1>1, <1>2 DEF Survivors
  <2>2. k + 1..0 = {}
    BY <2>1
  <2>3. QED
    BY <2>1, <2>2
<1>3. QED
  BY <1>1, <1>2 DEF Journalled
-----------------------------------------------------------------------------
(* Steps of a command between its publications.                            *)
Invocation ==
  [pc : MonotonicPc, nonce : Nonce \cup LegacyNonce \cup {Absent}, id : ObservationId,
   requested : AdapterState \cup {Absent}, report : Report \cup {Absent}, fresh : BOOLEAN]

(* Only p moves, and the directory stays as it is.                         *)
LocalStep(p) ==
  /\ UNCHANGED <<entry, durable, journal>>
  /\ inv' \in [Proc -> Invocation]
  /\ \A q \in Proc \ {p} : inv'[q] = inv[q] /\ pub'[q] = pub[q]

(* The rest of the state is right when what p has become is.               *)
LEMMA LocalRest ==
  ASSUME HInv, NEW p \in Proc, LocalStep(p), PubInv', posts' \in Nat, shown' \subseteq AdapterState,
         Shape(p)', OlderReceipt => KeepsOff(p)'
  PROVE  /\ TypeOK' /\ EntryKinds' /\ Journalled' /\ OlderSubmit'
         /\ \A q \in Proc : Shape(q)'
<1>1. TypeOK'
  BY DEF HInv, TypeOK, LocalStep, Invocation, PubInv
<1>2. UNCHANGED <<entry, durable, journal>> /\ \A q \in Proc \ {p} : inv'[q] = inv[q] /\ pub'[q] = pub[q]
  BY DEF LocalStep
<1>3. EntryKinds'
  BY <1>2 DEF HInv, EntryKinds
<1>4. Journalled'
  <2>1. ASSUME NEW S \in SUBSET Name PROVE (Survivors(S)' <=> Survivors(S)) /\ (Backed(S)' <=> Backed(S))
    BY <1>2 DEF Survivors, Visible, Backed, BackedReports, BackedEntries, BackedReceipts,
                BackedState, BackedEntry, BackedReceipt, Retained
  <2>2. QED
    BY <1>2, <2>1 DEF HInv, Journalled
<1>5. ASSUME NEW q \in Proc PROVE Shape(q)'
  <2>1. CASE q # p
    <3>1. inv'[q] = inv[q] /\ pub'[q] = pub[q] /\ entry' = entry
      BY <1>2, <2>1
    <3>2. Shape(q)
      BY DEF HInv
    <3>3. QED
      BY <3>1, <3>2 DEF Shape, Asks, Observes, Repairs, Retained
  <2>2. QED
    BY <2>1
<1>6. OlderSubmit'
  <2>1. ASSUME OlderReceipt', NEW q \in Proc PROVE KeepsOff(q)'
    <3>1. OlderReceipt
      BY <1>2, <2>1 DEF OlderReceipt
    <3>2. CASE q # p
      <4>1. KeepsOff(q) /\ inv'[q] = inv[q]
        BY <1>2, <3>1, <3>2 DEF HInv, OlderSubmit
      <4>2. QED
        BY <4>1 DEF KeepsOff
    <3>3. QED
      BY <3>1, <3>2
  <2>2. OlderReceipt' => IntentName \in durable'
    BY <1>2 DEF HInv, OlderSubmit, OlderReceipt
  <2>3. QED
    BY <2>1, <2>2 DEF OlderSubmit
<1>7. QED
  BY <1>1, <1>3, <1>4, <1>5, <1>6

(* The same for a step that neither POSTs nor gains the right to.          *)
LEMMA LocalStepHInv ==
  ASSUME HInv, NEW p \in Proc, LocalStep(p), PubInv', UNCHANGED posts, shown' \subseteq AdapterState,
         Shape(p)', Holds(p)' => Holds(p), inv'[p].pc = "post" => IntentName \in durable,
         OlderReceipt => KeepsOff(p)'
  PROVE  HInv'
<1>1. posts' \in Nat
  BY DEF HInv, TypeOK
<1>2. UNCHANGED <<entry, durable, journal>> /\ \A q \in Proc \ {p} : inv'[q] = inv[q] /\ pub'[q] = pub[q]
  BY DEF LocalStep
<1>3. PostRight'
  <2>1. ASSUME NEW q \in Proc, Holds(q)' PROVE Holds(q)
    <3>1. CASE q # p
      BY <1>2, <2>1, <3>1 DEF Holds
    <3>2. QED
      BY <2>1, <3>1
  <2>2. \A q \in Proc : inv'[q].pc = "post" => IntentName \in durable'
    BY <1>2 DEF HInv, PostRight
  <2>3. PostedOnce'
    BY <1>2 DEF HInv, PostRight, PostedOnce
  <2>4. QED
    BY <2>1, <2>2, <2>3 DEF HInv, PostRight
<1>4. QED
  BY <1>1, <1>3, LocalRest DEF HInv

(* The types a step starts from.                                           *)
LEMMA HInvTypes ==
  ASSUME HInv
  PROVE  /\ inv \in [Proc -> Invocation] /\ pub \in [Proc -> Publication]
         /\ entry \in [Name -> Bytes \cup {Absent}] /\ shown \subseteq AdapterState
         /\ PubInv /\ TypeOK /\ EntryKinds /\ Journalled
BY DEF HInv, TypeOK, Invocation, PubInv, PubTypeOK

(* A step that only moves p's command on, its locals untouched.            *)
LEMMA GotoHInv ==
  ASSUME HInv, NEW p \in Proc, NEW pc \in MonotonicPc, Goto(p, pc),
         UNCHANGED <<entry, durable, journal, posts, shown>>,
         PubInv', \A q \in Proc \ {p} : pub'[q] = pub[q],
         Shape(p)', Holds(p)' => Holds(p), pc = "post" => IntentName \in durable,
         OlderReceipt => KeepsOff(p)'
  PROVE  HInv'
<1>1. LocalStep(p) /\ inv'[p].pc = pc
  BY HInvTypes DEF LocalStep, Goto, Invocation
<1>2. QED
  BY <1>1, HInvTypes, LocalStepHInv

(* A command that ends.                                                    *)
LEMMA ExitHInv ==
  ASSUME HInv, NEW p \in Proc, Exit(p), UNCHANGED <<entry, durable, journal, posts>>,
         shown' \subseteq AdapterState, UNCHANGED pub \/ Take(p)
  PROVE  HInv'
<1>1. IdleInv \in Invocation
  BY DEF IdleInv, Invocation, MonotonicPc, ObservationId
<1>2. inv'[p] = IdleInv /\ inv' \in [Proc -> Invocation] /\ \A q \in Proc \ {p} : inv'[q] = inv[q]
  BY <1>1, HInvTypes DEF Exit
<1>3. \A q \in Proc \ {p} : pub'[q] = pub[q]
  BY HInvTypes DEF Take
<1>4. PubInv'
  <2>1. CASE UNCHANGED pub
    BY <2>1, HInvTypes DEF PubInv, PubTypeOK, BusyHasRecord, InstalledIsVisible, DurableIsVisible,
                           OneWinner, OutcomeIsTruthful
  <2>2. CASE Take(p)
    BY <2>2, HInvTypes, TakeInv DEF Take
  <2>3. QED
    BY <2>1, <2>2
<1>5. Shape(p)'
  BY <1>2 DEF Shape, Asks, Observes, Repairs, Retained, IdleInv, SubmitPc, ReconcilePc, RepairPc
<1>6. ~Holds(p)' /\ inv'[p].pc # "post" /\ KeepsOff(p)'
  BY <1>2 DEF IdleInv, Holds, KeepsOff
<1>7. LocalStep(p)
  BY <1>2, <1>3 DEF LocalStep
<1>8. QED
  BY <1>4, <1>5, <1>6, <1>7, LocalStepHInv
-----------------------------------------------------------------------------
(* Repair starts from a recorded observation.                              *)
LEMMA RepairHInv ==
  ASSUME HInv, NEW p \in Proc, NEW report, NEW fresh \in BOOLEAN, GoodReport(report),
         entry[ObservationName(report.id)] = report, RepairWith(p, report, fresh),
         UNCHANGED <<entry, durable, journal, posts, shown>>
  PROVE  HInv'
<1> DEFINE k == IF report.verified THEN "entry" ELSE "stageReceipt"
<1>1. report \in Report /\ k \in {"entry", "stageReceipt"} /\ k \in MonotonicPc
  BY DEF GoodReport, MonotonicPc, PublishingPc
<1>2. inv' = [inv EXCEPT ![p].pc = k, ![p].report = report, ![p].fresh = fresh]
  BY DEF RepairWith
<1> HIDE DEF k
<1>3. /\ inv' \in [Proc -> Invocation] /\ \A q \in Proc \ {p} : inv'[q] = inv[q]
      /\ inv'[p].pc = k /\ inv'[p].report = report /\ inv'[p].requested = inv[p].requested
  <2>1. PICK v : v = [inv[p] EXCEPT !.pc = k, !.report = report, !.fresh = fresh]
    OBVIOUS
  <2>2. inv[p] \in Invocation /\ inv \in [Proc -> Invocation]
    BY HInvTypes
  <2>3. v \in Invocation /\ v.pc = k /\ v.report = report /\ v.requested = inv[p].requested
    BY <1>1, <2>1, <2>2 DEF Invocation
  <2>4. inv' = [inv EXCEPT ![p] = v]
    BY <1>2, <2>1, <2>2
  <2>5. QED
    BY <2>2, <2>3, <2>4
<1>4. CASE report.verified
  <2> DEFINE s == report.observed
             n == StateName(SequenceOf[s])
             b == [state |-> s, report |-> report]
  <2>1. s \in AdapterState /\ SequenceOf[s] \in 0..MaxSequence
    BY <1>4, StateAssumption DEF GoodReport
  <2>2. n \in Name /\ b \in Bytes
    BY <1>1, <2>1, NamesAreNames, RecordsAreBytes DEF StateEntry
  <2>3. StageAs(p, n, b) /\ k = "entry"
    BY <1>4 DEF RepairWith, k
  <2>4. PubInv' /\ \A q \in Proc \ {p} : pub'[q] = pub[q]
    BY <2>2, <2>3, HInvTypes, StageAsInv DEF StageAs
  <2>5. pub'[p].name = n /\ pub'[p].bytes = b
    BY <2>3, HInvTypes DEF StageAs
  <2>6. Shape(p)'
    <3>1. Asks(p)'
      BY <1>3, <2>3 DEF HInv, Shape, Asks, Retained, SubmitPc, ReconcilePc
    <3>2. Observes(p)' /\ Repairs(p)'
      BY <1>3, <1>4, <2>3, <2>5 DEF Observes, Repairs, RepairPc
    <3>3. QED
      BY <3>1, <3>2 DEF Shape
  <2>7. ~Holds(p)' /\ KeepsOff(p)' /\ inv'[p].pc # "post"
    BY <1>3, <2>3 DEF Holds, KeepsOff
  <2>8. QED
    BY <1>3, <2>4, <2>6, <2>7, HInvTypes, LocalStepHInv DEF LocalStep
<1>5. CASE ~report.verified
  <2>3. Take(p) /\ k = "stageReceipt"
    BY <1>5 DEF RepairWith, k
  <2>4. PubInv' /\ \A q \in Proc \ {p} : pub'[q] = pub[q]
    BY <2>3, HInvTypes, TakeInv DEF Take
  <2>6. Shape(p)'
    <3>1. Asks(p)'
      BY <1>3, <2>3 DEF HInv, Shape, Asks, Retained, SubmitPc, ReconcilePc
    <3>2. Observes(p)' /\ Repairs(p)'
      BY <1>3, <1>5, <2>3 DEF Observes, Repairs, RepairPc
    <3>3. QED
      BY <3>1, <3>2 DEF Shape
  <2>7. ~Holds(p)' /\ KeepsOff(p)' /\ inv'[p].pc # "post"
    BY <1>3, <2>3 DEF Holds, KeepsOff
  <2>8. QED
    BY <1>3, <2>4, <2>6, <2>7, HInvTypes, LocalStepHInv DEF LocalStep
<1>6. QED
  BY <1>4, <1>5

(* A set of numbers up to m that is not empty has an end.                  *)
LEMMA Greatest ==
  ASSUME NEW m \in Nat, NEW S \in SUBSET (0..m), S # {}
  PROVE  \E n \in S : n + 1 \notin S
<1> DEFINE T == {k \in Nat : m - k \in S}
<1>1. T \subseteq Nat /\ T # {}
  <2>1. PICK n \in S : n \in 0..m
    OBVIOUS
  <2>2. m - n \in Nat /\ m - (m - n) = n
    BY <2>1
  <2>3. QED
    BY <2>1, <2>2
<1>2. PICK x \in T : \A y \in T : ~(<<y, x>> \in OpToRel(<, Nat))
  BY <1>1, WFMin, NatLessThanWellFounded
<1>3. \A y \in T : ~(y < x)
  BY <1>1, <1>2 DEF OpToRel
<1>4. m - x \in S /\ x \in Nat
  BY <1>2
<1>5. (m - x) + 1 \notin S
  <2> SUFFICES ASSUME (m - x) + 1 \in S PROVE FALSE
    OBVIOUS
  <2>1. (m - x) + 1 \in 0..m
    OBVIOUS
  <2>2. x - 1 \in Nat /\ m - (x - 1) = (m - x) + 1 /\ x - 1 < x
    BY <1>4, <2>1
  <2>3. x - 1 \in T
    BY <2>2
  <2>4. QED
    BY <1>3, <2>2, <2>3
<1>6. QED
  BY <1>4, <1>5

(* The head of a chain with entries is the state of its last entry, which  *)
(* is retained with its report.                                            *)
LEMMA HeadIsRetained ==
  ASSUME HInv, Chain # {}
  PROVE  /\ HeadSequence \in Chain
         /\ GoodEntry(entry[StateName(HeadSequence)], HeadSequence)
         /\ Retained(ChainHead) /\ ChainHead \in AdapterState
         /\ GoodReport(HeadReport) /\ HeadReport.verified /\ HeadReport.observed = ChainHead
         /\ entry[ObservationName(HeadReport.id)] = HeadReport
<1>1. HeadSequence \in Chain
  <2>1. \E n \in Chain : n + 1 \notin Chain
    BY Greatest, StateAssumption DEF Chain
  <2>2. QED
    BY <2>1 DEF HeadSequence
<1>2. PICK n \in 0..MaxSequence : n = HeadSequence /\ entry[StateName(n)] # Absent
  <2>1. HeadSequence \in 0..HeadSequence /\ HeadSequence \in 0..MaxSequence
    BY <1>1, StateAssumption DEF Chain
  <2>2. QED
    BY <1>1, <2>1 DEF Chain
<1>3. PICK e : e = entry[StateName(n)]
  OBVIOUS
<1>4. GoodEntry(e, n)
  BY <1>2, <1>3, HInvTypes DEF EntryKinds
<1>5. BackedEntry(n, Visible)
  <2>1. StateName(n) \in Visible
    BY <1>2, NamesAreNames DEF Visible
  <2>2. QED
    BY <2>1, HInvTypes, VisibleIsBacked DEF Backed, BackedEntries
<1>6. ChainHead = e.state /\ HeadReport = e.report
  BY <1>2, <1>3 DEF ChainHead, HeadReport
<1>7. e.state \in AdapterState /\ SequenceOf[e.state] = n
  BY <1>4 DEF GoodEntry, StateEntry
<1>8. QED
  BY <1>1, <1>2, <1>3, <1>4, <1>5, <1>6, <1>7 DEF GoodEntry, BackedEntry, Retained
-----------------------------------------------------------------------------
(* A publication nobody moves.                                             *)
LEMMA PubSame == ASSUME PubInv, UNCHANGED pubVars PROVE PubInv'
BY DEF pubVars, PubInv, PubTypeOK, BusyHasRecord, InstalledIsVisible, DurableIsVisible,
       OneWinner, OutcomeIsTruthful

(* The locals that a move keeps.                                           *)
LEMMA GotoLocals ==
  ASSUME HInv, NEW p \in Proc, NEW pc \in MonotonicPc, Goto(p, pc)
  PROVE  /\ inv'[p].pc = pc /\ inv'[p].nonce = inv[p].nonce /\ inv'[p].id = inv[p].id
         /\ inv'[p].requested = inv[p].requested /\ inv'[p].report = inv[p].report
BY HInvTypes DEF Goto, Invocation

(* submit starts: nothing is known of the ledger.                          *)
LEMMA SubmitStartHInv ==
  ASSUME HInv, NEW p \in Proc, NEW x \in Nonce, SubmitStart(p, x) PROVE HInv'
<1>1. PICK v : v = [IdleInv EXCEPT !.pc = "readIntent", !.nonce = x]
  OBVIOUS
<1>2. v \in Invocation /\ v.pc = "readIntent" /\ v.nonce = x /\ v.requested = Absent
  BY <1>1 DEF IdleInv, Invocation, MonotonicPc, ObservationId
<1>3. inv'[p] = v /\ inv' \in [Proc -> Invocation] /\ \A q \in Proc \ {p} : inv'[q] = inv[q]
  BY <1>1, <1>2, HInvTypes DEF SubmitStart
<1>4. UNCHANGED <<pubVars, entry, durable, pub, posts, shown, journal>>
  BY DEF SubmitStart, pubVars
<1>5. Shape(p)'
  BY <1>2, <1>3 DEF Shape, Asks, Observes, Repairs, Retained, SubmitPc, ReconcilePc, RepairPc
<1>6. ~Holds(p)' /\ KeepsOff(p)' /\ inv'[p].pc # "post"
  BY <1>2, <1>3 DEF Holds, KeepsOff
<1>7. LocalStep(p)
  BY <1>3, <1>4 DEF LocalStep
<1>8. QED
  BY <1>4, <1>5, <1>6, <1>7, HInvTypes, PubSame, LocalStepHInv

(* reconcile starts from the intent on disk.                               *)
LEMMA ReconcileStartHInv ==
  ASSUME HInv, NEW p \in Proc, NEW r \in ReconId, ReconcileStart(p, r) PROVE HInv'
<1>0. entry[IntentName] \in Nonce \cup LegacyNonce \cup {Absent}
  BY HInvTypes DEF EntryKinds
<1>1. PICK v : v = [IdleInv EXCEPT !.pc = "load", !.id = r, !.nonce = entry[IntentName]]
  OBVIOUS
<1>2. v \in Invocation /\ v.pc = "load" /\ v.id = r /\ v.requested = Absent
  BY <1>0, <1>1 DEF IdleInv, Invocation, MonotonicPc, ObservationId
<1>3. inv'[p] = v /\ inv' \in [Proc -> Invocation] /\ \A q \in Proc \ {p} : inv'[q] = inv[q]
  BY <1>1, <1>2, HInvTypes DEF ReconcileStart
<1>4. UNCHANGED <<pubVars, entry, durable, pub, posts, shown, journal>>
  BY DEF ReconcileStart, pubVars
<1>5. Shape(p)'
  BY <1>2, <1>3 DEF Shape, Asks, Observes, Repairs, Retained, SubmitPc, ReconcilePc, RepairPc
<1>6. ~Holds(p)' /\ KeepsOff(p)' /\ inv'[p].pc # "post"
  BY <1>2, <1>3 DEF Holds, KeepsOff
<1>7. LocalStep(p)
  BY <1>3, <1>4 DEF LocalStep
<1>8. QED
  BY <1>4, <1>5, <1>6, <1>7, HInvTypes, PubSame, LocalStepHInv

(* submit reads the intent: none, its own, or another one.                 *)
LEMMA SubmitReadIntentHInv ==
  ASSUME HInv, NEW p \in Proc, SubmitReadIntent(p) PROVE HInv'
<1>0. inv[p].pc = "readIntent" /\ UNCHANGED <<pubVars, entry, durable, pub, posts, shown, journal>>
  BY DEF SubmitReadIntent, pubVars
<1>1. ASSUME NEW pc \in {"checkOrphan", "replay"}, Goto(p, pc),
             pc = "checkOrphan" => entry[IntentName] = Absent
      PROVE  HInv'
  <2>1. pc \in MonotonicPc
    BY DEF MonotonicPc
  <2>2. Shape(p)'
    BY <1>0, <1>1, <2>1, GotoLocals
       DEF HInv, Shape, Asks, Observes, Repairs, Retained, SubmitPc, ReconcilePc, RepairPc
  <2>3. ~Holds(p)' /\ pc # "post"
    BY <1>1, <2>1, GotoLocals DEF Holds
  <2>4. OlderReceipt => KeepsOff(p)'
    <3>1. OlderReceipt => entry[IntentName] # Absent
      BY DEF HInv, OlderSubmit, PubInv, DurableIsVisible
    <3>2. QED
      BY <1>1, <2>1, <3>1, GotoLocals DEF KeepsOff
  <2>5. QED
    BY <1>0, <1>1, <2>1, <2>2, <2>3, <2>4, HInvTypes, PubSame, GotoHInv
<1>2. CASE Exit(p)
  BY <1>0, <1>2, HInvTypes, ExitHInv
<1>3. QED
  BY <1>1, <1>2 DEF SubmitReadIntent

(* The submission's observation is repaired, or nothing is sent again.     *)
LEMMA SubmitReplayHInv ==
  ASSUME HInv, NEW p \in Proc, SubmitReplay(p) PROVE HInv'
<1>0. UNCHANGED <<entry, durable, posts, shown, journal>>
  BY DEF SubmitReplay
<1>1. CASE entry[ObservationName(Absent)] # Absent
  <2>1. PICK report : report = entry[ObservationName(Absent)]
    OBVIOUS
  <2>2. GoodReport(report) /\ report.id = Absent
    BY <1>1, <2>1, HInvTypes DEF EntryKinds, ObservationId
  <2>3. RepairWith(p, report, FALSE)
    BY <1>1, <2>1 DEF SubmitReplay
  <2>4. QED
    BY <1>0, <2>1, <2>2, <2>3, RepairHInv
<1>2. CASE entry[ObservationName(Absent)] = Absent
  BY <1>0, <1>2, HInvTypes, ExitHInv DEF SubmitReplay, EndWith
<1>3. QED
  BY <1>1, <1>2

(* Without leftovers of an older submit the intent is staged.              *)
LEMMA SubmitStageIntentHInv ==
  ASSUME HInv, NEW p \in Proc, SubmitStageIntent(p) PROVE HInv'
<1>0. inv[p].pc = "checkOrphan" /\ UNCHANGED <<entry, durable, posts, shown, journal>>
  BY DEF SubmitStageIntent
<1>1. CASE Exit(p) /\ UNCHANGED pub
  BY <1>0, <1>1, HInvTypes, ExitHInv
<1>2. CASE /\ entry[ReceiptName(Absent)] = Absent
           /\ Goto(p, "intent") /\ StageAs(p, IntentName, inv[p].nonce)
  <2>1. "intent" \in MonotonicPc
    BY DEF MonotonicPc, PublishingPc
  <2>2. inv[p].nonce \in Nonce
    BY <1>0 DEF HInv, Shape, Asks, SubmitPc
  <2>3. PubInv' /\ \A q \in Proc \ {p} : pub'[q] = pub[q]
    BY <1>0, <1>2, <2>2, HInvTypes, NamesAreNames, RecordsAreBytes, StageAsInv DEF StageAs
  <2>4. pub'[p].name = IntentName /\ pub'[p].bytes = inv[p].nonce /\ pub'[p].step = "staged"
    BY <1>2, HInvTypes DEF StageAs
  <2>5. Shape(p)'
    BY <1>0, <1>2, <2>1, <2>2, <2>4, GotoLocals
       DEF HInv, Shape, Asks, Observes, Repairs, Retained, SubmitPc, ReconcilePc, RepairPc
  <2>6. ~Holds(p)'
    BY <1>2, <2>1, <2>4, GotoLocals DEF Holds, Installed
  <2>7. ~OlderReceipt
    BY <1>2 DEF OlderReceipt
  <2>8. QED
    BY <1>0, <1>2, <2>1, <2>3, <2>5, <2>6, <2>7, GotoHInv
<1>3. QED
  BY <1>1, <1>2 DEF SubmitStageIntent

(* Only the submit whose intent is durable goes on.                        *)
LEMMA SubmitIntentOutcomeHInv ==
  ASSUME HInv, NEW p \in Proc, SubmitIntentOutcome(p) PROVE HInv'
<1>0. /\ inv[p].pc = "intent" /\ Take(p) /\ UNCHANGED <<entry, durable, posts, shown, journal>>
      /\ PubInv'
  BY HInvTypes, TakeInv DEF SubmitIntentOutcome, Take
<1>1. CASE pub[p].step = "CommittedDurable"
  <2>1. Goto(p, "post") /\ "post" \in MonotonicPc
    BY <1>1 DEF SubmitIntentOutcome, MonotonicPc
  <2>2. \A q \in Proc \ {p} : pub'[q] = pub[q]
    BY <1>0, HInvTypes DEF Take
  <2>3. Holds(p)
    BY <1>0, <1>1 DEF Holds, Installed
  <2>4. IntentName \in durable
    BY <1>0, <1>1 DEF HInv, Shape, Asks, PubInv, OutcomeIsTruthful
  <2>5. Shape(p)'
    BY <1>0, <2>1, GotoLocals
       DEF HInv, Shape, Asks, Observes, Repairs, Retained, SubmitPc, ReconcilePc, RepairPc
  <2>6. ~OlderReceipt
    BY <1>0 DEF HInv, OlderSubmit, KeepsOff
  <2>7. QED
    BY <1>0, <2>1, <2>2, <2>3, <2>4, <2>5, <2>6, GotoHInv
<1>2. CASE pub[p].step # "CommittedDurable"
  BY <1>0, <1>2, HInvTypes, ExitHInv DEF SubmitIntentOutcome
<1>3. QED
  BY <1>1, <1>2

(* The one POST.                                                           *)
LEMMA SubmitPostHInv ==
  ASSUME HInv, NEW p \in Proc, SubmitPost(p) PROVE HInv'
<1>0. /\ inv[p].pc = "post" /\ posts' = posts + 1 /\ Goto(p, "await") /\ "await" \in MonotonicPc
      /\ UNCHANGED <<pubVars, entry, durable, pub, shown, journal>>
  BY DEF SubmitPost, pubVars, MonotonicPc
<1>1. Holds(p) /\ posts = 0 /\ IntentName \in durable
  BY <1>0 DEF HInv, PostRight, Holds
<1>2. inv' \in [Proc -> Invocation] /\ \A q \in Proc \ {p} : inv'[q] = inv[q]
  BY <1>0, HInvTypes DEF Goto, Invocation
<1>3. inv'[p].pc = "await"
  BY <1>0, GotoLocals
<1>4. Shape(p)'
  <2>1. inv'[p].requested = inv[p].requested /\ Retained(inv[p].requested)
    BY <1>0, GotoLocals DEF HInv, Shape, Asks
  <2>2. QED
    BY <1>0, <1>3, <2>1
       DEF Shape, Asks, Observes, Repairs, Retained, SubmitPc, ReconcilePc, RepairPc
<1>5. ~OlderReceipt
  BY <1>0 DEF HInv, OlderSubmit, KeepsOff
<1>6. PubInv' /\ LocalStep(p)
  BY <1>0, <1>2, HInvTypes, PubSame DEF LocalStep
<1>7. PostRight'
  <2>1. ASSUME NEW q \in Proc PROVE ~Holds(q)'
    <3>1. q # p => ~Holds(q)
      BY <1>1 DEF HInv, PostRight
    <3>2. CASE q # p
      BY <1>0, <1>2, <3>1, <3>2 DEF Holds
    <3>3. QED
      BY <1>3, <3>2 DEF Holds
  <2>2. QED
    BY <1>0, <1>1, <2>1 DEF PostRight, PostedOnce, Holds
<1>8. posts' \in Nat /\ shown' \subseteq AdapterState
  BY <1>0, <1>1, HInvTypes
<1>9. QED
  BY <1>4, <1>5, <1>6, <1>7, <1>8, LocalRest DEF HInv

(* reconcile loads the chain; its head is retained.                        *)
LEMMA ReconcileLoadHInv ==
  ASSUME HInv, NEW p \in Proc, ReconcileLoad(p) PROVE HInv'
<1>0. inv[p].pc = "load" /\ UNCHANGED <<entry, durable, posts, shown, journal>>
  BY DEF ReconcileLoad
<1>1. CASE EndWith(p)
  BY <1>0, <1>1, HInvTypes, ExitHInv DEF EndWith
<1>2. CASE ChainHead \in TerminalState /\ RepairWith(p, HeadReport, FALSE)
  <2>1. Chain # {}
    BY <1>2, StateAssumption DEF ChainHead
  <2>2. QED
    BY <1>0, <1>2, <2>1, HeadIsRetained, RepairHInv
<1>3. CASE /\ inv' = [inv EXCEPT ![p].pc = "readObservation", ![p].requested = ChainHead]
           /\ UNCHANGED pub
  <2>1. PICK s \in AdapterState \cup {Absent} : s = ChainHead /\ Retained(s)
    <3>1. CASE Chain = {}
      BY <3>1 DEF ChainHead, Retained
    <3>2. QED
      BY <3>1, HeadIsRetained
  <2>2. PICK v : v = [inv[p] EXCEPT !.pc = "readObservation", !.requested = s]
    OBVIOUS
  <2>3. inv[p] \in Invocation /\ inv \in [Proc -> Invocation]
    BY HInvTypes
  <2>4. v \in Invocation /\ v.pc = "readObservation" /\ v.requested = s /\ v.id = inv[p].id
    BY <2>2, <2>3 DEF Invocation, MonotonicPc
  <2>5. inv' = [inv EXCEPT ![p] = v]
    BY <1>3, <2>1, <2>2, <2>3
  <2>6. inv'[p] = v /\ LocalStep(p)
    BY <1>0, <1>3, <2>3, <2>4, <2>5 DEF LocalStep
  <2>7. Shape(p)'
    <3>1. inv[p].id \in ReconId
      BY <1>0 DEF HInv, Shape, Asks, ReconcilePc
    <3>2. QED
      BY <1>0, <2>1, <2>4, <2>6, <3>1
         DEF Shape, Asks, Observes, Repairs, Retained, SubmitPc, ReconcilePc, RepairPc
  <2>8. ~Holds(p)' /\ KeepsOff(p)' /\ inv'[p].pc # "post"
    BY <2>4, <2>6 DEF Holds, KeepsOff
  <2>9. PubInv'
    BY <1>0, <1>3, HInvTypes, PubSame DEF pubVars
  <2>10. QED
    BY <1>0, <2>6, <2>7, <2>8, <2>9, HInvTypes, LocalStepHInv
<1>4. QED
  BY <1>1, <1>2, <1>3 DEF ReconcileLoad

(* reconcile reads the observation of its id.                              *)
LEMMA ReconcileReadObservationHInv ==
  ASSUME HInv, NEW p \in Proc, ReconcileReadObservation(p) PROVE HInv'
<1>0. inv[p].pc = "readObservation" /\ UNCHANGED <<entry, durable, posts, shown, journal>>
  BY DEF ReconcileReadObservation
<1>1. inv[p].id \in ReconId /\ inv[p].id \in ObservationId
  BY <1>0 DEF HInv, Shape, Asks, ReconcilePc, ObservationId
<1>2. CASE entry[ObservationName(inv[p].id)] # Absent
  <2>1. PICK report : report = entry[ObservationName(inv[p].id)]
    OBVIOUS
  <2>2. GoodReport(report) /\ report.id = inv[p].id
    BY <1>1, <1>2, <2>1, HInvTypes DEF EntryKinds
  <2>3. RepairWith(p, report, FALSE)
    BY <1>2, <2>1 DEF ReconcileReadObservation
  <2>4. QED
    BY <1>0, <2>1, <2>2, <2>3, RepairHInv
<1>3. CASE entry[ObservationName(inv[p].id)] = Absent
  <2>1. Goto(p, "readLegacy") /\ UNCHANGED pub /\ "readLegacy" \in MonotonicPc
    BY <1>3 DEF ReconcileReadObservation, MonotonicPc
  <2>2. Shape(p)'
    BY <1>0, <1>1, <2>1, GotoLocals
       DEF HInv, Shape, Asks, Observes, Repairs, Retained, SubmitPc, ReconcilePc, RepairPc
  <2>3. ~Holds(p)' /\ KeepsOff(p)'
    BY <2>1, GotoLocals DEF Holds, KeepsOff
  <2>4. PubInv'
    BY <1>0, <2>1, HInvTypes, PubSame DEF pubVars
  <2>5. QED
    BY <1>0, <2>1, <2>2, <2>3, <2>4, GotoHInv
<1>4. QED
  BY <1>2, <1>3

(* The GET.                                                                *)
LEMMA ReconcileGetHInv ==
  ASSUME HInv, NEW p \in Proc, ReconcileGet(p) PROVE HInv'
<1>0. inv[p].pc = "readLegacy" /\ UNCHANGED <<pubVars, entry, durable, pub, posts, shown, journal>>
  BY DEF ReconcileGet, pubVars
<1>1. inv[p].id \in ReconId
  BY <1>0 DEF HInv, Shape, Asks, ReconcilePc
<1>2. CASE Exit(p)
  BY <1>0, <1>2, HInvTypes, ExitHInv
<1>3. CASE Goto(p, "await")
  <2>1. "await" \in MonotonicPc
    BY DEF MonotonicPc
  <2>2. Shape(p)'
    BY <1>0, <1>3, <2>1, GotoLocals
       DEF HInv, Shape, Asks, Observes, Repairs, Retained, SubmitPc, ReconcilePc, RepairPc
  <2>3. ~Holds(p)' /\ KeepsOff(p)'
    BY <1>1, <1>3, <2>1, GotoLocals, StateAssumption DEF Holds, KeepsOff
  <2>4. QED
    BY <1>0, <1>3, <2>1, <2>2, <2>3, HInvTypes, PubSame, GotoHInv
<1>4. QED
  BY <1>2, <1>3 DEF ReconcileGet

(* The adapter's answer becomes a report.                                  *)
LEMMA ResponseHInv ==
  ASSUME HInv, NEW p \in Proc, NEW s \in AdapterState \cup {Absent}, Response(p, s) PROVE HInv'
<1>0. inv[p].pc = "await" /\ UNCHANGED <<entry, durable, posts, shown, journal>>
  BY DEF Response
<1>1. PICK ok \in BOOLEAN : ok = (s # Absent /\ ValidTransition(inv[p].requested, s))
  OBVIOUS
<1>2. PICK report : report = [id |-> inv[p].id, requested |-> inv[p].requested, observed |-> s,
                              verified |-> ok]
  OBVIOUS
<1>3. inv[p] \in Invocation /\ inv \in [Proc -> Invocation]
  BY HInvTypes
<1>4. /\ inv' = [inv EXCEPT ![p].pc = "observation", ![p].report = report, ![p].fresh = TRUE]
      /\ StageAs(p, ObservationName(inv[p].id), report)
  BY <1>1, <1>2 DEF Response
<1>5. inv[p].id \in ObservationId /\ inv[p].requested \in AdapterState \cup {Absent}
  BY <1>3 DEF Invocation
<1>6. report \in Report /\ report.id = inv[p].id /\ report.requested = inv[p].requested
  BY <1>2, <1>5 DEF Report
<1>7. GoodReport(report)
  <2>1. report.verified = ok /\ report.observed = s
    BY <1>2
  <2>2. report.verified => s # Absent /\ ValidTransition(inv[p].requested, s)
    BY <1>1, <2>1, Zenon
  <2>3. QED
    BY <1>6, <2>1, <2>2 DEF GoodReport
<1>8. PICK v : v = [inv[p] EXCEPT !.pc = "observation", !.report = report, !.fresh = TRUE]
  OBVIOUS
<1>9. /\ v \in Invocation /\ v.pc = "observation" /\ v.report = report
      /\ v.id = inv[p].id /\ v.requested = inv[p].requested
  BY <1>3, <1>6, <1>8 DEF Invocation, MonotonicPc, PublishingPc
<1>10. inv' = [inv EXCEPT ![p] = v]
  BY <1>3, <1>4, <1>8
<1>11. PubInv' /\ \A q \in Proc \ {p} : pub'[q] = pub[q]
  BY <1>0, <1>4, <1>5, <1>6, HInvTypes, NamesAreNames, RecordsAreBytes, StageAsInv DEF StageAs
<1>12. pub'[p].name = ObservationName(inv[p].id) /\ pub'[p].bytes = report
  BY <1>4, HInvTypes DEF StageAs
<1>13. inv'[p] = v /\ LocalStep(p)
  BY <1>0, <1>3, <1>9, <1>10, <1>11 DEF LocalStep
<1>14. Shape(p)'
  <2>1. Asks(p)'
    BY <1>0, <1>9, <1>13 DEF HInv, Shape, Asks, Retained, SubmitPc, ReconcilePc
  <2>2. Observes(p)' /\ Repairs(p)'
    BY <1>6, <1>7, <1>9, <1>12, <1>13 DEF Observes, Repairs, RepairPc
  <2>3. QED
    BY <2>1, <2>2 DEF Shape
<1>15. ~Holds(p)' /\ inv'[p].pc # "post"
  BY <1>9, <1>13 DEF Holds
<1>16. OlderReceipt => KeepsOff(p)'
  <2>1. OlderReceipt => inv[p].id # Absent
    BY <1>0 DEF HInv, OlderSubmit, KeepsOff
  <2>2. QED
    BY <1>9, <1>13, <2>1 DEF KeepsOff
<1>17. QED
  BY <1>0, <1>11, <1>13, <1>14, <1>15, <1>16, HInvTypes, LocalStepHInv

(* What finish_signed_release_adapter_record accepts is recorded.          *)
LEMMA RecordedIsThere ==
  ASSUME PubInv, NEW p \in Proc, Recorded(p)
  PROVE  entry[pub[p].name] = pub[p].bytes
BY DEF Recorded, PubInv, OutcomeIsTruthful

(* The observation is on disk before anything is derived from it.          *)
LEMMA ObservationOutcomeHInv ==
  ASSUME HInv, NEW p \in Proc, ObservationOutcome(p) PROVE HInv'
<1>0. inv[p].pc = "observation" /\ UNCHANGED <<entry, durable, posts, shown, journal>>
  BY DEF ObservationOutcome
<1>1. CASE Recorded(p)
  <2>1. /\ GoodReport(inv[p].report) /\ inv[p].report.id = inv[p].id
        /\ pub[p].name = ObservationName(inv[p].id) /\ pub[p].bytes = inv[p].report
    BY <1>0 DEF HInv, Shape, Observes
  <2>2. entry[ObservationName(inv[p].report.id)] = inv[p].report
    BY <1>1, <2>1, HInvTypes, RecordedIsThere
  <2>3. RepairWith(p, inv[p].report, TRUE)
    BY <1>1 DEF ObservationOutcome
  <2>4. QED
    BY <1>0, <2>1, <2>2, <2>3, RepairHInv
<1>2. CASE ~Recorded(p)
  BY <1>0, <1>2, HInvTypes, ExitHInv DEF ObservationOutcome, EndWith
<1>3. QED
  BY <1>1, <1>2

(* The state is retained, by p or by another command.                      *)
LEMMA EntryOutcomeHInv ==
  ASSUME HInv, NEW p \in Proc, EntryOutcome(p) PROVE HInv'
<1>0. /\ inv[p].pc = "entry" /\ Take(p) /\ UNCHANGED <<entry, durable, posts, shown, journal>>
      /\ PubInv' /\ \A q \in Proc \ {p} : pub'[q] = pub[q]
  BY HInvTypes, TakeInv DEF EntryOutcome, Take
<1>1. CASE Exit(p)
  BY <1>0, <1>1, HInvTypes, ExitHInv
<1>2. CASE /\ Goto(p, "stageReceipt")
           /\ \/ pub[p].step = "CommittedDurable"
              \/ pub[p].step = "AlreadyExists" /\ entry[pub[p].name].state = inv[p].report.observed
  <2>1. "stageReceipt" \in MonotonicPc
    BY DEF MonotonicPc
  <2>2. PICK s : s = inv[p].report.observed
    OBVIOUS
  <2>3. /\ GoodReport(inv[p].report) /\ inv[p].report.verified
        /\ entry[ObservationName(inv[p].report.id)] = inv[p].report
        /\ pub[p].name = StateName(SequenceOf[s])
        /\ pub[p].bytes = [state |-> s, report |-> inv[p].report]
    BY <1>0, <2>2 DEF HInv, Shape, Repairs, RepairPc
  <2>4. s \in AdapterState /\ StateName(SequenceOf[s]) \in Name
    BY <2>2, <2>3, NamesAreNames, StateAssumption DEF GoodReport
  <2>5. Retained(s)
    <3>1. CASE pub[p].step = "CommittedDurable"
      <4>1. entry[StateName(SequenceOf[s])] = pub[p].bytes /\ StateName(SequenceOf[s]) \in durable
        BY <2>3, <3>1, HInvTypes DEF PubInv, OutcomeIsTruthful
      <4>2. entry[StateName(SequenceOf[s])] # Absent
        BY <4>1, HInvTypes DEF PubInv, DurableIsVisible
      <4>3. QED
        BY <2>3, <4>1, <4>2 DEF Retained
    <3>2. CASE pub[p].step = "AlreadyExists" /\ entry[pub[p].name].state = s
      <4>1. entry[StateName(SequenceOf[s])] # Absent
        BY <2>3, <3>2, HInvTypes DEF PubInv, OutcomeIsTruthful
      <4>2. QED
        BY <2>3, <3>2, <4>1 DEF Retained
    <3>3. QED
      BY <1>2, <2>2, <3>1, <3>2
  <2>6. Shape(p)'
    <3>1. Asks(p)' /\ Observes(p)'
      BY <1>0, <1>2, <2>1, GotoLocals
         DEF HInv, Shape, Asks, Observes, Retained, SubmitPc, ReconcilePc
    <3>2. Repairs(p)'
      BY <1>0, <1>2, <2>1, <2>2, <2>3, <2>5, GotoLocals DEF Repairs, Retained, RepairPc
    <3>3. QED
      BY <3>1, <3>2 DEF Shape
  <2>7. ~Holds(p)' /\ KeepsOff(p)'
    BY <1>2, <2>1, GotoLocals DEF Holds, KeepsOff
  <2>8. QED
    BY <1>0, <1>2, <2>1, <2>6, <2>7, GotoHInv
<1>3. QED
  BY <1>1, <1>2 DEF EntryOutcome

(* The receipt is there, is staged, or contradicts the report.             *)
LEMMA StageReceiptHInv ==
  ASSUME HInv, NEW p \in Proc, StageReceipt(p) PROVE HInv'
<1>0. inv[p].pc = "stageReceipt" /\ UNCHANGED <<entry, durable, posts, shown, journal>>
  BY DEF StageReceipt
<1>1. /\ GoodReport(inv[p].report) /\ entry[ObservationName(inv[p].report.id)] = inv[p].report
      /\ inv[p].report.verified => Retained(inv[p].report.observed)
      /\ Retained(inv[p].requested)
  BY <1>0 DEF HInv, Shape, Asks, Repairs, RepairPc
<1>2. PICK n : n = ReceiptName(inv[p].report.id)
  OBVIOUS
<1>3. PICK b : b = ReceiptOf(inv[p].report)
  OBVIOUS
<1>4. n \in Name /\ b \in Bytes
  <2>1. inv[p].report \in Report
    BY <1>1 DEF GoodReport
  <2>2. inv[p].report.id \in ObservationId /\ b \in Receipt
    BY <1>3, <2>1 DEF Report, Receipt, ReceiptOf
  <2>3. QED
    BY <1>2, <2>2, NamesAreNames, RecordsAreBytes
<1>5. CASE Exit(p) /\ UNCHANGED pub
  BY <1>0, <1>5, HInvTypes, ExitHInv
<1>6. CASE Goto(p, "publish") /\ UNCHANGED pub
  <2>1. "publish" \in MonotonicPc
    BY DEF MonotonicPc
  <2>2. Shape(p)'
    BY <1>0, <1>1, <1>6, <2>1, GotoLocals
       DEF Shape, Asks, Observes, Repairs, Retained, SubmitPc, ReconcilePc, RepairPc
  <2>3. ~Holds(p)' /\ KeepsOff(p)'
    BY <1>6, <2>1, GotoLocals DEF Holds, KeepsOff
  <2>4. PubInv'
    BY <1>0, <1>6, HInvTypes, PubSame DEF pubVars
  <2>5. QED
    BY <1>0, <1>6, <2>1, <2>2, <2>3, <2>4, GotoHInv
<1>7. CASE Goto(p, "receipt") /\ StageAs(p, n, b)
  <2>1. "receipt" \in MonotonicPc
    BY DEF MonotonicPc, PublishingPc
  <2>2. PubInv' /\ \A q \in Proc \ {p} : pub'[q] = pub[q]
    BY <1>0, <1>4, <1>7, HInvTypes, StageAsInv DEF StageAs
  <2>3. pub'[p].name = n /\ pub'[p].bytes = b
    BY <1>7, HInvTypes DEF StageAs
  <2>4. Shape(p)'
    <3>1. Asks(p)' /\ Observes(p)'
      BY <1>0, <1>1, <1>7, <2>1, GotoLocals DEF Asks, Observes, Retained, SubmitPc, ReconcilePc
    <3>2. Repairs(p)'
      BY <1>0, <1>1, <1>2, <1>3, <1>7, <2>1, <2>3, GotoLocals DEF Repairs, Retained, RepairPc
    <3>3. QED
      BY <3>1, <3>2 DEF Shape
  <2>5. ~Holds(p)' /\ KeepsOff(p)'
    BY <1>7, <2>1, GotoLocals DEF Holds, KeepsOff
  <2>6. QED
    BY <1>0, <1>7, <2>1, <2>2, <2>4, <2>5, GotoHInv
<1>8. QED
  BY <1>2, <1>3, <1>5, <1>6, <1>7 DEF StageReceipt

(* The receipt is recorded.                                                *)
LEMMA ReceiptOutcomeHInv ==
  ASSUME HInv, NEW p \in Proc, ReceiptOutcome(p) PROVE HInv'
<1>0. /\ inv[p].pc = "receipt" /\ Take(p) /\ UNCHANGED <<entry, durable, posts, shown, journal>>
      /\ PubInv' /\ \A q \in Proc \ {p} : pub'[q] = pub[q]
  BY HInvTypes, TakeInv DEF ReceiptOutcome, Take
<1>1. CASE Exit(p)
  BY <1>0, <1>1, HInvTypes, ExitHInv
<1>2. CASE Goto(p, "publish")
  <2>1. "publish" \in MonotonicPc
    BY DEF MonotonicPc
  <2>2. Shape(p)'
    BY <1>0, <1>2, <2>1, GotoLocals
       DEF HInv, Shape, Asks, Observes, Repairs, Retained, SubmitPc, ReconcilePc, RepairPc
  <2>3. ~Holds(p)' /\ KeepsOff(p)'
    BY <1>2, <2>1, GotoLocals DEF Holds, KeepsOff
  <2>4. QED
    BY <1>0, <1>2, <2>1, <2>2, <2>3, GotoHInv
<1>3. QED
  BY <1>1, <1>2 DEF ReceiptOutcome

(* What a published report shows: a state, retained if it is verified.     *)
LEMMA PublishShows ==
  ASSUME HInv, NEW p \in Proc, Publish(p)
  PROVE  \A s \in shown' : s \in shown \/ (s \in AdapterState /\ Retained(s))
<1>1. \A s \in shown' : s \in shown \/ (inv[p].report.verified /\ s = inv[p].report.observed)
  BY DEF Publish
<1>2. GoodReport(inv[p].report) /\ (inv[p].report.verified => Retained(inv[p].report.observed))
  BY DEF Publish, HInv, Shape, Repairs, RepairPc
<1>3. QED
  BY <1>1, <1>2 DEF GoodReport

(* The report leaves, and the command ends.                                *)
LEMMA PublishHInv ==
  ASSUME HInv, NEW p \in Proc, Publish(p) PROVE HInv'
<1>1. Exit(p) /\ UNCHANGED <<entry, durable, pub, journal, posts>>
  BY DEF Publish, pubVars
<1>2. shown' \subseteq AdapterState
  BY PublishShows, HInvTypes
<1>3. QED
  BY <1>1, <1>2, ExitHInv

(* A kill.                                                                 *)
LEMMA ProcessKilledHInv ==
  ASSUME HInv, NEW p \in Proc, ProcessKilled(p) PROVE HInv'
BY HInvTypes, ExitHInv DEF ProcessKilled
-----------------------------------------------------------------------------
(* Steps that change the directory.                                        *)

(* New records do not disturb what the commands have read.                 *)
LEMMA ShapeKept ==
  ASSUME HInv, UNCHANGED inv,
         \A q \in Proc : pub'[q].name = pub[q].name /\ pub'[q].bytes = pub[q].bytes,
         \A n \in Name : entry[n] # Absent => entry'[n] = entry[n]
  PROVE  \A q \in Proc : Shape(q)'
<1> SUFFICES ASSUME NEW q \in Proc PROVE Shape(q)'
  OBVIOUS
<1>1. Shape(q) /\ inv[q] \in Invocation
  BY HInvTypes DEF HInv
<1>2. ASSUME NEW s \in AdapterState \cup {Absent}, Retained(s) PROVE Retained(s)'
  <2>1. s # Absent => StateName(SequenceOf[s]) \in Name
    BY NamesAreNames, StateAssumption
  <2>2. QED
    BY <1>2, <2>1 DEF Retained
<1>3. Asks(q)'
  BY <1>1, <1>2 DEF Shape, Asks, Invocation
<1>4. Observes(q)'
  BY <1>1 DEF Shape, Observes
<1>5. Repairs(q)'
  <2>1. ASSUME inv[q].pc \in RepairPc
        PROVE  /\ GoodReport(inv[q].report)
               /\ entry'[ObservationName(inv[q].report.id)] = inv[q].report
    <3>1. GoodReport(inv[q].report) /\ entry[ObservationName(inv[q].report.id)] = inv[q].report
      BY <1>1, <2>1 DEF Shape, Repairs
    <3>2. inv[q].report \in Bytes /\ ObservationName(inv[q].report.id) \in Name
      BY <3>1, RecordsAreBytes, NamesAreNames DEF GoodReport, Report
    <3>3. QED
      BY <3>1, <3>2
  <2>2. inv[q].pc \in RepairPc \ {"entry"} /\ inv[q].report.verified => Retained(inv[q].report.observed)'
    <3>1. ASSUME inv[q].pc \in RepairPc \ {"entry"}, inv[q].report.verified
          PROVE  Retained(inv[q].report.observed) /\ inv[q].report.observed \in AdapterState
      BY <1>1, <2>1, <3>1 DEF Shape, Repairs, GoodReport
    <3>2. QED
      BY <1>2, <3>1
  <2>3. QED
    BY <1>1, <2>1, <2>2 DEF Shape, Repairs
<1>6. QED
  BY <1>3, <1>4, <1>5 DEF Shape

(* What a step of a publication can do.                                    *)
Stays(p) ==
  /\ UNCHANGED <<entry, durable, journal>>
  /\ pub'[p].step \in Installed => pub[p].step \in Installed

Syncs(p) ==
  /\ UNCHANGED entry /\ durable' = Visible /\ journal' = <<>>
  /\ pub[p].step = "installed"

Installs(p) ==
  /\ pub[p].step = "staged" /\ pub'[p].step = "installed"
  /\ entry[pub[p].name] = Absent
  /\ entry' = [entry EXCEPT ![pub[p].name] = pub[p].bytes]
  /\ durable' = durable /\ journal' = Append(journal, pub[p].name)

(* Every step of a publication does one of these.                          *)
LEMMA PublishingEffect ==
  ASSUME HInv, NEW p \in Proc, Publishing(p)
  PROVE  /\ UNCHANGED <<inv, posts, shown>> /\ inv[p].pc \in PublishingPc
         /\ PubInv' /\ OnlyMoves(p)
         /\ Stays(p) \/ Syncs(p) \/ Installs(p)
<1>0. UNCHANGED <<inv, posts, shown>> /\ inv[p].pc \in PublishingPc
  BY DEF Publishing
<1>1. PICK ok \in BOOLEAN : Install(p, ok) \/ Complete(p, ok)
  BY DEF Publishing
<1>2. journal' = IF durable' # durable THEN <<>>
                 ELSE IF entry' # entry THEN Append(journal, pub[p].name) ELSE journal
  BY DEF Publishing
<1>3. durable \subseteq Visible
  BY HInvTypes DEF PubInv, PubTypeOK, DurableIsVisible, Visible
<1>4. CASE Install(p, ok) /\ ok /\ entry[pub[p].name] = Absent
  <2>1. /\ pub[p].step = "staged" /\ durable' = durable
        /\ entry' = [entry EXCEPT ![pub[p].name] = pub[p].bytes]
        /\ pub' = [pub EXCEPT ![p].step = "installed"]
    BY <1>4 DEF Install
  <2>2. pub[p].name \in Name /\ pub[p].bytes \in Bytes
    BY <2>1, HInvTypes DEF PubInv, BusyHasRecord
  <2>3. entry' # entry
    <3>1. entry'[pub[p].name] # entry[pub[p].name]
      BY <1>4, <2>1, <2>2, HInvTypes
    <3>2. QED
      BY <3>1
  <2>4. PubInv'
    BY <1>4, <2>1, HInvTypes, LinkInv
  <2>5. OnlyMoves(p) /\ pub'[p].step = "installed"
    BY <2>1, HInvTypes DEF OnlyMoves, Publication, PubStep
  <2>6. Installs(p)
    BY <1>2, <1>4, <2>1, <2>3, <2>5 DEF Installs
  <2>7. QED
    BY <1>0, <2>4, <2>5, <2>6
<1>5. CASE Install(p, ok) /\ ~(ok /\ entry[pub[p].name] = Absent)
  <2>1. PICK st \in {"AlreadyExists", "Failed"} :
          /\ pub[p].step = "staged" /\ durable' = durable /\ entry' = entry
          /\ pub' = [pub EXCEPT ![p].step = st]
          /\ st = "AlreadyExists" => entry[pub[p].name] # Absent
    BY <1>5 DEF Install
  <2>2. OnlyMoves(p) /\ pub'[p].step = st
    BY <2>1, HInvTypes DEF OnlyMoves, Publication, PubStep, Outcome
  <2>3. PubInv'
    BY <1>3, <2>1, <2>2, HInvTypes, StepInv DEF Installed
  <2>4. Stays(p)
    BY <1>2, <2>1, <2>2 DEF Stays, Installed
  <2>5. QED
    BY <1>0, <2>2, <2>3, <2>4
<1>6. CASE Complete(p, ok)
  <2>1. PICK st \in {"CommittedDurable", "CommittedButCompletionFailed"} :
          /\ pub[p].step = "installed" /\ entry' = entry
          /\ pub' = [pub EXCEPT ![p].step = st]
          /\ durable' = Visible \/ (durable' = durable /\ st = "CommittedButCompletionFailed")
    BY <1>6 DEF Complete
  <2>2. OnlyMoves(p) /\ pub'[p].step = st
    BY <2>1, HInvTypes DEF OnlyMoves, Publication, PubStep, Outcome
  <2>3. pub[p].name \in Visible
    BY <2>1, HInvTypes DEF PubInv, BusyHasRecord, InstalledIsVisible, Installed, Visible
  <2>4. PubInv'
    BY <1>3, <2>1, <2>2, <2>3, HInvTypes, StepInv DEF Installed
  <2>5. Stays(p) \/ Syncs(p)
    BY <1>2, <2>1, <2>2 DEF Stays, Syncs, Installed
  <2>6. QED
    BY <1>0, <2>2, <2>4, <2>5
<1>7. QED
  BY <1>1, <1>4, <1>5, <1>6

(* The record b that p installs under the name m, by the step p is at.     *)
IntentKind(p, m, b) == inv[p].pc = "intent" /\ m = IntentName /\ b \in Nonce

ReportKind(p, m, b, r) ==
  /\ inv[p].pc = "observation" /\ m = ObservationName(r) /\ r = inv[p].id
  /\ GoodReport(b) /\ b.id = r /\ Retained(b.requested)

EntryKind(p, m, b, s) ==
  /\ inv[p].pc = "entry" /\ m = StateName(SequenceOf[s])
  /\ GoodEntry(b, SequenceOf[s]) /\ b.state = s
  /\ entry[ObservationName(b.report.id)] = b.report

ReceiptKind(p, m, b, r) ==
  /\ inv[p].pc = "receipt" /\ m = ReceiptName(r)
  /\ GoodReport(entry[ObservationName(r)]) /\ b = ReceiptOf(entry[ObservationName(r)])

(* The record p is about to install is of the kind of its name.            *)
LEMMA InstallKinds ==
  ASSUME HInv, NEW p \in Proc, inv[p].pc \in PublishingPc, Installs(p),
         NEW m, m = pub[p].name, NEW b, b = pub[p].bytes
  PROVE  \/ IntentKind(p, m, b)
         \/ \E r \in ObservationId : ReportKind(p, m, b, r)
         \/ \E s \in AdapterState : EntryKind(p, m, b, s)
         \/ \E r \in ObservationId : ReceiptKind(p, m, b, r)
<1> USE DEF IntentKind, ReportKind, EntryKind, ReceiptKind
<1>0. Shape(p) /\ inv[p] \in Invocation
  BY HInvTypes DEF HInv
<1>1. CASE inv[p].pc = "intent"
  BY <1>0, <1>1 DEF Shape, Asks, SubmitPc
<1>2. CASE inv[p].pc = "observation"
  <2>1. inv[p].id \in ObservationId
    BY <1>0 DEF Invocation
  <2>2. QED
    BY <1>0, <1>2, <2>1 DEF Shape, Asks, Observes
<1>3. CASE inv[p].pc = "entry"
  <2>1. PICK report \in Report : report = inv[p].report
    BY <1>0, <1>3 DEF Shape, Repairs, RepairPc, GoodReport
  <2>2. PICK s : s = report.observed
    OBVIOUS
  <2>3. /\ GoodReport(report) /\ report.verified /\ m = StateName(SequenceOf[s])
        /\ b = [state |-> s, report |-> report] /\ entry[ObservationName(report.id)] = report
    BY <1>0, <1>3, <2>1, <2>2 DEF Shape, Repairs, RepairPc
  <2>4. s \in AdapterState
    BY <2>2, <2>3 DEF GoodReport
  <2>5. b.state = s /\ b.report = report /\ b \in StateEntry
    BY <2>3, <2>4 DEF StateEntry
  <2>6. GoodEntry(b, SequenceOf[s])
    BY <2>2, <2>3, <2>5 DEF GoodEntry
  <2>7. QED
    BY <1>3, <2>3, <2>4, <2>5, <2>6
<1>4. CASE inv[p].pc = "receipt"
  <2>1. PICK report \in Report : report = inv[p].report
    BY <1>0, <1>4 DEF Shape, Repairs, RepairPc, GoodReport
  <2>2. /\ GoodReport(report) /\ m = ReceiptName(report.id)
        /\ b = ReceiptOf(report) /\ entry[ObservationName(report.id)] = report
    BY <1>0, <1>4, <2>1 DEF Shape, Repairs, RepairPc
  <2>3. report.id \in ObservationId
    BY DEF Report
  <2>4. QED
    BY <1>4, <2>2, <2>3
<1>5. QED
  BY <1>1, <1>2, <1>3, <1>4 DEF PublishingPc

(* Each record is installed beside what it relies on.                      *)
LEMMA InstallBacked ==
  ASSUME HInv, NEW p \in Proc, inv[p].pc \in PublishingPc, Installs(p),
         NEW m \in Name, m = pub[p].name, NEW b \in Bytes, b = pub[p].bytes,
         NEW V \in SUBSET Name, V = Visible
  PROVE  /\ Backed(V \cup {m})' /\ EntryKinds'
         /\ m = ObservationName(Absent) => entry[ReceiptName(Absent)] = Absent
         /\ m = ReceiptName(Absent) => entry[ObservationName(Absent)] # Absent
         /\ m = IntentName => inv[p].pc = "intent"
<1>0. \/ IntentKind(p, m, b)
      \/ \E r \in ObservationId : ReportKind(p, m, b, r)
      \/ \E s \in AdapterState : EntryKind(p, m, b, s)
      \/ \E r \in ObservationId : ReceiptKind(p, m, b, r)
  BY InstallKinds
<1>1. /\ entry \in [Name -> Bytes \cup {Absent}] /\ entry[m] = Absent
      /\ \A n \in Name : entry'[n] = IF n = m THEN b ELSE entry[n]
  BY HInvTypes DEF Installs
<1>2. m \notin V /\ \A n \in Name : n \in V <=> entry[n] # Absent
  BY <1>1 DEF Visible
<1>3. Backed(V)
  BY HInvTypes, VisibleIsBacked
<1>4. Absent \in ObservationId
  BY DEF ObservationId
<1>5. ASSUME NEW s \in AdapterState \cup {Absent}, Retained(s)
      PROVE  BackedState(s, V)'
  <2>1. s # Absent => StateName(SequenceOf[s]) \in Name
    BY NamesAreNames, StateAssumption
  <2>2. QED
    BY <1>1, <1>2, <1>5, <2>1 DEF BackedState, Retained
<1>6. m = ObservationName(Absent) => entry[ReceiptName(Absent)] = Absent
  <2> SUFFICES ASSUME m = ObservationName(Absent) PROVE entry[ReceiptName(Absent)] = Absent
    OBVIOUS
  <2>1. inv[p].pc = "observation" /\ inv[p].id = Absent
    BY <1>0, NamesDiffer DEF IntentKind, ReportKind, EntryKind, ReceiptKind
  <2>2. ~OlderReceipt
    BY <2>1 DEF HInv, OlderSubmit, KeepsOff
  <2>3. QED
    BY <1>1, <2>2 DEF OlderReceipt
<1>7. Backed(V)'
  <2>1. ObservationName(Absent) \in Name /\ ReceiptName(Absent) \in Name
    BY <1>4, NamesAreNames
  <2>2. QED
    BY <1>1, <1>2, <1>3, <1>6, <2>1, BackedStays
<1>8. ASSUME IntentKind(p, m, b)
      PROVE  Backed(V \cup {m})' /\ EntryKinds'
  <2> USE DEF IntentKind
  <2>1. Backed(V \cup {m})'
    BY <1>7, <1>8, NamesDiffer, BackedGrows
  <2>2. EntryKinds'
    BY <1>1, <1>8, NamesAreNames, NamesDiffer, HInvTypes DEF EntryKinds
  <2>3. QED
    BY <2>1, <2>2
<1>9. ASSUME NEW r \in ObservationId, ReportKind(p, m, b, r)
      PROVE  Backed(V \cup {m})' /\ EntryKinds'
  <2> USE DEF ReportKind
  <2>1. b.requested \in AdapterState \cup {Absent} /\ entry'[m] = b
    BY <1>1, <1>9 DEF GoodReport, Report
  <2>2. BackedState(entry[m].requested, V)'
    BY <1>5, <1>9, <2>1 DEF BackedState
  <2>3. Backed(V \cup {m})'
    BY <1>7, <1>9, <2>2, NamesDiffer, BackedGrows
  <2>4. EntryKinds'
    BY <1>1, <1>9, NamesAreNames, NamesDiffer, HInvTypes DEF EntryKinds
  <2>5. QED
    BY <2>3, <2>4
<1>10. ASSUME NEW s \in AdapterState, EntryKind(p, m, b, s)
       PROVE  Backed(V \cup {m})' /\ EntryKinds'
  <2> USE DEF EntryKind
  <2>1. PICK k \in 0..MaxSequence : k = SequenceOf[s]
    BY StateAssumption
  <2>2. PICK report \in Report : report = b.report
    BY <1>10 DEF GoodEntry, GoodReport
  <2>3. /\ report.verified /\ report.observed = s /\ ValidTransition(report.requested, s)
        /\ report.id \in ObservationId /\ report.requested \in AdapterState \cup {Absent}
    BY <1>10, <2>2 DEF GoodEntry, GoodReport, Report
  <2>4. ObservationName(report.id) \in V /\ ObservationName(report.id) # m
    BY <1>2, <1>10, <2>2, <2>3, NamesAreNames, NamesDiffer, RecordsAreBytes
  <2>5. BackedState(report.requested, V)
    BY <1>3, <1>10, <2>2, <2>3, <2>4 DEF Backed, BackedReports
  <2>6. report.requested # s
    <3>1. report.requested = s => StateName(SequenceOf[s]) \in V
      BY <2>5, StateAssumption DEF BackedState
    <3>2. QED
      BY <1>2, <1>10, <3>1
  <2>7. \A i \in 0..k : StateName(i) \in V \cup {m}
    <3>1. CASE report.requested = Absent
      <4>1. k = 0
        BY <2>1, <2>3, <3>1 DEF ValidTransition
      <4>2. \A i \in 0..k : i = k
        BY <4>1
      <4>3. QED
        BY <1>10, <2>1, <4>2
    <3>2. CASE report.requested # Absent
      <4>1. PICK j \in 0..MaxSequence : j = SequenceOf[report.requested]
        BY <2>3, <3>2, StateAssumption
      <4>2. k = j + 1
        BY <2>1, <2>3, <2>6, <3>2, <4>1 DEF ValidTransition
      <4>3. StateName(j) \in V
        BY <2>5, <3>2, <4>1 DEF BackedState
      <4>4. \A i \in 0..j : StateName(i) \in V
        BY <1>3, <4>3 DEF Backed, BackedEntries, BackedEntry
      <4>5. \A i \in 0..k : i \in 0..j \/ i = k
        BY <4>2
      <4>6. QED
        BY <1>10, <2>1, <4>4, <4>5
    <3>3. QED
      BY <3>1, <3>2
  <2>8. BackedEntry(k, V \cup {m})'
    <3>1. entry'[StateName(k)] = b /\ entry'[ObservationName(report.id)] = report
      BY <1>1, <1>10, <2>1, <2>2, <2>3, <2>4, NamesAreNames
    <3>2. QED
      BY <1>10, <2>2, <2>4, <2>6, <2>7, <3>1 DEF BackedEntry
  <2>9. Backed(V \cup {m})'
    BY <1>7, <1>10, <2>1, <2>8, NamesDiffer, BackedGrows
  <2>10. EntryKinds'
    BY <1>1, <1>10, <2>1, NamesAreNames, NamesDiffer, HInvTypes DEF EntryKinds
  <2>11. QED
    BY <2>9, <2>10
<1>11. ASSUME NEW r \in ObservationId, ReceiptKind(p, m, b, r)
       PROVE  Backed(V \cup {m})' /\ EntryKinds' /\ entry[ObservationName(r)] # Absent
  <2> USE DEF ReceiptKind
  <2>1. PICK report \in Report : report = entry[ObservationName(r)]
    BY <1>11 DEF GoodReport
  <2>2. report # Absent /\ ObservationName(r) \in V /\ ObservationName(r) # m
    BY <1>2, <1>11, <2>1, NamesAreNames, NamesDiffer, RecordsAreBytes
  <2>3. entry'[ObservationName(r)] = report /\ entry'[ReceiptName(r)] = ReceiptOf(report)
    BY <1>1, <1>11, <2>1, <2>2, NamesAreNames
  <2>4. BackedReceipt(r, V)'
    BY <2>2, <2>3 DEF BackedReceipt, ReceiptOf
  <2>5. Backed(V \cup {m})'
    BY <1>7, <1>11, <2>4, NamesDiffer, BackedGrows
  <2>6. b \in Receipt
    BY <1>11, <2>1 DEF Report, Receipt, ReceiptOf
  <2>7. EntryKinds'
    BY <1>1, <1>11, <2>6, NamesAreNames, NamesDiffer, HInvTypes DEF EntryKinds
  <2>8. QED
    BY <2>1, <2>2, <2>5, <2>7
<1>12. Backed(V \cup {m})' /\ EntryKinds'
  BY <1>0, <1>8, <1>9, <1>10, <1>11
<1>13. m = ReceiptName(Absent) => entry[ObservationName(Absent)] # Absent
  BY <1>0, <1>4, <1>11, NamesDiffer DEF IntentKind, ReportKind, EntryKind, ReceiptKind
<1>14. m = IntentName => inv[p].pc = "intent"
  BY <1>0, NamesDiffer DEF IntentKind, ReportKind, EntryKind, ReceiptKind
<1>15. QED
  BY <1>6, <1>12, <1>13, <1>14

(* A record is installed.                                                  *)
LEMMA InstallHInv ==
  ASSUME HInv, NEW p \in Proc, inv[p].pc \in PublishingPc, Installs(p), OnlyMoves(p), PubInv',
         UNCHANGED <<inv, posts, shown>>
  PROVE  HInv'
<1>1. PICK m \in Name : m = pub[p].name
  BY HInvTypes DEF PubInv, BusyHasRecord, Installs
<1>2. PICK b \in Bytes : b = pub[p].bytes
  BY HInvTypes DEF PubInv, BusyHasRecord, Installs
<1>3. PICK V \in SUBSET Name : V = Visible
  BY DEF Visible
<1>4. /\ Backed(V \cup {m})' /\ EntryKinds'
      /\ m = ObservationName(Absent) => entry[ReceiptName(Absent)] = Absent
      /\ m = ReceiptName(Absent) => entry[ObservationName(Absent)] # Absent
      /\ m = IntentName => inv[p].pc = "intent"
  BY <1>1, <1>2, <1>3, InstallBacked
<1>5. /\ entry[m] = Absent /\ entry' = [entry EXCEPT ![m] = b] /\ durable' = durable
      /\ journal' = Append(journal, m) /\ pub'[p].step = "installed"
      /\ \A n \in Name : entry'[n] = IF n = m THEN b ELSE entry[n]
  BY <1>1, <1>2, HInvTypes DEF Installs
<1>6. Journalled'
  BY <1>3, <1>4, <1>5, HInvTypes, InstallJournalled
<1>7. /\ \A q \in Proc : pub'[q].name = pub[q].name /\ pub'[q].bytes = pub[q].bytes
      /\ \A q \in Proc \ {p} : pub'[q] = pub[q]
  BY DEF OnlyMoves
<1>8. \A q \in Proc : Shape(q)'
  BY <1>5, <1>7, ShapeKept
<1>9. TypeOK'
  BY <1>5, HInvTypes DEF TypeOK, PubInv
<1>10. PostRight'
  <2>1. CASE inv[p].pc # "intent"
    <3>1. ASSUME NEW q \in Proc PROVE Holds(q)' <=> Holds(q)
      BY <1>7, <2>1 DEF Holds
    <3>2. QED
      BY <1>5, <3>1 DEF HInv, PostRight, PostedOnce
  <2>2. CASE inv[p].pc = "intent"
    <3>1. m = IntentName
      BY <1>1, <2>2 DEF HInv, Shape, Asks
    <3>2. IntentName \notin durable
      BY <1>5, <3>1, HInvTypes DEF PubInv, DurableIsVisible
    <3>3. posts = 0
      BY <3>2 DEF HInv, TypeOK, PostRight, PostedOnce
    <3>4. ASSUME NEW q \in Proc, Holds(q) PROVE FALSE
      <4>1. CASE inv[q].pc = "post"
        BY <3>2, <4>1 DEF HInv, PostRight
      <4>2. CASE inv[q].pc = "intent" /\ pub[q].step \in Installed
        <5>1. pub[q].name = IntentName /\ entry[pub[q].name] = pub[q].bytes
          BY <4>2, HInvTypes DEF HInv, Shape, Asks, PubInv, InstalledIsVisible
        <5>2. pub[q].bytes \in Bytes
          BY <4>2, HInvTypes DEF PubInv, BusyHasRecord, Installed
        <5>3. QED
          BY <1>5, <3>1, <5>1, <5>2
      <4>3. QED
        BY <3>4, <4>1, <4>2 DEF Holds
    <3>5. ASSUME NEW q \in Proc, Holds(q)' PROVE q = p
      BY <1>7, <3>4, <3>5 DEF Holds
    <3>6. QED
      BY <1>5, <3>3, <3>5 DEF HInv, PostRight, PostedOnce
  <2>3. QED
    BY <2>1, <2>2
<1>11. OlderSubmit'
  <2>1. ObservationName(Absent) \in Name /\ ReceiptName(Absent) \in Name
    BY NamesAreNames DEF ObservationId
  <2>2. OlderReceipt' => OlderReceipt
    BY <1>4, <1>5, <2>1 DEF OlderReceipt
  <2>3. QED
    BY <1>5, <2>2 DEF HInv, OlderSubmit, KeepsOff
<1>12. QED
  BY <1>4, <1>6, <1>8, <1>9, <1>10, <1>11 DEF HInv

(* A step of a publication.                                                *)
LEMMA PublishingHInv ==
  ASSUME HInv, NEW p \in Proc, Publishing(p) PROVE HInv'
<1>1. /\ UNCHANGED <<inv, posts, shown>> /\ inv[p].pc \in PublishingPc
      /\ PubInv' /\ OnlyMoves(p)
  BY PublishingEffect
<1>2. /\ \A q \in Proc : pub'[q].name = pub[q].name /\ pub'[q].bytes = pub[q].bytes
      /\ \A q \in Proc \ {p} : pub'[q] = pub[q]
  BY <1>1 DEF OnlyMoves
<1>3. CASE Stays(p)
  <2>1. /\ UNCHANGED <<entry, durable, journal>>
        /\ pub'[p].step \in Installed => pub[p].step \in Installed
    BY <1>3 DEF Stays
  <2>2. Shape(p)'
    BY <1>1, <1>2, <2>1, ShapeKept
  <2>3. Holds(p)' => Holds(p)
    BY <1>1, <2>1 DEF Holds
  <2>4. LocalStep(p)
    BY <1>1, <1>2, <2>1, HInvTypes DEF LocalStep
  <2>5. inv'[p].pc # "post"
    BY <1>1 DEF PublishingPc
  <2>6. OlderReceipt => KeepsOff(p)'
    BY <1>1 DEF HInv, OlderSubmit, KeepsOff
  <2>7. QED
    BY <1>1, <2>2, <2>3, <2>4, <2>5, <2>6, HInvTypes, LocalStepHInv
<1>4. CASE Syncs(p)
  <2>1. UNCHANGED entry /\ durable' = Visible /\ journal' = <<>> /\ pub[p].step \in Installed
    BY <1>4 DEF Syncs, Installed
  <2>2. durable \subseteq durable'
    BY <2>1, HInvTypes DEF PubInv, PubTypeOK, DurableIsVisible, Visible
  <2>3. PICK V \in SUBSET Name : V = Visible
    BY DEF Visible
  <2>4. V = Visible' /\ Backed(V)
    BY <2>1, <2>3, HInvTypes, VisibleIsBacked DEF Visible
  <2>5. Backed(V)'
    BY <2>1, <2>3, <2>4, BackedStays
  <2>6. Journalled'
    BY <2>1, <2>4, <2>5, EmptyJournal
  <2>7. EntryKinds'
    BY <2>1, HInvTypes DEF EntryKinds
  <2>8. \A q \in Proc : Shape(q)'
    BY <1>1, <1>2, <2>1, ShapeKept
  <2>9. TypeOK'
    BY <1>1, <2>1, HInvTypes DEF TypeOK, PubInv
  <2>10. PostRight'
    <3>1. ASSUME NEW q \in Proc, Holds(q)' PROVE Holds(q)
      BY <1>1, <1>2, <2>1, <3>1 DEF Holds
    <3>2. QED
      BY <1>1, <2>2, <3>1 DEF HInv, PostRight, PostedOnce
  <2>11. OlderSubmit'
    BY <1>1, <2>1, <2>2 DEF HInv, OlderSubmit, OlderReceipt, KeepsOff
  <2>12. QED
    BY <1>1, <2>6, <2>7, <2>8, <2>9, <2>10, <2>11 DEF HInv
<1>5. CASE Installs(p)
  BY <1>1, <1>5, InstallHInv
<1>6. QED
  BY <1>3, <1>4, <1>5, PublishingEffect

(* An older reconcile leaves a receipt without a report.                   *)
LEMMA LegacyReconcileHInv ==
  ASSUME HInv, NEW r \in LegacyId, LegacyReconcile(r) PROVE HInv'
<1> DEFINE m == ReceiptName(r)
           b == [id |-> r, observed |-> Absent]
<1>1. r \in ReconId /\ r \in ObservationId /\ r # Absent /\ Absent \in ObservationId
  BY StateAssumption DEF ObservationId
<1>2. m \in Name /\ b \in Receipt /\ b \in Bytes
  BY <1>1, NamesAreNames, RecordsAreBytes DEF Receipt
<1>3. /\ entry[m] = Absent /\ entry' = [entry EXCEPT ![m] = b]
      /\ UNCHANGED <<pub, inv, posts, shown>> /\ journal' = <<>>
  BY DEF LegacyReconcile
<1> HIDE DEF b
<1>4. \A n \in Name : entry'[n] = IF n = m THEN b ELSE entry[n]
  BY <1>2, <1>3, HInvTypes
<1>5. PICK V \in SUBSET Name : V = Visible
  BY DEF Visible
<1>6. durable' = V \cup {m} /\ Visible' = V \cup {m} /\ m \notin V /\ durable \subseteq V
  <2>1. durable' = V \cup {m}
    BY <1>5 DEF LegacyReconcile
  <2>2. Visible' = V \cup {m} /\ m \notin V
    BY <1>2, <1>3, <1>4, <1>5 DEF Visible
  <2>3. durable \subseteq V
    BY <1>5, HInvTypes DEF PubInv, PubTypeOK, DurableIsVisible, Visible
  <2>4. QED
    BY <2>1, <2>2, <2>3
<1>7. Backed(V \cup {m})'
  <2>1. Backed(V)
    BY <1>5, HInvTypes, VisibleIsBacked
  <2>2. ObservationName(Absent) # m /\ ObservationName(Absent) \in Name
    BY <1>1, NamesDiffer, NamesAreNames
  <2>3. Backed(V)'
    BY <1>4, <1>5, <1>6, <2>1, <2>2, BackedStays
  <2>4. QED
    BY <1>1, <1>2, <2>3, NamesDiffer, BackedGrows
<1>8. Journalled'
  <2>1. PICK W \in SUBSET Name : W = V \cup {m}
    BY <1>2
  <2>2. W = Visible' /\ Backed(W)'
    BY <1>6, <1>7, <2>1
  <2>3. QED
    BY <1>3, <2>2, EmptyJournal
<1>9. EntryKinds'
  BY <1>1, <1>2, <1>4, NamesAreNames, NamesDiffer, HInvTypes DEF EntryKinds
<1>10. \A q \in Proc : Shape(q)'
  BY <1>3, <1>4, ShapeKept
<1>11. PubInv'
  <2>1. ASSUME NEW q \in Proc, pub[q].step # "idle", entry[pub[q].name] # Absent
        PROVE  entry'[pub[q].name] = entry[pub[q].name]
    BY <1>3, <1>4, <2>1, HInvTypes DEF PubInv, BusyHasRecord
  <2>2. PubTypeOK'
    BY <1>2, <1>3, <1>6, HInvTypes DEF PubInv, PubTypeOK
  <2>3. BusyHasRecord' /\ OneWinner'
    BY <1>3, HInvTypes DEF PubInv, BusyHasRecord, OneWinner
  <2>4. InstalledIsVisible'
    BY <1>3, <2>1, HInvTypes DEF PubInv, BusyHasRecord, InstalledIsVisible, Installed
  <2>5. DurableIsVisible'
    BY <1>6 DEF DurableIsVisible, Visible
  <2>6. OutcomeIsTruthful'
    <3> SUFFICES ASSUME NEW q \in Proc
                 PROVE  /\ pub[q].step = "CommittedDurable" =>
                             pub[q].name \in durable' /\ entry'[pub[q].name] = pub[q].bytes
                        /\ pub[q].step = "AlreadyExists" => entry'[pub[q].name] # Absent
                        /\ pub[q].step = "CommittedButCompletionFailed" =>
                             entry'[pub[q].name] = pub[q].bytes
      BY <1>3 DEF OutcomeIsTruthful
    <3>1. /\ pub[q].step = "CommittedDurable" => pub[q].name \in durable'
          /\ pub[q].step = "AlreadyExists" => entry'[pub[q].name] # Absent
      BY <1>6, <2>1, HInvTypes DEF PubInv, OutcomeIsTruthful
    <3>2. pub[q].step \in {"CommittedDurable", "CommittedButCompletionFailed"} =>
            entry'[pub[q].name] = pub[q].bytes
      BY <1>3, <2>4 DEF InstalledIsVisible, Installed
    <3>3. QED
      BY <3>1, <3>2
  <2>7. QED
    BY <2>2, <2>3, <2>4, <2>5, <2>6 DEF PubInv
<1>12. TypeOK'
  BY <1>3, <1>11, HInvTypes DEF TypeOK, PubInv
<1>13. PostRight'
  BY <1>3, <1>6 DEF HInv, PostRight, PostedOnce, Holds
<1>14. OlderSubmit'
  <2>1. OlderReceipt' => OlderReceipt
    BY <1>1, <1>4, NamesAreNames, NamesDiffer DEF OlderReceipt
  <2>2. QED
    BY <1>3, <1>6, <2>1 DEF HInv, OlderSubmit, KeepsOff
<1>15. QED
  BY <1>8, <1>9, <1>10, <1>11, <1>12, <1>13, <1>14 DEF HInv

(* A loss of power takes the end of the journal.                           *)
LEMMA PowerFailsHInv == ASSUME HInv, PowerFails PROVE HInv'
<1>1. PICK kept \in 0..Len(journal) :
        PowerLossTo(Visible \ {journal[i] : i \in kept + 1..Len(journal)})
  BY DEF PowerFails
<1>2. PICK K \in SUBSET Name : K = Visible \ {journal[i] : i \in kept + 1..Len(journal)}
  BY DEF Visible
<1>3. PowerLossTo(K) /\ K \in SUBSET Visible /\ Survivors(K) /\ Backed(K)
  BY <1>1, <1>2, HInvTypes DEF Survivors, Journalled
<1>4. durable \subseteq K
  <2>1. \A i \in kept + 1..Len(journal) : i \in 1..Len(journal)
    BY HInvTypes DEF TypeOK
  <2>2. \A i \in 1..Len(journal) : journal[i] \notin durable
    BY HInvTypes DEF Journalled
  <2>3. durable \subseteq Visible
    BY HInvTypes DEF PubInv, PubTypeOK, DurableIsVisible, Visible
  <2>4. QED
    BY <1>2, <2>1, <2>2, <2>3
<1>5. PubInv'
  BY <1>3, <1>4, HInvTypes, PowerLossInv
<1>6. /\ \A n \in Name : entry'[n] = IF n \in K THEN entry[n] ELSE Absent
      /\ durable' = K /\ Visible' = K
  BY <1>3 DEF PowerLossTo, Visible
<1>7. /\ UNCHANGED <<posts, shown>> /\ journal' = <<>> /\ inv' = [p \in Proc |-> IdleInv]
      /\ \A p \in Proc : inv'[p] = IdleInv
  BY DEF PowerFails
<1>8. /\ ObservationName(Absent) \in Name /\ ReceiptName(Absent) \in Name
      /\ Absent \in ObservationId \ LegacyId
  BY NamesAreNames, StateAssumption DEF ObservationId
<1>9. Backed(K)'
  BY <1>3, <1>6, <1>8, BackedStays
<1>10. Journalled'
  BY <1>6, <1>7, <1>9, EmptyJournal
<1>11. EntryKinds'
  BY <1>6, NamesAreNames, HInvTypes DEF EntryKinds
<1>12. \A p \in Proc : Shape(p)'
  BY <1>7 DEF Shape, Asks, Observes, Repairs, Retained, IdleInv, SubmitPc, ReconcilePc, RepairPc
<1>13. TypeOK'
  <2>1. IdleInv \in Invocation
    BY DEF IdleInv, Invocation, MonotonicPc, ObservationId
  <2>2. inv' \in [Proc -> Invocation]
    BY <1>7, <2>1
  <2>3. QED
    BY <1>5, <1>7, <2>2, HInvTypes DEF TypeOK, PubInv, Invocation
<1>14. PostRight'
  <2>1. \A p \in Proc : ~Holds(p)' /\ inv'[p].pc # "post"
    BY <1>7 DEF Holds, IdleInv
  <2>2. PostedOnce'
    BY <1>4, <1>6, <1>7 DEF HInv, PostRight, PostedOnce
  <2>3. QED
    BY <2>1, <2>2 DEF PostRight
<1>15. OlderSubmit'
  <2>1. OlderReceipt' => OlderReceipt
    <3> SUFFICES ASSUME OlderReceipt' PROVE OlderReceipt
      OBVIOUS
    <3>1. ReceiptName(Absent) \in K /\ entry[ReceiptName(Absent)] # Absent
      BY <1>6, <1>8 DEF OlderReceipt
    <3>2. ObservationName(Absent) \notin K
      BY <1>3, <1>6 DEF OlderReceipt, Visible
    <3>3. BackedReceipt(Absent, K)
      BY <1>3, <1>8, <3>1 DEF Backed, BackedReceipts
    <3>4. QED
      BY <3>1, <3>2, <3>3 DEF BackedReceipt, OlderReceipt
  <2>2. \A p \in Proc : KeepsOff(p)'
    BY <1>7 DEF KeepsOff, IdleInv
  <2>3. QED
    BY <1>4, <1>6, <2>1, <2>2 DEF HInv, OlderSubmit
<1>16. QED
  BY <1>5, <1>10, <1>11, <1>12, <1>13, <1>14, <1>15 DEF HInv
-----------------------------------------------------------------------------
(* The ledger of an older submit, or none.                                 *)
LEMMA HInvInit == Init => HInv
<1> SUFFICES ASSUME Init PROVE HInv
  OBVIOUS
<1>1. PICK old \in LegacyNonce \cup {Absent}, hasReceipt \in LegacyReceipt :
        entry = [n \in Name |->
                   CASE n = IntentName -> old
                     [] n = ReceiptName(Absent) /\ old # Absent /\ hasReceipt ->
                          [id |-> Absent, observed |-> Absent]
                     [] OTHER -> Absent]
  BY DEF Init
<1>2. PICK b \in Receipt : b = [id |-> Absent, observed |-> Absent]
  BY DEF Receipt, ObservationId
<1>3. /\ entry[IntentName] = old
      /\ entry[ReceiptName(Absent)] \in {Absent, b}
      /\ entry[ReceiptName(Absent)] # Absent => old # Absent
      /\ \A n \in Name \ {IntentName, ReceiptName(Absent)} : entry[n] = Absent
  <2>1. /\ IntentName \in Name /\ ReceiptName(Absent) \in Name /\ IntentName # ReceiptName(Absent)
    BY NamesAreNames, NamesDiffer DEF ObservationId
  <2>2. QED
    BY <1>1, <1>2, <2>1
<1>4. entry \in [Name -> Bytes \cup {Absent}]
  <2>1. entry = [n \in Name |-> entry[n]]
    BY <1>1
  <2>2. \A n \in Name : entry[n] \in Bytes \cup {Absent}
    BY <1>2, <1>3, RecordsAreBytes
  <2>3. QED
    BY <2>1, <2>2
<1>5. durable = Visible /\ shown = {} /\ journal = <<>>
  BY DEF Init
<1>6. /\ inv = [p \in Proc |-> IdleInv] /\ pub = [p \in Proc |-> IdlePub]
      /\ \A p \in Proc : inv[p] = IdleInv /\ pub[p] = IdlePub
  BY DEF Init
<1>7. /\ posts \in {0, 1} /\ (posts = 1 => entry[IntentName] # Absent)
  BY DEF Init
<1>8. PubInv
  <2>1. PubTypeOK
    BY <1>4, <1>5, <1>6 DEF PubTypeOK, Visible, IdlePub, Publication, PubStep
  <2>2. QED
    BY <1>5, <1>6, <2>1 DEF PubInv, BusyHasRecord, InstalledIsVisible, DurableIsVisible, Visible,
                            OneWinner, OutcomeIsTruthful, IdlePub, Installed
<1>9. TypeOK
  <2>1. IdleInv \in Invocation
    BY DEF IdleInv, Invocation, MonotonicPc, ObservationId
  <2>2. inv \in [Proc -> Invocation]
    BY <1>6, <2>1
  <2>3. posts \in Nat /\ shown \subseteq AdapterState /\ journal \in Seq(Name)
    BY <1>5, <1>7
  <2>4. QED
    BY <1>8, <2>2, <2>3 DEF TypeOK, Invocation, PubInv
<1>10. EntryKinds
  <2>1. \A r \in ObservationId : entry[ObservationName(r)] = Absent
    BY <1>3, NamesAreNames, NamesDiffer
  <2>2. \A n \in 0..MaxSequence : entry[StateName(n)] = Absent
    BY <1>3, NamesAreNames, NamesDiffer
  <2>3. \A r \in ObservationId : entry[ReceiptName(r)] \in Receipt \cup {Absent}
    BY <1>2, <1>3, NamesAreNames, NamesDiffer
  <2>4. QED
    BY <1>3, <2>1, <2>2, <2>3 DEF EntryKinds
<1>11. Journalled
  <2>1. ASSUME NEW S \in SUBSET Name, Survivors(S) PROVE Backed(S)
    <3>1. S \subseteq Visible
      BY <2>1 DEF Survivors
    <3>2. \A n \in S : n = IntentName \/ n = ReceiptName(Absent)
      BY <1>3, <3>1 DEF Visible
    <3>3. BackedReports(S) /\ BackedEntries(S)
      BY <3>2, NamesDiffer DEF BackedReports, BackedEntries
    <3>4. entry[ObservationName(Absent)] = Absent
      BY <1>3, NamesAreNames, NamesDiffer DEF ObservationId
    <3>5. BackedReceipts(S)
      BY <3>2, <3>4, NamesDiffer DEF BackedReceipts, BackedReceipt
    <3>6. QED
      BY <3>3, <3>5 DEF Backed
  <2>2. \A i \in 1..Len(journal) : journal[i] \notin durable
    BY <1>5
  <2>3. QED
    BY <2>1, <2>2 DEF Journalled
<1>12. \A p \in Proc : Shape(p)
  BY <1>6 DEF Shape, Asks, Observes, Repairs, Retained, IdleInv, SubmitPc, ReconcilePc, RepairPc
<1>13. entry[IntentName] # Absent => IntentName \in durable
  BY <1>5, NamesAreNames DEF Visible
<1>14. PostRight
  <2>1. \A p \in Proc : ~Holds(p) /\ inv[p].pc # "post"
    BY <1>6 DEF Holds, IdleInv
  <2>2. PostedOnce
    BY <1>7, <1>13 DEF PostedOnce
  <2>3. QED
    BY <2>1, <2>2 DEF PostRight
<1>15. OlderSubmit
  <2>1. OlderReceipt => IntentName \in durable
    BY <1>3, <1>13 DEF OlderReceipt
  <2>2. \A p \in Proc : KeepsOff(p)
    BY <1>6 DEF KeepsOff, IdleInv
  <2>3. QED
    BY <2>1, <2>2 DEF OlderSubmit
<1>16. QED
  BY <1>8, <1>9, <1>10, <1>11, <1>12, <1>14, <1>15 DEF HInv

(* HInv is inductive while the power stays on.                             *)
LEMMA HInvPowered == HInv /\ PoweredNext => HInv'
<1> SUFFICES ASSUME HInv, PoweredNext PROVE HInv'
  OBVIOUS
<1>1. ASSUME NEW p \in Proc, Continue(p) PROVE HInv'
  BY <1>1, PublishingHInv, SubmitReadIntentHInv, SubmitReplayHInv, SubmitStageIntentHInv,
     SubmitIntentOutcomeHInv, SubmitPostHInv, ReconcileLoadHInv, ReconcileReadObservationHInv,
     ReconcileGetHInv, ResponseHInv, ObservationOutcomeHInv, EntryOutcomeHInv, StageReceiptHInv,
     ReceiptOutcomeHInv, PublishHInv DEF Continue
<1>2. QED
  BY <1>1, SubmitStartHInv, ReconcileStartHInv, ProcessKilledHInv, LegacyReconcileHInv DEF PoweredNext

(* Nothing moves.                                                          *)
LEMMA HInvStutter == HInv /\ UNCHANGED vars => HInv'
<1> SUFFICES ASSUME HInv, UNCHANGED vars PROVE HInv'
  OBVIOUS
<1>1. UNCHANGED <<pubVars, entry, durable, pub, inv, posts, shown, journal>>
  BY DEF vars, pubVars
<1>2. PubInv'
  BY <1>1, HInvTypes, PubSame
<1>3. CASE Proc = {}
  <2>1. TypeOK'
    BY <1>1, <1>2, HInvTypes DEF TypeOK, PubInv
  <2>2. EntryKinds'
    BY <1>1, HInvTypes DEF EntryKinds
  <2>3. Journalled'
    <3>1. ASSUME NEW S \in SUBSET Name
          PROVE  (Survivors(S)' <=> Survivors(S)) /\ (Backed(S)' <=> Backed(S))
      BY <1>1 DEF Survivors, Visible, Backed, BackedReports, BackedEntries, BackedReceipts,
                  BackedState, BackedEntry, BackedReceipt, Retained
    <3>2. QED
      BY <1>1, <3>1, HInvTypes DEF Journalled
  <2>4. PostRight' /\ OlderSubmit'
    BY <1>1, <1>3 DEF HInv, PostRight, PostedOnce, OlderSubmit, OlderReceipt
  <2>5. QED
    BY <1>2, <1>3, <2>1, <2>2, <2>3, <2>4 DEF HInv
<1>4. CASE Proc # {}
  <2>1. PICK p : p \in Proc
    BY <1>4
  <2>2. Shape(p)'
    BY <1>1, <2>1, ShapeKept
  <2>3. (Holds(p)' => Holds(p)) /\ (OlderReceipt => KeepsOff(p)')
    BY <1>1, <2>1 DEF HInv, OlderSubmit, Holds, KeepsOff
  <2>4. inv'[p].pc = "post" => IntentName \in durable
    BY <1>1, <2>1 DEF HInv, PostRight
  <2>5. LocalStep(p)
    BY <1>1, HInvTypes DEF LocalStep
  <2>6. QED
    BY <1>1, <1>2, <2>1, <2>2, <2>3, <2>4, <2>5, HInvTypes, LocalStepHInv
<1>5. QED
  BY <1>3, <1>4

(* HInv is inductive, losses of power included.                            *)
LEMMA HInvNext == HInv /\ [Next]_vars => HInv'
BY HInvPowered, PowerFailsHInv, HInvStutter DEF Next
-----------------------------------------------------------------------------
(* All states of the ledger and of the commands satisfy HInv.              *)
THEOREM HInvariance == Spec => []HInv
BY HInvInit, HInvNext, PTL DEF Spec

(* The state of the commands and of the ledger has its type.               *)
THEOREM TypeCorrect == Spec => []TypeOK
<1>1. HInv => TypeOK
  BY DEF HInv
<1>2. QED
  BY <1>1, HInvariance, PTL

(* The package of the key is POSTed at most once, and only with its intent *)
(* on disk, also when older submits ran before and whatever fails.         *)
THEOREM SubmissionIsPostedOnce == Spec => []PostedOnce
<1>1. HInv => PostedOnce
  BY DEF HInv, PostRight
<1>2. QED
  BY <1>1, HInvariance, PTL

(* An entry that is there has all the entries before it.                   *)
LEMMA EntriesAreChained ==
  ASSUME HInv, NEW n \in 0..MaxSequence, entry[StateName(n)] # Absent
  PROVE  n \in Chain /\ BackedEntry(n, Visible) /\ GoodEntry(entry[StateName(n)], n)
<1>1. StateName(n) \in Visible
  BY NamesAreNames DEF Visible
<1>2. BackedEntry(n, Visible)
  BY <1>1, HInvTypes, VisibleIsBacked DEF Backed, BackedEntries
<1>3. \A i \in 0..n : entry[StateName(i)] # Absent
  BY <1>2 DEF BackedEntry, Visible
<1>4. GoodEntry(entry[StateName(n)], n)
  BY HInvTypes DEF EntryKinds
<1>5. QED
  BY <1>2, <1>3, <1>4 DEF Chain

(* A retained state is the one the loader reads at its sequence.           *)
LEMMA RetainedIsRead ==
  ASSUME HInv, NEW s \in AdapterState, Retained(s)
  PROVE  StateAt(SequenceOf[s]) = s
<1>1. PICK n \in 0..MaxSequence : n = SequenceOf[s]
  BY StateAssumption
<1>2. entry[StateName(n)] # Absent /\ entry[StateName(n)].state = s
  BY <1>1, StateAssumption DEF Retained
<1>3. QED
  BY <1>1, <1>2, EntriesAreChained DEF StateAt

(* What the loader demands of every entry it reads.                        *)
LEMMA ChainOfHInv == HInv => ChainAlwaysLoads
<1> SUFFICES ASSUME HInv PROVE ChainAlwaysLoads
  OBVIOUS
<1>1. ASSUME NEW n \in Chain PROVE EntryIsBacked(n)
  <2>1. n \in 0..MaxSequence /\ n \in 0..n /\ entry[StateName(n)] # Absent
    BY StateAssumption DEF Chain
  <2>2. PICK e : e = entry[StateName(n)]
    OBVIOUS
  <2>3. BackedEntry(n, Visible) /\ GoodEntry(e, n)
    BY <2>1, <2>2, EntriesAreChained
  <2>4. PICK req \in AdapterState \cup {Absent} : req = e.report.requested
    BY <2>3 DEF GoodEntry, GoodReport, Report
  <2>5. /\ e.state \in AdapterState /\ SequenceOf[e.state] = n /\ e.report.verified
        /\ e.report.observed = e.state /\ ValidTransition(req, e.state)
        /\ e.report \in Report /\ e.report.id \in ObservationId
    BY <2>3, <2>4 DEF GoodEntry, GoodReport, StateEntry, Report
  <2>6. /\ entry[ObservationName(e.report.id)] = e.report /\ req # e.state
        /\ ObservationName(e.report.id) \in Visible
    BY <2>2, <2>3, <2>4 DEF BackedEntry
  <2>7. Retained(req)
    <3>1. BackedReports(Visible)
      BY HInvTypes, VisibleIsBacked DEF Backed
    <3>2. QED
      BY <2>4, <2>5, <2>6, <3>1 DEF BackedReports, BackedState
  <2>8. req = StateAt(n - 1)
    <3>1. CASE req = Absent
      <4>1. n = 0
        BY <2>5, <3>1 DEF ValidTransition
      <4>2. n - 1 \notin Chain
        BY <4>1 DEF Chain
      <4>3. QED
        BY <3>1, <4>2 DEF StateAt
    <3>2. CASE req # Absent
      <4>1. PICK k \in 0..MaxSequence : k = SequenceOf[req]
        BY <3>2, StateAssumption
      <4>2. n = k + 1
        BY <2>5, <2>6, <3>2, <4>1 DEF ValidTransition
      <4>3. n - 1 = k
        BY <4>2
      <4>4. QED
        BY <2>7, <3>2, <4>1, <4>3, RetainedIsRead
    <3>3. QED
      BY <3>1, <3>2
  <2>9. QED
    BY <2>2, <2>4, <2>5, <2>6, <2>8 DEF EntryIsBacked
<1>2. ASSUME NEW n \in 0..MaxSequence, entry[StateName(n)] # Absent PROVE n \in Chain
  BY <1>2, EntriesAreChained
<1>3. QED
  BY <1>1, <1>2 DEF ChainAlwaysLoads, ChainLoads

(* load_monotonic_factory_release_state_chain never fails: whatever the    *)
(* adapter signs and whoever dies when, the chain on disk is one history.  *)
THEOREM TheChainLoads == Spec => []ChainAlwaysLoads
BY HInvariance, ChainOfHInv, PTL

(* Only a command that publishes its report shows a state.                 *)
LEMMA OnlyPublishShows ==
  ASSUME HInv, [Next]_vars
  PROVE  shown' = shown \/ \E p \in Proc : Publish(p)
<1>1. ASSUME NEW p \in Proc, Continue(p) PROVE shown' = shown \/ Publish(p)
  BY <1>1 DEF Continue, Publishing, SubmitReadIntent, SubmitReplay, SubmitStageIntent,
              SubmitIntentOutcome, SubmitPost, ReconcileLoad, ReconcileReadObservation, ReconcileGet,
              Response, ObservationOutcome, EntryOutcome, StageReceipt, ReceiptOutcome
<1>2. CASE PowerFails \/ UNCHANGED vars
  BY <1>2 DEF PowerFails, vars
<1>3. QED
  BY <1>1, <1>2 DEF Next, PoweredNext, SubmitStart, ReconcileStart, ProcessKilled, LegacyReconcile

(* A verified report is published only with its state on the chain, however *)
(* late the command is and whatever was retained since.                    *)
THEOREM PublishedStatesAreRetained == Spec => PublishedIsRetained
<1>1. HInv /\ [Next]_vars => [\A s \in shown' \ shown : StateAt(SequenceOf[s]) = s]_vars
  <2> SUFFICES ASSUME HInv, [Next]_vars, NEW s \in shown' \ shown
               PROVE  StateAt(SequenceOf[s]) = s
    OBVIOUS
  <2>1. PICK p \in Proc : Publish(p)
    BY OnlyPublishShows
  <2>2. s \in AdapterState /\ Retained(s)
    BY <2>1, PublishShows
  <2>3. QED
    BY <2>2, RetainedIsRead
<1>2. QED
  BY <1>1, HInvariance, PTL DEF Spec, PublishedIsRetained
-----------------------------------------------------------------------------
(* While the power stays on no record goes away.                           *)
LEMMA PoweredKeepsRecords ==
  ASSUME HInv, [PoweredNext]_vars
  PROVE  \A n \in Name : entry[n] # Absent => entry'[n] = entry[n]
<1>1. ASSUME NEW p \in Proc, Publishing(p)
      PROVE  \A n \in Name : entry[n] # Absent => entry'[n] = entry[n]
  BY <1>1, HInvTypes, PublishingEffect DEF Stays, Syncs, Installs
<1>2. ASSUME NEW p \in Proc, Continue(p)
      PROVE  \A n \in Name : entry[n] # Absent => entry'[n] = entry[n]
  BY <1>1, <1>2 DEF Continue, SubmitReadIntent, SubmitReplay, SubmitStageIntent,
              SubmitIntentOutcome, SubmitPost, ReconcileLoad, ReconcileReadObservation, ReconcileGet,
              Response, ObservationOutcome, EntryOutcome, StageReceipt, ReceiptOutcome, Publish, pubVars
<1>3. ASSUME NEW r \in LegacyId, LegacyReconcile(r)
      PROVE  \A n \in Name : entry[n] # Absent => entry'[n] = entry[n]
  BY <1>3, HInvTypes DEF LegacyReconcile
<1>4. QED
  BY <1>2, <1>3 DEF PoweredNext, SubmitStart, ReconcileStart, ProcessKilled, vars, pubVars

(* Every state that was shown is still retained.                           *)
ShownInv == HInv /\ \A s \in shown : Retained(s)

(* ShownInv is inductive while the power stays on.                         *)
LEMMA ShownInvNext == ShownInv /\ [PoweredNext]_vars => ShownInv'
<1> SUFFICES ASSUME ShownInv, [PoweredNext]_vars PROVE ShownInv'
  OBVIOUS
<1>1. HInv /\ [Next]_vars
  BY DEF ShownInv, Next
<1>2. HInv'
  BY <1>1, HInvNext
<1>3. ASSUME NEW s \in shown' PROVE Retained(s)'
  <2>1. s \in AdapterState /\ Retained(s)
    <3>1. CASE shown' = shown
      BY <1>1, <3>1, HInvTypes DEF ShownInv
    <3>2. ASSUME NEW p \in Proc, Publish(p) PROVE s \in AdapterState /\ Retained(s)
      BY <1>1, <3>2, PublishShows, HInvTypes DEF ShownInv
    <3>3. QED
      BY <1>1, <3>1, <3>2, OnlyPublishShows
  <2>2. StateName(SequenceOf[s]) \in Name
    BY <2>1, NamesAreNames, StateAssumption
  <2>3. QED
    BY <1>1, <2>1, <2>2, PoweredKeepsRecords DEF Retained
<1>4. QED
  BY <1>2, <1>3 DEF ShownInv

(* As long as the power stays on, two verified reports never show different *)
(* states of one sequence, although the adapter may sign both.              *)
THEOREM EquivocationIsNotPublished == PoweredSpec => []NoPublishedEquivocation
<1>1. Init => ShownInv
  BY HInvInit DEF Init, ShownInv
<1>2. ShownInv => NoPublishedEquivocation
  <2> SUFFICES ASSUME ShownInv, NEW s \in shown, NEW t \in shown, SequenceOf[s] = SequenceOf[t]
               PROVE  s = t
    BY DEF NoPublishedEquivocation
  <2>1. s \in AdapterState /\ t \in AdapterState /\ Retained(s) /\ Retained(t)
    BY HInvTypes DEF ShownInv
  <2>2. QED
    BY <2>1, StateAssumption DEF Retained
<1>3. QED
  BY <1>1, <1>2, ShownInvNext, PTL DEF PoweredSpec

(* Without older reconciles the receipt of the chain's head never           *)
(* contradicts it.                                                          *)
LEMMA HeadIsReplayable == ASSUME LegacyId = {}, HInv PROVE TerminalIsReplayable
<1> SUFFICES ASSUME ChainHead \in TerminalState
             PROVE  entry[ReceiptName(HeadReport.id)] \in {Absent, ReceiptOf(HeadReport)}
  BY DEF TerminalIsReplayable
<1>1. Chain # {}
  BY StateAssumption DEF ChainHead
<1>2. PICK report \in Report : report = HeadReport /\ entry[ObservationName(report.id)] = report
  BY <1>1, HeadIsRetained DEF GoodReport
<1>3. PICK r \in ObservationId : r = report.id
  BY DEF Report
<1>4. CASE entry[ReceiptName(r)] # Absent
  <2>1. ReceiptName(r) \in Visible
    BY <1>4, NamesAreNames DEF Visible
  <2>2. BackedReceipt(r, Visible)
    BY <2>1, HInvTypes, VisibleIsBacked DEF Backed, BackedReceipts
  <2>3. entry[ObservationName(r)] # Absent
    BY <1>2, <1>3, RecordsAreBytes
  <2>4. QED
    BY <1>2, <1>3, <2>2, <2>3 DEF BackedReceipt
<1>5. QED
  BY <1>2, <1>3, <1>4

(* A terminal head can always be repaired and replayed, when the            *)
(* reconciliation ids are not shared with the older command.                *)
THEOREM TerminalHeadsAreReplayable == ASSUME LegacyId = {} PROVE Spec => []TerminalIsReplayable
<1>1. HInv => TerminalIsReplayable
  BY HeadIsReplayable
<1>2. QED
  BY <1>1, HInvariance, PTL
=============================================================================

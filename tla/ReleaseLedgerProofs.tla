------------------------- MODULE ReleaseLedgerProofs -------------------------
(***************************************************************************)
(* Proofs about ReleaseLedger and AuthenticatedRelease for every set of    *)
(* processes, markers, nonces, reconciliation ids, policies and windows.   *)
(*                                                                         *)
(* AtMostOnePost and PostedIsOnDisk speak of POSTs already made; to keep   *)
(* them the invariant LInv follows the right to make one.  A submit holds  *)
(* that right (Holds) from the linkat of its intent until its POST.  Two   *)
(* submits never hold it together, because linkat needs a free name and    *)
(* the holder's intent stays visible; nobody holds it after the POST,      *)
(* because by then the intent is on disk for good.                         *)
(*                                                                         *)
(* The properties about windows and about results follow from two further  *)
(* invariants, inductive relative to LInv: WInv carries a clock sample     *)
(* from the guard that took it to the linkat it admits, RInv follows who   *)
(* still owes the record of an answer.                                     *)
(*                                                                         *)
(* The authenticated commands run beside the older ones in the same        *)
(* ledger.  QInv is LInv with them: one right to each POST, whichever kind *)
(* of submit holds it.  Relative to it, HandedOut (while the power stays   *)
(* on) keeps what was shown to callers, KInv follows who owes the answer   *)
(* to a POST, and UInv who has asked for an answer without a receipt.      *)
(***************************************************************************)
EXTENDS AuthenticatedRelease, NoReplacePublicationProofs

(* Which records the names can hold.                                       *)
EntryKinds ==
  /\ entry[MarkerName] \in Marker \cup {Absent}
  /\ \A k \in Marker : entry[IntentName(k)] # Absent =>
       entry[IntentName(k)] \in Intent /\ entry[IntentName(k)].key = k
  /\ \A k \in Marker : entry[ResultName(k)] \in Receipt \cup {Absent}
  /\ \A k \in Marker, r \in ReconId :
       entry[ReconciliationName(k, r)] \in Receipt \cup {Absent}

(* The locals of a command at each of its steps, and the publication it    *)
(* has under way.  The marker a submit has read stays in place while it    *)
(* runs.                                                                   *)
Shape(p) ==
  /\ inv[p].pc = "reserve" =>
       inv[p].marker \in Marker /\ pub[p].name = MarkerName /\ pub[p].bytes = inv[p].marker
  /\ inv[p].pc \in SubmitPc =>
       /\ inv[p].marker \in Marker /\ entry[MarkerName] = inv[p].marker
       /\ inv[p].intent \in Intent /\ inv[p].intent.key = inv[p].marker
  /\ inv[p].pc = "intent" =>
       pub[p].name = IntentName(inv[p].marker) /\ pub[p].bytes = inv[p].intent
  /\ inv[p].pc = "result" => pub[p].name = ResultName(inv[p].marker) /\ pub[p].bytes \in Receipt
  /\ inv[p].pc \in ReconcilePc => inv[p].intent \in Intent /\ inv[p].id \in ReconId
  /\ inv[p].pc = "observation" =>
       pub[p].name = ReconciliationName(inv[p].intent.key, inv[p].id) /\ pub[p].bytes \in Receipt
  /\ inv[p].pc \in {"await", "awaitGet"} => inv[p].receipt \in Receipt

(* p has installed the intent of k and has not sent the package yet.       *)
Holds(p, k) ==
  /\ inv[p].marker = k
  /\ \/ inv[p].pc \in {"recheck", "post"}
     \/ inv[p].pc = "intent" /\ pub[p].step \in Installed

(* Once the intent is known to be durable, so is the marker under it.      *)
Ready(p) ==
  /\ inv[p].pc \in {"recheck", "post"} =>
       {MarkerName, IntentName(inv[p].marker)} \subseteq durable
  /\ inv[p].pc = "intent" /\ pub[p].step = "CommittedDurable" => MarkerName \in durable

OneHolder == \A p, q \in Proc, k \in Marker : Holds(p, k) /\ Holds(q, k) => p = q

Spent ==
  \A k \in Marker :
    /\ posts[k] \in {0, 1}
    /\ posts[k] = 1 => /\ {MarkerName, IntentName(k)} \subseteq durable
                       /\ entry[MarkerName] = k
                       /\ \A p \in Proc : ~Holds(p, k)

LInv ==
  /\ TypeOK
  /\ PubInv
  /\ EntryKinds
  /\ \A p \in Proc : Shape(p) /\ Ready(p)
  /\ OneHolder
  /\ Spent

(* The type of a command's locals.                                         *)
Locals == [pc      : {"idle"} \cup ReservePc \cup SubmitPc \cup ReconcilePc,
           marker  : Marker \cup {Absent},
           intent  : Intent \cup {Absent},
           id      : ReconId \cup {Absent},
           receipt : Receipt \cup {Absent}]

USE AbsentAssumption, WindowAssumption, LedgerAssumption
-----------------------------------------------------------------------------
(* The names of the ledger are different from each other.                  *)
LEMMA DistinctNames ==
  /\ MarkerName \in Name
  /\ \A k \in Marker : /\ IntentName(k) \in Name /\ ResultName(k) \in Name
                       /\ IntentName(k) # MarkerName /\ ResultName(k) # MarkerName
  /\ \A k \in Marker, r \in ReconId :
       ReconciliationName(k, r) \in Name /\ ReconciliationName(k, r) # MarkerName
  /\ \A k, l \in Marker : /\ IntentName(k) # ResultName(l)
                          /\ IntentName(k) = IntentName(l) => k = l
                          /\ ResultName(k) = ResultName(l) => k = l
  /\ \A k, l \in Marker, r \in ReconId :
       ReconciliationName(k, r) # IntentName(l) /\ ReconciliationName(k, r) # ResultName(l)
BY DEF LedgerName, MarkerName, IntentName, ResultName, ReconciliationName

(* Markers, intents and receipts are records that can be published.        *)
LEMMA LedgerRecords ==
  Marker \subseteq Bytes /\ Intent \subseteq Bytes /\ Receipt \subseteq Bytes
BY DEF LedgerBytes

(* The initial state.                                                      *)
LEMMA LInvInit == Init => LInv
<1> SUFFICES ASSUME Init PROVE LInv
  OBVIOUS
<1>1. PubInv
  BY PubInitInv DEF Init
<1>2. TypeOK
  BY <1>1 DEF Init, TypeOK, PubInv, IdleInv
<1>3. \A p \in Proc : inv[p].pc = "idle" /\ pub[p].step = "idle"
  BY DEF Init, PubInit, IdleInv, IdlePub
<1>4. \A p \in Proc : Shape(p) /\ Ready(p) /\ \A k \in Marker : ~Holds(p, k)
  BY <1>3 DEF Shape, Ready, Holds, PublishingPc, SubmitPc, ReconcilePc
<1>5. \A n \in Name : entry[n] = Absent
  BY DEF Init, PubInit
<1>6. EntryKinds
  BY <1>5, DistinctNames DEF EntryKinds
<1>7. OneHolder /\ Spent
  BY <1>4 DEF OneHolder, Spent, Init
<1>8. QED
  BY <1>1, <1>2, <1>4, <1>6, <1>7 DEF LInv

(* A step of p that touches no record, makes no POST and gives p no right   *)
(* to one disturbs only what LInv says of p itself.                        *)
LEMMA LocalStep ==
  ASSUME LInv, NEW p \in Proc,
         entry' = entry, durable' = durable, posts' = posts,
         \A q \in Proc \ {p} : inv'[q] = inv[q] /\ pub'[q] = pub[q],
         TypeOK', PubInv', Shape(p)', Ready(p)',
         \A k \in Marker : Holds(p, k)' => Holds(p, k)
  PROVE  LInv'
<1>1. EntryKinds'
  BY DEF LInv, EntryKinds
<1>2. ASSUME NEW q \in Proc PROVE Shape(q)' /\ Ready(q)'
  <2>1. CASE q = p
    BY <2>1
  <2>2. CASE q # p
    BY <2>2 DEF LInv, Shape, Ready
  <2>3. QED
    BY <2>1, <2>2
<1>3. ASSUME NEW q \in Proc, NEW k \in Marker, Holds(q, k)' PROVE Holds(q, k)
  <2>1. CASE q = p
    BY <2>1, <1>3
  <2>2. CASE q # p
    BY <2>2, <1>3 DEF Holds
  <2>3. QED
    BY <2>1, <2>2
<1>4. OneHolder'
  BY <1>3 DEF LInv, OneHolder
<1>5. Spent'
  BY <1>3 DEF LInv, Spent
<1>6. QED
  BY <1>1, <1>2, <1>4, <1>5 DEF LInv

(* A command ends, with nothing under way or with the outcome taken.       *)
LEMMA EndStep ==
  ASSUME LInv, NEW p \in Proc, Exit(p), entry' = entry, durable' = durable, posts' = posts,
         Take(p) \/ (pub' = pub /\ inv[p].pc \notin PublishingPc),
         now' = now, linkedAt' = linkedAt,
         admitted' \in Nat, outputs' \subseteq [name : Name, receipt : Receipt]
  PROVE  LInv'
<1>1. inv \in [Proc -> Locals] /\ PubInv /\ Shape(p) /\ pub \in [Proc -> Publication]
  BY DEF LInv, TypeOK, Locals, PubInv, PubTypeOK
<1>2. PubInv'
  <2>1. CASE Take(p)
    BY <2>1, <1>1, TakeInv DEF Take
  <2>2. CASE pub' = pub
    BY <2>2, <1>1 DEF PubInv, PubTypeOK, BusyHasRecord, InstalledIsVisible, DurableIsVisible,
                      OneWinner, OutcomeIsTruthful
  <2>3. QED
    BY <2>1, <2>2
<1>3. inv'[p].pc = "idle" /\ inv' \in [Proc -> Locals] /\ \A q \in Proc \ {p} : inv'[q] = inv[q]
  BY <1>1 DEF Exit, IdleInv, Locals
<1>4. \A q \in Proc \ {p} : pub'[q] = pub[q]
  BY <1>1 DEF Take
<1>5. TypeOK'
  BY <1>2, <1>3 DEF LInv, TypeOK, PubInv, Locals
<1>6. Shape(p)' /\ Ready(p)' /\ \A k \in Marker : ~Holds(p, k)'
  BY <1>3, <1>4 DEF Shape, Ready, Holds, PublishingPc, SubmitPc, ReconcilePc
<1>7. QED
  BY <1>2, <1>3, <1>4, <1>5, <1>6, LocalStep

(* A command moves on without publishing; its locals decide the rest.      *)
LEMMA QuietStep ==
  ASSUME LInv, NEW p \in Proc, UNCHANGED <<pubVars, now, posts, admitted, outputs, linkedAt>>,
         NEW locals \in Locals, inv' = [inv EXCEPT ![p] = locals],
         inv[p].pc \notin PublishingPc, locals.pc \notin PublishingPc,
         Shape(p)', Ready(p)',
         locals.pc \in {"recheck", "post"} =>
           inv[p].pc \in {"recheck", "post"} /\ inv[p].marker = locals.marker
  PROVE  LInv'
<1>1. inv \in [Proc -> Locals] /\ PubInv
  BY DEF LInv, TypeOK, Locals
<1>2. PubInv'
  BY <1>1 DEF pubVars, PubInv, PubTypeOK, BusyHasRecord, InstalledIsVisible, DurableIsVisible,
              OneWinner, OutcomeIsTruthful
<1>3. inv' \in [Proc -> Locals] /\ inv'[p] = locals /\ \A q \in Proc \ {p} : inv'[q] = inv[q]
  BY <1>1
<1>4. TypeOK'
  BY <1>2, <1>3 DEF LInv, TypeOK, PubInv, Locals
<1>5. ASSUME NEW k \in Marker, Holds(p, k)' PROVE Holds(p, k)
  BY <1>3, <1>5 DEF Holds, PublishingPc
<1>6. QED
  BY <1>2, <1>3, <1>4, <1>5, LocalStep DEF pubVars

(* A command stages its next record.                                       *)
LEMMA StageStep ==
  ASSUME LInv, NEW p \in Proc, NEW n \in Name, NEW b \in Bytes, StageAs(p, n, b),
         UNCHANGED <<entry, durable, now, posts, admitted, outputs, linkedAt>>,
         NEW locals \in Locals, inv' = [inv EXCEPT ![p] = locals],
         locals.pc \in PublishingPc, Shape(p)'
  PROVE  LInv'
<1>1. inv \in [Proc -> Locals] /\ PubInv /\ pub \in [Proc -> Publication]
  BY DEF LInv, TypeOK, Locals, PubInv, PubTypeOK
<1>2. PubInv'
  BY <1>1, StageAsInv
<1>3. inv' \in [Proc -> Locals] /\ inv'[p] = locals /\ \A q \in Proc \ {p} : inv'[q] = inv[q]
  BY <1>1
<1>4. pub'[p].step = "staged" /\ \A q \in Proc \ {p} : pub'[q] = pub[q]
  BY <1>1 DEF StageAs
<1>5. TypeOK'
  BY <1>2, <1>3 DEF LInv, TypeOK, PubInv, Locals
<1>6. Ready(p)' /\ \A k \in Marker : ~Holds(p, k)'
  BY <1>3, <1>4 DEF Ready, Holds, PublishingPc, Installed
<1>7. QED
  BY <1>2, <1>3, <1>4, <1>5, <1>6, LocalStep
-----------------------------------------------------------------------------
(* A publication of a command: linkat adds the record that Shape describes, *)
(* and gives a submit the right to its POST when the record is its intent.  *)
LEMMA PublicationLInv ==
  ASSUME LInv, NEW p \in Proc, LedgerPublicationStep(p) PROVE LInv'
<1>1. /\ inv \in [Proc -> Locals] /\ pub \in [Proc -> Publication]
      /\ entry \in [Name -> Bytes \cup {Absent}]
      /\ PubInv /\ Shape(p) /\ Ready(p) /\ EntryKinds /\ BusyHasRecord /\ DurableIsVisible
  BY DEF LInv, TypeOK, Locals, PubInv, PubTypeOK
<1>2. PICK ok \in BOOLEAN : PublicationStep(p, ok)
  BY DEF LedgerPublicationStep, CommitGuard
<1>3. inv' = inv /\ posts' = posts /\ inv[p].pc \in PublishingPc
  BY DEF LedgerPublicationStep
<1>4. PubInv'
  BY <1>1, <1>2, PublicationStepInv
<1>5. /\ OnlyMoves(p)
      /\ pub[p].step \in {"staged", "installing", "installed", "syncing"}
      /\ durable \subseteq durable'
      /\ \/ entry' = entry
         \/ /\ pub[p].step = "installing" /\ pub'[p].step = "installed"
            /\ entry[pub[p].name] = Absent
            /\ entry' = [entry EXCEPT ![pub[p].name] = pub[p].bytes]
  BY <1>1, <1>2, PublicationStepEffect
<1>6. pub[p].name \in Name /\ pub[p].bytes \in Bytes
  BY <1>1, <1>5 DEF BusyHasRecord
<1>7. \A n \in Name : entry[n] # Absent => entry'[n] = entry[n]
  BY <1>1, <1>5, <1>6
<1>8. TypeOK'
  BY <1>3, <1>4 DEF LInv, TypeOK, PubInv, LedgerPublicationStep
<1>9. EntryKinds'
  <2>1. CASE entry' = entry
    BY <2>1, <1>1 DEF EntryKinds
  <2>2. CASE entry' = [entry EXCEPT ![pub[p].name] = pub[p].bytes]
    <3>0. \A n \in Name : entry'[n] = IF n = pub[p].name THEN pub[p].bytes ELSE entry[n]
      BY <2>2, <1>1
    <3>1. CASE inv[p].pc = "reserve"
      BY <3>0, <3>1, <1>1, DistinctNames DEF Shape, EntryKinds
    <3>2. CASE inv[p].pc = "intent"
      BY <3>0, <3>2, <1>1, DistinctNames DEF Shape, EntryKinds, SubmitPc
    <3>3. CASE inv[p].pc = "result"
      BY <3>0, <3>3, <1>1, DistinctNames DEF Shape, EntryKinds, SubmitPc
    <3>4. CASE inv[p].pc = "observation"
      <4>1. inv[p].intent.key \in Marker /\ inv[p].id \in ReconId
        BY <3>4, <1>1 DEF Shape, ReconcilePc, Intent
      <4>2. QED
        BY <3>0, <3>4, <4>1, <1>1, DistinctNames DEF Shape, EntryKinds
    <3>5. QED
      BY <3>1, <3>2, <3>3, <3>4, <1>3 DEF PublishingPc
  <2>3. QED
    BY <2>1, <2>2, <1>5
<1>10. ASSUME NEW q \in Proc PROVE Shape(q)'
  <2>1. /\ Shape(q)
        /\ pub'[q].name = pub[q].name /\ pub'[q].bytes = pub[q].bytes
        /\ q # p => pub'[q] = pub[q]
    BY <1>5 DEF LInv, OnlyMoves
  <2>2. inv[q].pc \in SubmitPc => entry'[MarkerName] = inv[q].marker
    BY <2>1, <1>7, DistinctNames DEF Shape
  <2>3. QED
    BY <2>1, <2>2, <1>3 DEF Shape
<1>11. ASSUME NEW q \in Proc PROVE Ready(q)'
  <2>1. CASE q # p
    BY <2>1, <1>3, <1>5 DEF LInv, Ready, OnlyMoves
  <2>2. CASE q = p
    <3>1. SUFFICES ASSUME inv[p].pc = "intent", pub'[p].step = "CommittedDurable"
                   PROVE  MarkerName \in durable'
      BY <2>2, <1>3 DEF Ready, PublishingPc
    <3>2. entry[MarkerName] # Absent
      BY <3>1, <1>1 DEF Shape, SubmitPc
    <3>3. SyncDirectory(p)
      BY <1>1, <1>2, <3>1 DEF PublicationStep, BeforeInstall, Linkat, LinkatError, AfterInstall,
                              SyncDirectory, SyncDirectoryError, Publication
    <3>4. QED
      BY <3>2, <3>3, DistinctNames DEF SyncDirectory, Visible
  <2>3. QED
    BY <2>1, <2>2
(* Only linkat makes a holder, and only where the intent was missing.      *)
<1>12. ASSUME NEW q \in Proc, NEW k \in Marker, Holds(q, k)'
       PROVE  \/ Holds(q, k)
              \/ q = p /\ inv[p].pc = "intent" /\ inv[p].marker = k
                   /\ entry[IntentName(k)] = Absent
  <2>1. CASE q # p
    BY <2>1, <1>3, <1>5, <1>12 DEF Holds, OnlyMoves
  <2>2. CASE q = p
    <3>1. inv[p].pc = "intent" /\ inv[p].marker = k /\ pub'[p].step \in Installed
      BY <2>2, <1>3, <1>12 DEF Holds, PublishingPc
    <3>2. CASE pub[p].step \in Installed
      BY <2>2, <3>1, <3>2 DEF Holds
    <3>3. CASE pub[p].step \notin Installed
      <4>1. entry[pub[p].name] = Absent
        BY <1>1, <1>2, <3>1, <3>3
           DEF PublicationStep, BeforeInstall, Linkat, LinkatError, AfterInstall,
               SyncDirectory, SyncDirectoryError, Publication, Installed
      <4>2. QED
        BY <2>2, <3>1, <4>1, <1>1 DEF Shape
    <3>4. QED
      BY <3>2, <3>3
  <2>3. QED
    BY <2>1, <2>2
<1>13. ASSUME NEW q \in Proc, NEW k \in Marker, Holds(q, k)
       PROVE  entry[IntentName(k)] # Absent
  <2>1. CASE inv[q].pc \in {"recheck", "post"}
    BY <2>1, <1>13, <1>1 DEF LInv, Ready, Holds, DurableIsVisible
  <2>2. CASE inv[q].pc = "intent" /\ pub[q].step \in Installed
    <3>1. pub[q].name = IntentName(k) /\ pub[q].bytes \in Bytes
      BY <2>2, <1>13, <1>1 DEF LInv, Shape, Holds, BusyHasRecord, Installed
    <3>2. QED
      BY <2>2, <3>1 DEF LInv, PubInv, InstalledIsVisible
  <2>3. QED
    BY <2>1, <2>2, <1>13 DEF Holds
<1>14. OneHolder'
  <2> SUFFICES ASSUME NEW q \in Proc, NEW r \in Proc, NEW k \in Marker,
                      Holds(q, k)', Holds(r, k)'
               PROVE  q = r
    BY DEF OneHolder
  <2>1. QED
    BY <1>12, <1>13 DEF LInv, OneHolder
<1>15. Spent'
  <2> SUFFICES ASSUME NEW k \in Marker, posts[k] = 1
               PROVE  /\ {MarkerName, IntentName(k)} \subseteq durable'
                      /\ entry'[MarkerName] = k
                      /\ \A q \in Proc : ~Holds(q, k)'
    BY <1>3 DEF LInv, Spent
  <2>1. /\ {MarkerName, IntentName(k)} \subseteq durable /\ entry[MarkerName] = k
        /\ \A q \in Proc : ~Holds(q, k)
    BY DEF LInv, Spent
  <2>2. entry[MarkerName] # Absent /\ entry[IntentName(k)] # Absent
    BY <2>1, <1>1 DEF DurableIsVisible
  <2>3. QED
    BY <2>1, <2>2, <1>5, <1>7, <1>12, DistinctNames
<1>16. QED
  BY <1>4, <1>8, <1>9, <1>10, <1>11, <1>14, <1>15 DEF LInv
-----------------------------------------------------------------------------
(* reserve.                                                                *)
LEMMA ReserveLInv ==
  ASSUME LInv, NEW p \in Proc,
         (\E m \in Marker : ReserveStart(p, m)) \/ ReserveFinish(p)
  PROVE  LInv'
<1>0. inv \in [Proc -> Locals] /\ pub \in [Proc -> Publication]
  BY DEF LInv, TypeOK, Locals, PubInv, PubTypeOK
<1>1. ASSUME NEW m \in Marker, ReserveStart(p, m) PROVE LInv'
  <2> DEFINE locals == [IdleInv EXCEPT !.pc = "reserve", !.marker = m]
  <2>1. locals \in Locals /\ locals.pc = "reserve" /\ locals.marker = m
    BY DEF IdleInv, Locals, ReservePc
  <2>2. inv' = [inv EXCEPT ![p] = locals] /\ StageAs(p, MarkerName, m)
        /\ UNCHANGED <<entry, durable, now, posts, admitted, outputs, linkedAt>>
    BY <1>1 DEF ReserveStart
  <2> HIDE DEF locals
  <2>3. Shape(p)'
    BY <2>1, <2>2, <1>0 DEF Shape, StageAs, PublishingPc, SubmitPc, ReconcilePc
  <2>4. QED
    BY <2>1, <2>2, <2>3, StageStep, DistinctNames, LedgerRecords DEF PublishingPc
<1>2. CASE ReserveFinish(p)
  BY <1>2, EndStep DEF ReserveFinish, LInv, TypeOK
<1>3. QED
  BY <1>1, <1>2

(* Submit, up to the staging of its intent.                                *)
LEMMA SubmitPrepareLInv ==
  ASSUME LInv, NEW p \in Proc,
         (\E x \in Nonce : SubmitStart(p, x)) \/ SubmitReadIntent(p) \/ SubmitReplay(p)
           \/ SubmitStageIntent(p)
  PROVE  LInv'
<1>0. /\ inv \in [Proc -> Locals] /\ pub \in [Proc -> Publication] /\ Shape(p) /\ EntryKinds
      /\ outputs \subseteq [name : Name, receipt : Receipt] /\ admitted \in Nat
  BY DEF LInv, TypeOK, Locals, PubInv, PubTypeOK
<1>1. ASSUME NEW x \in Nonce, SubmitStart(p, x) PROVE LInv'
  <2> DEFINE m == entry[MarkerName]
             locals == [IdleInv EXCEPT !.pc = "readIntent", !.marker = m,
                                       !.intent = [key |-> m, nonce |-> x]]
  <2>1. m \in Marker
    BY <1>0, <1>1 DEF SubmitStart, EntryKinds
  <2>2. /\ locals \in Locals /\ locals.pc = "readIntent" /\ locals.marker = m
        /\ locals.intent \in Intent /\ locals.intent.key = m
    BY <2>1 DEF IdleInv, Locals, SubmitPc, Intent
  <2>3. inv' = [inv EXCEPT ![p] = locals] /\ inv[p].pc = "idle"
        /\ UNCHANGED <<pubVars, now, posts, admitted, outputs, linkedAt>>
    BY <1>1 DEF SubmitStart
  <2> HIDE DEF locals
  <2>4. Shape(p)' /\ Ready(p)'
    BY <2>1, <2>2, <2>3, <1>0 DEF Shape, Ready, pubVars, PublishingPc, SubmitPc, ReconcilePc
  <2>5. QED
    BY <2>2, <2>3, <2>4, QuietStep DEF PublishingPc
<1>2. CASE SubmitReadIntent(p)
  <2>1. CASE Exit(p)
    BY <2>1, <1>0, <1>2, EndStep DEF SubmitReadIntent, pubVars, PublishingPc
  <2>2. ASSUME NEW pc \in {"checkOrphan", "replay"}, Goto(p, pc) PROVE LInv'
    <3> DEFINE locals == [inv[p] EXCEPT !.pc = pc]
    <3>1. /\ locals \in Locals /\ locals.pc = pc /\ locals.marker = inv[p].marker
          /\ locals.intent = inv[p].intent
      BY <1>0 DEF Locals, SubmitPc
    <3>2. inv' = [inv EXCEPT ![p] = locals] /\ inv[p].pc = "readIntent"
          /\ UNCHANGED <<pubVars, now, posts, admitted, outputs, linkedAt>>
      BY <1>2, <2>2 DEF SubmitReadIntent, Goto
    <3> HIDE DEF locals
    <3>3. Shape(p)' /\ Ready(p)'
      BY <3>1, <3>2, <1>0 DEF Shape, Ready, pubVars, PublishingPc, SubmitPc, ReconcilePc
    <3>4. QED
      BY <3>1, <3>2, <3>3, QuietStep DEF PublishingPc
  <2>3. QED
    BY <1>2, <2>1, <2>2 DEF SubmitReadIntent
<1>3. CASE SubmitReplay(p)
  <2>1. ResultName(inv[p].marker) \in Name
        /\ entry[ResultName(inv[p].marker)] \in Receipt \cup {Absent}
    BY <1>0, <1>3, DistinctNames DEF SubmitReplay, Shape, SubmitPc, EntryKinds
  <2>2. Exit(p) /\ outputs' \subseteq [name : Name, receipt : Receipt]
    BY <1>0, <1>3, <2>1 DEF SubmitReplay, PublishAndExit
  <2>3. QED
    BY <1>0, <1>3, <2>2, EndStep DEF SubmitReplay, pubVars, PublishingPc
<1>4. CASE SubmitStageIntent(p)
  <2>1. CASE Exit(p) /\ UNCHANGED pub
    BY <2>1, <1>0, <1>4, EndStep DEF SubmitStageIntent, PublishingPc
  <2>2. CASE Goto(p, "intent") /\ StageAs(p, IntentName(inv[p].marker), inv[p].intent)
    <3> DEFINE locals == [inv[p] EXCEPT !.pc = "intent"]
    <3>1. /\ locals \in Locals /\ locals.pc = "intent" /\ locals.marker = inv[p].marker
          /\ locals.intent = inv[p].intent
      BY <1>0 DEF Locals, SubmitPc
    <3>2. inv' = [inv EXCEPT ![p] = locals] /\ inv[p].pc = "checkOrphan"
          /\ UNCHANGED <<entry, durable, now, posts, admitted, outputs, linkedAt>>
      BY <1>4, <2>2 DEF SubmitStageIntent, Goto
    <3> HIDE DEF locals
    <3>3. inv[p].marker \in Marker /\ inv[p].intent \in Intent
      BY <3>2, <1>0 DEF Shape, SubmitPc
    <3>4. Shape(p)'
      BY <2>2, <3>1, <3>2, <1>0 DEF Shape, StageAs, PublishingPc, SubmitPc, ReconcilePc
    <3>5. QED
      BY <2>2, <3>1, <3>2, <3>3, <3>4, StageStep, DistinctNames, LedgerRecords DEF PublishingPc
  <2>3. QED
    BY <1>4, <2>1, <2>2 DEF SubmitStageIntent
<1>5. QED
  BY <1>1, <1>2, <1>3, <1>4

(* The outcome of the intent: only a durable one lets the submit go on.    *)
LEMMA IntentOutcomeLInv ==
  ASSUME LInv, NEW p \in Proc, SubmitIntentOutcome(p) PROVE LInv'
<1>0. /\ inv \in [Proc -> Locals] /\ pub \in [Proc -> Publication]
      /\ PubInv /\ Shape(p) /\ Ready(p)
      /\ outputs \subseteq [name : Name, receipt : Receipt] /\ admitted \in Nat
  BY DEF LInv, TypeOK, Locals, PubInv, PubTypeOK
<1>1. CASE Exit(p)
  BY <1>1, <1>0, EndStep DEF SubmitIntentOutcome
<1>2. CASE pub[p].step = "CommittedDurable" /\ Goto(p, "recheck")
  <2>1. /\ inv' \in [Proc -> Locals] /\ inv'[p].pc = "recheck"
        /\ inv'[p].marker = inv[p].marker /\ inv'[p].intent = inv[p].intent
        /\ \A q \in Proc \ {p} : inv'[q] = inv[q]
    BY <1>0, <1>2 DEF Goto, Locals, SubmitPc
  <2>2. PubInv' /\ pub'[p].step = "idle" /\ \A q \in Proc \ {p} : pub'[q] = pub[q]
    BY <1>0, TakeInv DEF SubmitIntentOutcome, Take, IdlePub
  <2>3. /\ inv[p].pc = "intent"
        /\ UNCHANGED <<entry, durable, now, posts, admitted, outputs, linkedAt>>
    BY DEF SubmitIntentOutcome
  <2>4. TypeOK'
    BY <2>1, <2>2, <2>3 DEF LInv, TypeOK, PubInv, Locals
  <2>5. Shape(p)'
    BY <2>1, <2>2, <2>3, <1>0 DEF Shape, PublishingPc, SubmitPc, ReconcilePc
  <2>6. Ready(p)'
    <3>1. MarkerName \in durable
      BY <1>0, <1>2, <2>3 DEF Ready
    <3>2. IntentName(inv[p].marker) \in durable
      BY <1>0, <1>2, <2>3 DEF PubInv, OutcomeIsTruthful, Shape
    <3>3. QED
      BY <3>1, <3>2, <2>1, <2>3 DEF Ready
  <2>7. \A k \in Marker : Holds(p, k)' => Holds(p, k)
    BY <1>2, <2>1, <2>3 DEF Holds, Installed
  <2>8. QED
    BY <2>1, <2>2, <2>3, <2>4, <2>5, <2>6, <2>7, LocalStep
<1>3. QED
  BY <1>1, <1>2 DEF SubmitIntentOutcome

(* The guard before the network.                                           *)
LEMMA RecheckLInv ==
  ASSUME LInv, NEW p \in Proc, SubmitRecheck(p) \/ SubmitRecheckFails(p) PROVE LInv'
<1>0. /\ inv \in [Proc -> Locals] /\ Shape(p) /\ Ready(p)
      /\ outputs \subseteq [name : Name, receipt : Receipt] /\ admitted \in Nat
  BY DEF LInv, TypeOK, Locals
<1>1. CASE SubmitRecheckFails(p)
  BY <1>0, <1>1, EndStep DEF SubmitRecheckFails, Bail, pubVars, PublishingPc
<1>2. CASE SubmitRecheck(p)
  <2> DEFINE locals == [inv[p] EXCEPT !.pc = "post"]
  <2>1. /\ locals \in Locals /\ locals.pc = "post" /\ locals.marker = inv[p].marker
        /\ locals.intent = inv[p].intent
    BY <1>0 DEF Locals, SubmitPc
  <2>2. inv' = [inv EXCEPT ![p] = locals] /\ inv[p].pc = "recheck"
        /\ UNCHANGED <<pubVars, now, posts, admitted, outputs, linkedAt>>
    BY <1>2 DEF SubmitRecheck, Goto
  <2> HIDE DEF locals
  <2>3. Shape(p)' /\ Ready(p)'
    BY <2>1, <2>2, <1>0 DEF Shape, Ready, pubVars, PublishingPc, SubmitPc, ReconcilePc
  <2>4. QED
    BY <2>1, <2>2, <2>3, QuietStep DEF PublishingPc
<1>3. QED
  BY <1>1, <1>2

(* The POST: its holder was the only one and holds nothing afterwards.     *)
LEMMA PostLInv ==
  ASSUME LInv, NEW p \in Proc, SubmitPost(p) PROVE LInv'
<1>0. /\ inv \in [Proc -> Locals] /\ PubInv /\ Shape(p) /\ Ready(p) /\ now \in 0..MaxTime
      /\ posts \in [Marker -> Nat]
  BY DEF LInv, TypeOK, Locals
<1>1. /\ inv[p].pc = "post" /\ pubVars' = pubVars
      /\ UNCHANGED <<now, admitted, outputs, linkedAt>>
      /\ posts' = [posts EXCEPT ![inv[p].marker] = @ + 1]
  BY DEF SubmitPost
<1>2. PICK m \in Marker : m = inv[p].marker /\ entry[MarkerName] = m
  BY <1>0, <1>1 DEF Shape, SubmitPc
<1>3. /\ inv' \in [Proc -> Locals] /\ inv'[p].pc = "await" /\ inv'[p].marker = m
      /\ inv'[p].intent = inv[p].intent /\ inv'[p].receipt \in Receipt
      /\ \A q \in Proc \ {p} : inv'[q] = inv[q]
  <2>1. PICK r \in Receipt : inv' = [inv EXCEPT ![p].pc = "await", ![p].receipt = r]
    <3>1. [intent |-> inv[p].intent, id |-> Absent, status |-> "unknown", at |-> now] \in Receipt
      BY <1>0, <1>1 DEF Shape, SubmitPc, Receipt
    <3>2. QED
      BY <3>1 DEF SubmitPost
  <2>2. inv[p] \in Locals /\ inv'[p] = [inv[p] EXCEPT !.pc = "await", !.receipt = r]
    BY <1>0, <2>1
  <2>3. inv'[p] \in Locals
    BY <2>2 DEF Locals, SubmitPc
  <2>4. inv'[p].pc = "await" /\ inv'[p].marker = m /\ inv'[p].intent = inv[p].intent
        /\ inv'[p].receipt = r
    BY <1>2, <2>2 DEF Locals
  <2>5. QED
    BY <1>0, <2>1, <2>3, <2>4
<1>4. PubInv' /\ entry' = entry /\ durable' = durable /\ pub' = pub
  BY <1>0, <1>1 DEF pubVars, PubInv, PubTypeOK, BusyHasRecord, InstalledIsVisible,
                    DurableIsVisible, OneWinner, OutcomeIsTruthful
<1>5. posts[m] = 0 /\ Holds(p, m)
  BY <1>1, <1>2 DEF LInv, Spent, Holds
<1>6. posts' \in [Marker -> Nat] /\ \A k \in Marker : posts'[k] = IF k = m THEN 1 ELSE posts[k]
  BY <1>0, <1>1, <1>2, <1>5
<1>7. TypeOK'
  BY <1>1, <1>3, <1>4, <1>6 DEF LInv, TypeOK, PubInv, Locals
<1>8. EntryKinds'
  BY <1>4 DEF LInv, EntryKinds
<1>9. ASSUME NEW q \in Proc PROVE Shape(q)' /\ Ready(q)'
  <2>1. CASE q = p
    BY <2>1, <1>0, <1>1, <1>2, <1>3, <1>4 DEF Shape, Ready, PublishingPc, SubmitPc, ReconcilePc
  <2>2. CASE q # p
    BY <2>2, <1>3, <1>4 DEF LInv, Shape, Ready
  <2>3. QED
    BY <2>1, <2>2
<1>10. ASSUME NEW q \in Proc, NEW k \in Marker, Holds(q, k)' PROVE q # p /\ Holds(q, k)
  BY <1>3, <1>4, <1>10 DEF Holds
<1>11. OneHolder'
  BY <1>10 DEF LInv, OneHolder
<1>12. Spent'
  <2>1. {MarkerName, IntentName(m)} \subseteq durable
    BY <1>0, <1>1, <1>2 DEF Ready
  <2>2. \A q \in Proc : ~Holds(q, m)'
    BY <1>2, <1>5, <1>10 DEF LInv, OneHolder
  <2>3. ASSUME NEW k \in Marker, posts'[k] = 1
        PROVE  /\ {MarkerName, IntentName(k)} \subseteq durable
               /\ entry[MarkerName] = k
               /\ \A q \in Proc : ~Holds(q, k)'
    <3>1. CASE k = m
      BY <3>1, <1>2, <2>1, <2>2
    <3>2. CASE k # m
      BY <3>2, <2>3, <1>6, <1>10 DEF LInv, Spent
    <3>3. QED
      BY <3>1, <3>2
  <2>4. \A k \in Marker : posts'[k] \in {0, 1}
    BY <1>6 DEF LInv, Spent
  <2>5. QED
    BY <1>4, <2>3, <2>4 DEF Spent
<1>13. QED
  BY <1>4, <1>7, <1>8, <1>9, <1>11, <1>12 DEF LInv

(* The answer to the POST, and the outcome of its record.                  *)
LEMMA SubmitEndLInv ==
  ASSUME LInv, NEW p \in Proc,
         (\E s \in Status : SubmitResponse(p, s)) \/ SubmitResultOutcome(p)
  PROVE  LInv'
<1>0. /\ inv \in [Proc -> Locals] /\ pub \in [Proc -> Publication] /\ Shape(p)
      /\ PubInv /\ BusyHasRecord
      /\ outputs \subseteq [name : Name, receipt : Receipt] /\ admitted \in Nat
  BY DEF LInv, TypeOK, Locals, PubInv, PubTypeOK
<1>1. ASSUME NEW s \in Status, SubmitResponse(p, s) PROVE LInv'
  <2> DEFINE answer == [inv[p].receipt EXCEPT !.status = s]
             locals == [inv[p] EXCEPT !.pc = "result"]
  <2>1. inv[p].pc = "await" /\ inv[p].receipt \in Receipt /\ inv[p].marker \in Marker
    BY <1>0, <1>1 DEF SubmitResponse, Shape, SubmitPc
  <2>2. answer \in Receipt
    BY <2>1 DEF Receipt
  <2>3. /\ inv' = [inv EXCEPT ![p] = locals] /\ StageAs(p, ResultName(inv[p].marker), answer)
        /\ UNCHANGED <<entry, durable, now, posts, admitted, outputs, linkedAt>>
    BY <1>1 DEF SubmitResponse, Goto
  <2> HIDE DEF answer
  <2>4. /\ locals \in Locals /\ locals.pc = "result" /\ locals.marker = inv[p].marker
        /\ locals.intent = inv[p].intent
    BY <1>0 DEF Locals, SubmitPc
  <2> HIDE DEF locals
  <2>5. Shape(p)'
    BY <1>0, <2>1, <2>2, <2>3, <2>4 DEF Shape, StageAs, PublishingPc, SubmitPc, ReconcilePc
  <2>6. QED
    BY <2>1, <2>2, <2>3, <2>4, <2>5, StageStep, DistinctNames, LedgerRecords DEF PublishingPc
<1>2. CASE SubmitResultOutcome(p)
  <2>1. pub[p].name \in Name /\ pub[p].bytes \in Receipt
    BY <1>0, <1>2 DEF SubmitResultOutcome, Shape, BusyHasRecord, Outcome
  <2>2. Exit(p) /\ outputs' \subseteq [name : Name, receipt : Receipt]
    BY <1>0, <1>2, <2>1 DEF SubmitResultOutcome, PublishAndExit
  <2>3. QED
    BY <1>0, <1>2, <2>2, EndStep DEF SubmitResultOutcome
<1>3. QED
  BY <1>1, <1>2
-----------------------------------------------------------------------------
(* Reconcile, up to its GET.                                               *)
LEMMA ReconcileReadLInv ==
  ASSUME LInv, NEW p \in Proc,
         \/ \E k \in Marker, r \in ReconId : ReconcileStart(p, k, r)
         \/ ReconcileReadResult(p) \/ ReconcileReadObservation(p) \/ ReconcileGuardFails(p)
  PROVE  LInv'
<1>0. /\ inv \in [Proc -> Locals] /\ pub \in [Proc -> Publication] /\ Shape(p) /\ EntryKinds
      /\ outputs \subseteq [name : Name, receipt : Receipt] /\ admitted \in Nat
  BY DEF LInv, TypeOK, Locals, PubInv, PubTypeOK
<1>1. ASSUME NEW k \in Marker, NEW r \in ReconId, ReconcileStart(p, k, r) PROVE LInv'
  <2> DEFINE locals == [IdleInv EXCEPT !.pc = "readResult", !.id = r,
                                       !.intent = entry[IntentName(k)]]
  <2>1. entry[IntentName(k)] \in Intent
    BY <1>0, <1>1 DEF ReconcileStart, EntryKinds
  <2>2. /\ locals \in Locals /\ locals.pc = "readResult" /\ locals.id = r
        /\ locals.intent \in Intent
    BY <2>1 DEF IdleInv, Locals, ReconcilePc
  <2>3. inv' = [inv EXCEPT ![p] = locals] /\ inv[p].pc = "idle"
        /\ UNCHANGED <<pubVars, now, posts, admitted, outputs, linkedAt>>
    BY <1>1 DEF ReconcileStart
  <2> HIDE DEF locals
  <2>4. Shape(p)' /\ Ready(p)'
    BY <2>2, <2>3, <1>0 DEF Shape, Ready, pubVars, PublishingPc, SubmitPc, ReconcilePc
  <2>5. QED
    BY <2>2, <2>3, <2>4, QuietStep DEF PublishingPc
<1>2. ASSUME NEW pc \in {"readObservation", "get"}, Goto(p, pc),
             inv[p].pc \in {"readResult", "readObservation"},
             UNCHANGED <<pubVars, now, posts, admitted, outputs, linkedAt>>
      PROVE  LInv'
  <2> DEFINE locals == [inv[p] EXCEPT !.pc = pc]
  <2>1. /\ locals \in Locals /\ locals.pc = pc /\ locals.id = inv[p].id
        /\ locals.intent = inv[p].intent
    BY <1>0 DEF Locals, ReconcilePc
  <2>2. inv' = [inv EXCEPT ![p] = locals]
    BY <1>2 DEF Goto
  <2> HIDE DEF locals
  <2>3. Shape(p)' /\ Ready(p)'
    BY <1>2, <2>1, <2>2, <1>0 DEF Shape, Ready, pubVars, PublishingPc, SubmitPc, ReconcilePc
  <2>4. QED
    BY <1>2, <2>1, <2>2, <2>3, QuietStep DEF PublishingPc
<1>3. ASSUME Exit(p), UNCHANGED <<pubVars, now, posts, admitted, linkedAt>>,
             inv[p].pc \in {"readResult", "readObservation", "get"},
             outputs' \subseteq [name : Name, receipt : Receipt]
      PROVE  LInv'
  BY <1>0, <1>3, EndStep DEF pubVars, PublishingPc
<1>4. CASE ReconcileReadResult(p)
  <2> DEFINE n == ResultName(inv[p].intent.key)
  <2>1. n \in Name /\ entry[n] \in Receipt \cup {Absent}
    BY <1>0, <1>4, DistinctNames DEF ReconcileReadResult, Shape, ReconcilePc, EntryKinds, Intent
  <2>2. \/ Goto(p, "readObservation") /\ UNCHANGED outputs
        \/ Exit(p) /\ outputs' \subseteq [name : Name, receipt : Receipt]
    BY <1>0, <1>4, <2>1 DEF ReconcileReadResult, PublishAndExit
  <2>3. QED
    BY <1>4, <2>2, <1>2, <1>3 DEF ReconcileReadResult
<1>5. CASE ReconcileReadObservation(p)
  <2> DEFINE n == ReconciliationName(inv[p].intent.key, inv[p].id)
  <2>1. n \in Name /\ entry[n] \in Receipt \cup {Absent}
    BY <1>0, <1>5, DistinctNames
       DEF ReconcileReadObservation, Shape, ReconcilePc, EntryKinds, Intent
  <2>2. \/ Goto(p, "get") /\ UNCHANGED outputs
        \/ Exit(p) /\ outputs' \subseteq [name : Name, receipt : Receipt]
    BY <1>0, <1>5, <2>1 DEF ReconcileReadObservation, PublishAndExit
  <2>3. QED
    BY <1>5, <2>2, <1>2, <1>3 DEF ReconcileReadObservation
<1>6. CASE ReconcileGuardFails(p)
  BY <1>6, <1>0, <1>3 DEF ReconcileGuardFails, Bail
<1>7. QED
  BY <1>1, <1>4, <1>5, <1>6

(* The GET, its answer, and the outcome of its record.                     *)
LEMMA ReconcileEndLInv ==
  ASSUME LInv, NEW p \in Proc,
         \/ ReconcileGet(p)
         \/ \E s \in Status : ReconcileResponse(p, s)
         \/ ReconcileOutcome(p)
  PROVE  LInv'
<1>0. /\ inv \in [Proc -> Locals] /\ pub \in [Proc -> Publication] /\ Shape(p)
      /\ PubInv /\ BusyHasRecord /\ now \in 0..MaxTime
      /\ outputs \subseteq [name : Name, receipt : Receipt] /\ admitted \in Nat
  BY DEF LInv, TypeOK, Locals, PubInv, PubTypeOK
<1>1. CASE ReconcileGet(p)
  <2>1. inv[p].pc = "get" /\ inv[p].intent \in Intent /\ inv[p].id \in ReconId
        /\ UNCHANGED <<pubVars, now, posts, admitted, outputs, linkedAt>>
    BY <1>0, <1>1 DEF ReconcileGet, Shape, ReconcilePc
  <2>2. PICK r \in Receipt : inv' = [inv EXCEPT ![p].pc = "awaitGet", ![p].receipt = r]
    <3>1. [intent |-> inv[p].intent, id |-> inv[p].id, status |-> "unknown", at |-> now]
            \in Receipt
      BY <1>0, <2>1 DEF Receipt
    <3>2. QED
      BY <1>1, <3>1 DEF ReconcileGet
  <2> DEFINE locals == [inv[p] EXCEPT !.pc = "awaitGet", !.receipt = r]
  <2>3. locals \in Locals
    <3>1. inv[p] \in Locals
      BY <1>0
    <3>2. QED
      BY <3>1 DEF Locals, ReconcilePc
  <2>4. locals.pc = "awaitGet" /\ locals.id = inv[p].id /\ locals.intent = inv[p].intent
        /\ locals.receipt = r
    BY <1>0 DEF Locals
  <2>5. inv' = [inv EXCEPT ![p] = locals]
    BY <2>2
  <2> HIDE DEF locals
  <2>6. Shape(p)' /\ Ready(p)'
    BY <2>1, <2>3, <2>4, <2>5, <1>0
       DEF Shape, Ready, pubVars, PublishingPc, SubmitPc, ReconcilePc
  <2>7. QED
    BY <2>1, <2>3, <2>4, <2>5, <2>6, QuietStep DEF PublishingPc
<1>2. ASSUME NEW s \in Status, ReconcileResponse(p, s) PROVE LInv'
  <2> DEFINE n == ReconciliationName(inv[p].intent.key, inv[p].id)
             answer == [inv[p].receipt EXCEPT !.status = s]
             locals == [inv[p] EXCEPT !.pc = "observation"]
  <2>1. /\ inv[p].pc = "awaitGet" /\ inv[p].receipt \in Receipt
        /\ inv[p].intent \in Intent /\ inv[p].id \in ReconId
    BY <1>0, <1>2 DEF ReconcileResponse, Shape, ReconcilePc
  <2>2. answer \in Receipt /\ n \in Name
    BY <2>1, DistinctNames DEF Receipt, Intent
  <2>3. /\ inv' = [inv EXCEPT ![p] = locals] /\ StageAs(p, n, answer)
        /\ UNCHANGED <<entry, durable, now, posts, admitted, outputs, linkedAt>>
    BY <1>2 DEF ReconcileResponse, Goto
  <2> HIDE DEF answer
  <2>4. /\ locals \in Locals /\ locals.pc = "observation" /\ locals.id = inv[p].id
        /\ locals.intent = inv[p].intent
    BY <1>0 DEF Locals, ReconcilePc
  <2> HIDE DEF locals
  <2>5. Shape(p)'
    BY <1>0, <2>1, <2>2, <2>3, <2>4 DEF Shape, StageAs, PublishingPc, SubmitPc, ReconcilePc
  <2>6. QED
    BY <2>1, <2>2, <2>3, <2>4, <2>5, StageStep, LedgerRecords DEF PublishingPc
<1>3. CASE ReconcileOutcome(p)
  <2>1. pub[p].name \in Name /\ pub[p].bytes \in Receipt
    BY <1>0, <1>3 DEF ReconcileOutcome, Shape, BusyHasRecord, Outcome
  <2>2. Exit(p) /\ outputs' \subseteq [name : Name, receipt : Receipt]
    BY <1>0, <1>3, <2>1 DEF ReconcileOutcome, PublishAndExit
  <2>3. QED
    BY <1>0, <1>3, <2>2, EndStep DEF ReconcileOutcome
<1>4. QED
  BY <1>1, <1>2, <1>3
-----------------------------------------------------------------------------
(* A loss of power: no command survives it, every durable record does.     *)
LEMMA PowerLInv ==
  ASSUME LInv, PowerFails PROVE LInv'
<1>0. PubInv /\ EntryKinds /\ Spent
  BY DEF LInv
<1>1. PICK kept \in SUBSET Visible : durable \subseteq kept /\ PowerLossTo(kept)
  <2>1. PICK lost \in SUBSET (Visible \ durable) : PowerLossTo(Visible \ lost)
    BY DEF PowerFails, PowerLoss
  <2>2. durable \subseteq Visible \ lost
    BY <1>0 DEF PubInv, PubTypeOK, DurableIsVisible, Visible
  <2>3. QED
    BY <2>1, <2>2
<1>2. PubInv'
  BY <1>0, <1>1, PowerLossInv
<1>3. /\ inv' = [p \in Proc |-> IdleInv] /\ UNCHANGED <<now, posts, admitted, outputs, linkedAt>>
      /\ pub' = [p \in Proc |-> IdlePub] /\ durable' = kept
      /\ \A n \in Name : entry'[n] = IF n \in kept THEN entry[n] ELSE Absent
  BY <1>1 DEF PowerFails, PowerLossTo
<1>4. \A p \in Proc : inv'[p].pc = "idle" /\ pub'[p].step = "idle"
  BY <1>3 DEF IdleInv, IdlePub
<1>5. TypeOK'
  BY <1>2, <1>3 DEF LInv, TypeOK, PubInv, IdleInv
<1>6. EntryKinds'
  BY <1>0, <1>3, DistinctNames DEF EntryKinds
<1>7. \A p \in Proc : Shape(p)' /\ Ready(p)' /\ \A k \in Marker : ~Holds(p, k)'
  BY <1>4 DEF Shape, Ready, Holds, PublishingPc, SubmitPc, ReconcilePc
<1>8. OneHolder'
  BY <1>7 DEF OneHolder
<1>9. Spent'
  BY <1>0, <1>1, <1>3, <1>7, DistinctNames DEF Spent
<1>10. QED
  BY <1>2, <1>5, <1>6, <1>7, <1>8, <1>9 DEF LInv

(* The clock, and a step that changes nothing at all.                      *)
LEMMA ClockLInv ==
  ASSUME LInv, UNCHANGED <<pubVars, inv, posts, admitted, outputs, linkedAt>>,
         now' \in 0..MaxTime
  PROVE  LInv'
<1>1. PubInv'
  BY DEF LInv, pubVars, PubInv, PubTypeOK, BusyHasRecord, InstalledIsVisible, DurableIsVisible,
         OneWinner, OutcomeIsTruthful
<1>2. TypeOK'
  BY <1>1 DEF LInv, TypeOK, PubInv
<1>3. EntryKinds'
  BY DEF LInv, EntryKinds, pubVars
<1>4. \A p \in Proc : Shape(p)' /\ Ready(p)'
  BY DEF LInv, Shape, Ready, pubVars
<1>5. OneHolder' /\ Spent'
  BY DEF LInv, OneHolder, Spent, Holds, pubVars
<1>6. QED
  BY <1>1, <1>2, <1>3, <1>4, <1>5 DEF LInv

(* The invariant is inductive: one step per action of Next.                *)
LEMMA LInvNext == LInv /\ [Next]_vars => LInv'
<1> SUFFICES ASSUME LInv, [Next]_vars PROVE LInv'
  OBVIOUS
<1>0. now \in 0..MaxTime /\ admitted \in Nat /\ outputs \subseteq [name : Name, receipt : Receipt]
  BY DEF LInv, TypeOK
<1>1. ASSUME NEW p \in Proc, Start(p) PROVE LInv'
  BY <1>1, ReserveLInv, SubmitPrepareLInv, ReconcileReadLInv DEF Start
<1>2. ASSUME NEW p \in Proc, Continue(p) PROVE LInv'
  <2>1. CASE LedgerPublicationStep(p)
    BY <2>1, PublicationLInv
  <2>2. CASE ReserveFinish(p)
    BY <2>2, ReserveLInv
  <2>3. CASE SubmitReadIntent(p) \/ SubmitReplay(p) \/ SubmitStageIntent(p)
    BY <2>3, SubmitPrepareLInv
  <2>4. CASE SubmitIntentOutcome(p)
    BY <2>4, IntentOutcomeLInv
  <2>5. CASE SubmitRecheck(p) \/ SubmitRecheckFails(p)
    BY <2>5, RecheckLInv
  <2>6. CASE SubmitPost(p)
    BY <2>6, PostLInv
  <2>7. CASE (\E s \in Status : SubmitResponse(p, s)) \/ SubmitResultOutcome(p)
    BY <2>7, SubmitEndLInv
  <2>8. CASE ReconcileReadResult(p) \/ ReconcileReadObservation(p) \/ ReconcileGuardFails(p)
    BY <2>8, ReconcileReadLInv
  <2>9. CASE ReconcileGet(p) \/ (\E s \in Status : ReconcileResponse(p, s))
               \/ ReconcileOutcome(p)
    BY <2>9, ReconcileEndLInv
  <2>10. QED
    BY <1>2, <2>1, <2>2, <2>3, <2>4, <2>5, <2>6, <2>7, <2>8, <2>9 DEF Continue
<1>3. ASSUME NEW p \in Proc, ProcessKilled(p) PROVE LInv'
  BY <1>0, <1>3, EndStep DEF ProcessKilled
<1>4. CASE Tick
  BY <1>0, <1>4, ClockLInv DEF Tick
<1>5. CASE PowerFails
  BY <1>5, PowerLInv
<1>6. CASE UNCHANGED vars
  BY <1>0, <1>6, ClockLInv DEF vars, ledgerVars
<1>7. QED
  BY <1>1, <1>2, <1>3, <1>4, <1>5, <1>6 DEF Next, PoweredNext

(* LInv always holds.                                                      *)
THEOREM LInvariance == Spec => []LInv
BY LInvInit, LInvNext, PTL DEF Spec

(* Type correctness of the ledger and of the commands.                     *)
THEOREM TypeCorrect == Spec => []TypeOK
<1>1. LInv => TypeOK
  BY DEF LInv
<1>2. QED
  BY <1>1, LInvariance, PTL

(* submit sends at most one package for a challenge, once, however many     *)
(* submits and reserves run and wherever they are killed.                   *)
THEOREM AtMostOnePackage == Spec => []AtMostOnePost
<1>1. LInv => AtMostOnePost
  BY DEF LInv, Spent, AtMostOnePost
<1>2. QED
  BY <1>1, LInvariance, PTL

(* The marker and the intent of a package that left are on disk for good.   *)
THEOREM PostsAreOnDisk == Spec => []PostedIsOnDisk
<1>1. LInv => PostedIsOnDisk
  <2> SUFFICES ASSUME LInv, NEW k \in Marker, posts[k] > 0
               PROVE  /\ {MarkerName, IntentName(k)} \subseteq durable
                      /\ entry[MarkerName] = k
                      /\ entry[IntentName(k)] \in Intent
                      /\ entry[IntentName(k)].key = k
    BY DEF PostedIsOnDisk
  <2>1. {MarkerName, IntentName(k)} \subseteq durable /\ entry[MarkerName] = k
    BY DEF LInv, Spent
  <2>2. entry[IntentName(k)] # Absent
    BY <2>1 DEF LInv, PubInv, DurableIsVisible
  <2>3. QED
    BY <2>1, <2>2 DEF LInv, EntryKinds
<1>2. QED
  BY <1>1, LInvariance, PTL
-----------------------------------------------------------------------------
(* Only publications, POSTs and losses of power show at the level of       *)
(* AtMostOnceRelease.                                                      *)
LEMMA OtherStepsAreHidden ==
  ASSUME Next PROVE \/ \E p \in Proc : LedgerPublicationStep(p)
                    \/ \E p \in Proc : SubmitPost(p)
                    \/ PowerFails
                    \/ entry' = entry /\ posts' = posts
<1>1. ASSUME NEW p \in Proc, Start(p) PROVE entry' = entry /\ posts' = posts
  BY <1>1 DEF Start, ReserveStart, SubmitStart, ReconcileStart, pubVars
<1>2. ASSUME NEW p \in Proc, Continue(p), ~LedgerPublicationStep(p), ~SubmitPost(p)
      PROVE  entry' = entry /\ posts' = posts
  BY <1>2 DEF Continue, ReserveFinish, SubmitReadIntent, SubmitReplay, SubmitStageIntent,
              SubmitIntentOutcome, SubmitRecheck, SubmitRecheckFails, SubmitResponse,
              SubmitResultOutcome, ReconcileReadResult, ReconcileReadObservation, ReconcileGet,
              ReconcileGuardFails, ReconcileResponse, ReconcileOutcome, Bail, pubVars
<1>3. ASSUME NEW p \in Proc, ProcessKilled(p) PROVE entry' = entry /\ posts' = posts
  BY <1>3 DEF ProcessKilled
<1>4. CASE Tick
  BY <1>4 DEF Tick, pubVars
<1>5. QED
  BY <1>1, <1>2, <1>3, <1>4 DEF Next, PoweredNext

(* Every step of the ledger is a step of AtMostOnceRelease, or changes      *)
(* neither the holder of the challenge nor what was sent.                   *)
LEMMA ReleaseStep ==
  LInv /\ LInv' /\ [Next]_vars
    => [Release!Reserve \/ Release!Forget \/ Release!Send]_<<entry[MarkerName], posts>>
<1> SUFFICES ASSUME LInv, LInv', [Next]_vars,
                    ~(entry'[MarkerName] = entry[MarkerName] /\ posts' = posts)
             PROVE  Release!Reserve \/ Release!Forget \/ Release!Send
  OBVIOUS
<1>0. /\ entry \in [Name -> Bytes \cup {Absent}] /\ posts \in [Marker -> Nat]
      /\ PubInv /\ Spent /\ \A n \in durable : entry[n] # Absent
      /\ entry'[MarkerName] \in Marker \cup {Absent}
  BY DEF LInv, PubInv, PubTypeOK, TypeOK, DurableIsVisible, EntryKinds
(* While a package has left, the marker is on disk for good.               *)
<1>1. MarkerName \notin durable => Release!NothingSent
  BY <1>0 DEF Spent, Release!NothingSent
<1>2. ASSUME NEW p \in Proc, LedgerPublicationStep(p) PROVE Release!Reserve
  <2>1. PICK ok \in BOOLEAN : PublicationStep(p, ok)
    BY <1>2 DEF LedgerPublicationStep, CommitGuard
  <2>2. \/ entry' = entry
        \/ /\ entry[pub[p].name] = Absent
           /\ entry' = [entry EXCEPT ![pub[p].name] = pub[p].bytes]
    BY <1>0, <2>1, PublicationStepEffect
  <2>3. posts' = posts
    BY <1>2 DEF LedgerPublicationStep
  <2>4. entry[MarkerName] = Absent /\ entry'[MarkerName] # Absent
    BY <1>0, <2>2, <2>3, DistinctNames
  <2>5. QED
    BY <1>0, <1>1, <2>3, <2>4 DEF Release!Reserve
<1>3. ASSUME NEW p \in Proc, SubmitPost(p) PROVE Release!Send
  <2>1. PICK m \in Marker : m = inv[p].marker /\ entry[MarkerName] = m /\ inv[p].pc = "post"
    BY <1>3 DEF SubmitPost, LInv, Shape, SubmitPc
  <2>2. posts[m] = 0
    BY <1>0, <2>1 DEF Spent, Holds
  <2>3. Release!NothingSent
    BY <1>0, <2>1, <2>2 DEF Spent, Release!NothingSent
  <2>4. posts' = [posts EXCEPT ![m] = 1] /\ entry' = entry
    BY <1>0, <1>3, <2>1, <2>2 DEF SubmitPost, pubVars
  <2>5. QED
    BY <2>1, <2>3, <2>4 DEF Release!Send
<1>4. CASE PowerFails
  <2>1. PICK lost \in SUBSET (Visible \ durable) : PowerLossTo(Visible \ lost)
    BY <1>4 DEF PowerFails, PowerLoss
  <2>2. posts' = posts
    BY <1>4 DEF PowerFails
  <2>3. entry'[MarkerName] = Absent /\ MarkerName \notin durable
    BY <1>0, <2>1, <2>2, DistinctNames DEF PowerLossTo, Visible
  <2>4. QED
    BY <1>1, <2>2, <2>3 DEF Release!Forget
<1>5. CASE UNCHANGED vars
  BY <1>5 DEF vars, pubVars, ledgerVars
<1>6. QED
  BY <1>2, <1>3, <1>4, <1>5, OtherStepsAreHidden

(* The ledger of a challenge implements at-most-once release.               *)
THEOREM LedgerImplementsRelease == Spec => ImplementsAtMostOnceRelease
<1>1. Init => Release!Init
  BY DistinctNames DEF Init, PubInit, Release!Init
<1>2. QED
  BY <1>1, LInvariance, ReleaseStep, PTL DEF Spec, ImplementsAtMostOnceRelease, Release!Spec
-----------------------------------------------------------------------------
(* The windows.  A guard samples the clock before linkat and after it, so   *)
(* what it saw bounds the moment of the installation only because the clock *)
(* does not run backward: WInv carries the sample from the guard to the     *)
(* linkat, and from the linkat to the report or the POST.                   *)

(* Nothing was installed in the future.                                    *)
Dated == \A n \in Name : linkedAt[n] <= now

(* A reserve that passed the guard before linkat is not too early, and     *)
(* neither is the marker it installs.                                      *)
NotEarly ==
  /\ \A p \in Proc : inv[p].pc = "reserve" /\ pub[p].step = "installing" =>
       ValidFrom[inv[p].marker] <= now
  /\ entry[MarkerName] # Absent => ValidFrom[entry[MarkerName]] <= linkedAt[MarkerName]

(* The holder of the right to POST installed its intent after the marker,  *)
(* and before the windows closed if it passed the last guard.              *)
HolderInWindow ==
  \A p \in Proc, k \in Marker : Holds(p, k) =>
    /\ linkedAt[MarkerName] <= linkedAt[IntentName(k)]
    /\ inv[p].pc = "post" => linkedAt[IntentName(k)] <= ExpiresAt[k]

(* Once a reserve has reported success, none is on its way to another.     *)
NoSecondAdmission ==
  admitted > 0 => \A p \in Proc : ~(inv[p].pc = "reserve" /\ pub[p].step \in Installed)

WInv ==
  /\ Dated
  /\ NotEarly
  /\ HolderInWindow
  /\ NoSecondAdmission
  /\ AdmittedOnce
  /\ PostedInWindow

(* What is left alone by every step that neither publishes, reports,       *)
(* passes the last guard nor POSTs.                                        *)
LEMMA OtherStepsFrame ==
  ASSUME LInv, NEW p \in Proc,
         \/ Start(p)
         \/ /\ Continue(p)
            /\ ~LedgerPublicationStep(p) /\ ~ReserveFinish(p) /\ ~SubmitRecheck(p) /\ ~SubmitPost(p)
         \/ ProcessKilled(p)
  PROVE  /\ UNCHANGED <<entry, durable, now, posts, admitted, linkedAt>>
         /\ \A q \in Proc \ {p} : inv'[q] = inv[q] /\ pub'[q] = pub[q]
         /\ inv'[p].pc # "post"
         /\ inv'[p].pc = "recheck" =>
              /\ inv[p].pc = "intent" /\ pub[p].step = "CommittedDurable"
              /\ inv'[p].marker = inv[p].marker /\ inv'[p].intent = inv[p].intent
         /\ inv'[p].pc \in PublishingPc => pub'[p].step = "staged"
         /\ inv'[p].pc \in {"await", "result"} =>
              /\ inv[p].pc = "await" /\ inv'[p].pc = "result"
              /\ inv'[p].marker = inv[p].marker /\ inv'[p].intent = inv[p].intent
              /\ pub'[p].bytes.intent = inv[p].receipt.intent
<1> DEFINE Frame ==
      /\ UNCHANGED <<entry, durable, now, posts, admitted, linkedAt>>
      /\ \A q \in Proc \ {p} : inv'[q] = inv[q] /\ pub'[q] = pub[q]
      /\ inv'[p].pc # "post"
      /\ inv'[p].pc = "recheck" =>
           /\ inv[p].pc = "intent" /\ pub[p].step = "CommittedDurable"
           /\ inv'[p].marker = inv[p].marker /\ inv'[p].intent = inv[p].intent
      /\ inv'[p].pc \in PublishingPc => pub'[p].step = "staged"
      /\ inv'[p].pc \in {"await", "result"} =>
           /\ inv[p].pc = "await" /\ inv'[p].pc = "result"
           /\ inv'[p].marker = inv[p].marker /\ inv'[p].intent = inv[p].intent
           /\ pub'[p].bytes.intent = inv[p].receipt.intent
<1>0. inv \in [Proc -> Locals] /\ pub \in [Proc -> Publication]
  BY DEF LInv, TypeOK, Locals, PubInv, PubTypeOK
<1>1. ASSUME Exit(p), Take(p) \/ pub' = pub,
             UNCHANGED <<entry, durable, now, posts, admitted, linkedAt>>
      PROVE  Frame
  BY <1>0, <1>1 DEF Exit, Take, IdleInv, PublishingPc
<1>2. ASSUME NEW pc \in {"checkOrphan", "replay", "readObservation", "get"}, Goto(p, pc),
             pub' = pub, UNCHANGED <<entry, durable, now, posts, admitted, linkedAt>>
      PROVE  Frame
  BY <1>0, <1>2 DEF Goto, PublishingPc, Locals
<1>3. ASSUME NEW m \in Marker, ReserveStart(p, m) PROVE Frame
  BY <1>0, <1>3 DEF ReserveStart, StageAs, IdleInv
<1>4. ASSUME NEW x \in Nonce, SubmitStart(p, x) PROVE Frame
  BY <1>0, <1>4 DEF SubmitStart, IdleInv, PublishingPc, pubVars
<1>5. ASSUME NEW k \in Marker, NEW r \in ReconId, ReconcileStart(p, k, r) PROVE Frame
  BY <1>0, <1>5 DEF ReconcileStart, IdleInv, PublishingPc, pubVars
<1>6. CASE SubmitReadIntent(p)
  BY <1>6, <1>1, <1>2 DEF SubmitReadIntent, pubVars
<1>7. CASE SubmitReplay(p)
  BY <1>7, <1>1 DEF SubmitReplay, PublishAndExit, pubVars
<1>8. CASE SubmitStageIntent(p)
  <2>1. CASE Exit(p) /\ UNCHANGED pub
    BY <1>8, <2>1, <1>1 DEF SubmitStageIntent
  <2>2. CASE Goto(p, "intent") /\ StageAs(p, IntentName(inv[p].marker), inv[p].intent)
    BY <1>0, <1>8, <2>2 DEF SubmitStageIntent, Goto, StageAs, Locals
  <2>3. QED
    BY <1>8, <2>1, <2>2 DEF SubmitStageIntent
<1>9. CASE SubmitIntentOutcome(p)
  <2>1. CASE Exit(p)
    BY <1>9, <2>1, <1>1 DEF SubmitIntentOutcome
  <2>2. CASE pub[p].step = "CommittedDurable" /\ Goto(p, "recheck")
    BY <1>0, <1>9, <2>2
       DEF SubmitIntentOutcome, Goto, Take, Installed, PublishingPc, Locals
  <2>3. QED
    BY <1>9, <2>1, <2>2 DEF SubmitIntentOutcome
<1>10. CASE SubmitRecheckFails(p) \/ ReconcileGuardFails(p)
  BY <1>10, <1>1 DEF SubmitRecheckFails, ReconcileGuardFails, Bail, pubVars
<1>11. ASSUME NEW s \in Status, SubmitResponse(p, s) PROVE Frame
  <2>1. inv[p].receipt \in Receipt
    BY <1>11 DEF SubmitResponse, LInv, Shape
  <2>2. [inv[p].receipt EXCEPT !.status = s].intent = inv[p].receipt.intent
    BY <2>1 DEF Receipt
  <2>3. QED
    BY <1>0, <1>11, <2>2 DEF SubmitResponse, Goto, StageAs, Locals
<1>12. CASE SubmitResultOutcome(p) \/ ReconcileOutcome(p)
  BY <1>12, <1>1 DEF SubmitResultOutcome, ReconcileOutcome, PublishAndExit
<1>13. CASE ReconcileReadResult(p) \/ ReconcileReadObservation(p)
  BY <1>13, <1>1, <1>2
     DEF ReconcileReadResult, ReconcileReadObservation, PublishAndExit, pubVars
<1>14. CASE ReconcileGet(p)
  BY <1>0, <1>14 DEF ReconcileGet, PublishingPc, pubVars, Locals
<1>15. ASSUME NEW s \in Status, ReconcileResponse(p, s) PROVE Frame
  BY <1>0, <1>15 DEF ReconcileResponse, Goto, StageAs, Locals
<1>16. CASE ProcessKilled(p)
  BY <1>16, <1>1 DEF ProcessKilled
<1>17. Frame
  BY <1>3, <1>4, <1>5, <1>6, <1>7, <1>8, <1>9, <1>10, <1>11, <1>12, <1>13, <1>14, <1>15, <1>16
     DEF Start, Continue
<1>18. QED
  BY <1>17

(* A step that changes no record and gives nobody a right leaves the dates  *)
(* in order, even if the clock advances.                                   *)
LEMMA DatesKept ==
  ASSUME LInv, LInv', WInv, UNCHANGED <<entry, durable, posts, admitted, linkedAt>>,
         now <= now',
         \A p \in Proc, k \in Marker : Holds(p, k)' => Holds(p, k),
         \A p \in Proc : inv'[p].pc = "post" => inv[p].pc = "post",
         \A p \in Proc : inv'[p].pc = "reserve" /\ pub'[p].step \in Installed \cup {"installing"} =>
           inv[p].pc = "reserve" /\ pub[p].step = pub'[p].step /\ inv'[p].marker = inv[p].marker
  PROVE  WInv'
<1>0. /\ now \in Nat /\ now' \in Nat /\ linkedAt \in [Name -> Nat]
      /\ entry[MarkerName] \in Marker \cup {Absent}
      /\ \A p \in Proc : inv[p].pc = "reserve" => inv[p].marker \in Marker
  BY DEF LInv, TypeOK, EntryKinds, Shape
<1>1. Dated'
  BY <1>0 DEF WInv, Dated
<1>2. NotEarly'
  BY <1>0 DEF WInv, NotEarly
<1>3. HolderInWindow'
  BY DEF WInv, HolderInWindow
<1>4. NoSecondAdmission'
  BY DEF WInv, NoSecondAdmission
<1>5. AdmittedOnce' /\ PostedInWindow'
  BY DEF WInv, AdmittedOnce, PostedInWindow
<1>6. QED
  BY <1>1, <1>2, <1>3, <1>4, <1>5 DEF WInv

(* A publication: linkat dates the record with the current time, and only   *)
(* a name that was free.                                                    *)
LEMMA PublicationWInv ==
  ASSUME LInv, LInv', WInv, NEW p \in Proc, LedgerPublicationStep(p) PROVE WInv'
<1>0. /\ now \in Nat /\ linkedAt \in [Name -> Nat] /\ inv \in [Proc -> Locals]
      /\ pub \in [Proc -> Publication] /\ entry \in [Name -> Bytes \cup {Absent}]
      /\ entry[MarkerName] \in Marker \cup {Absent}
      /\ PubInv /\ Spent /\ (\A q \in Proc : Shape(q) /\ Ready(q))
      /\ \A n \in durable : n \in Name /\ entry[n] # Absent
  BY DEF LInv, TypeOK, EntryKinds, PubInv, PubTypeOK, DurableIsVisible, Locals
<1>1. PICK env \in BOOLEAN : PublicationStep(p, env /\ CommitGuard(p))
  BY DEF LedgerPublicationStep
<1>2. /\ UNCHANGED <<now, inv, posts, admitted>> /\ inv[p].pc \in PublishingPc
      /\ linkedAt' = [n \in Name |-> IF entry[n] = Absent /\ entry'[n] # Absent
                                       THEN now ELSE linkedAt[n]]
  BY DEF LedgerPublicationStep
<1>3. (env /\ CommitGuard(p)) \in BOOLEAN
  BY DEF CommitGuard
<1>4. /\ OnlyMoves(p)
      /\ pub[p].step \in {"staged", "installing", "installed", "syncing"}
      /\ durable \subseteq durable'
      /\ \/ entry' = entry
         \/ /\ pub[p].step = "installing" /\ pub'[p].step = "installed"
            /\ entry[pub[p].name] = Absent
            /\ entry' = [entry EXCEPT ![pub[p].name] = pub[p].bytes]
  BY <1>0, <1>1, <1>3, PublicationStepEffect
<1>5. pub[p].name \in Name /\ pub[p].bytes \in Bytes
  BY <1>0, <1>4 DEF PubInv, BusyHasRecord
<1>6. \A n \in Name : IF entry[n] # Absent THEN entry'[n] = entry[n] /\ linkedAt'[n] = linkedAt[n]
                                           ELSE linkedAt'[n] \in {linkedAt[n], now}
  BY <1>0, <1>2, <1>4, <1>5
<1>7. Dated'
  BY <1>0, <1>2, <1>6 DEF WInv, Dated
<1>8. pub'[p].step = "installing" => BeforeInstall(p, env /\ CommitGuard(p)) /\ env /\ CommitGuard(p)
  BY <1>0, <1>1, <1>3 DEF PublicationStep, BeforeInstall, Linkat, LinkatError, AfterInstall,
                          SyncDirectory, SyncDirectoryError, Publication
<1>9. NotEarly'
  <2>1. ASSUME NEW q \in Proc, inv'[q].pc = "reserve", pub'[q].step = "installing"
        PROVE  ValidFrom[inv'[q].marker] <= now'
    <3>1. CASE q = p
      BY <3>1, <2>1, <1>2, <1>8 DEF CommitGuard, Active
    <3>2. CASE q # p
      BY <3>2, <2>1, <1>2, <1>4 DEF OnlyMoves, WInv, NotEarly
    <3>3. QED
      BY <3>1, <3>2
  <2>2. ASSUME entry'[MarkerName] # Absent
        PROVE  ValidFrom[entry'[MarkerName]] <= linkedAt'[MarkerName]
    <3>1. CASE entry[MarkerName] # Absent
      BY <3>1, <1>6, DistinctNames DEF WInv, NotEarly
    <3>2. CASE entry[MarkerName] = Absent
      <4>1. /\ pub[p].name = MarkerName /\ pub[p].step = "installing"
            /\ entry'[MarkerName] = pub[p].bytes
        BY <3>2, <2>2, <1>0, <1>4, <1>5, DistinctNames
      <4>2. inv[p].pc = "reserve" /\ pub[p].bytes = inv[p].marker
        <5>1. inv[p].pc = "observation" => inv[p].intent.key \in Marker /\ inv[p].id \in ReconId
          BY <1>0 DEF Shape, ReconcilePc, Intent
        <5>2. QED
          BY <5>1, <4>1, <1>0, <1>2, DistinctNames DEF Shape, PublishingPc, SubmitPc
      <4>3. linkedAt'[MarkerName] = now
        BY <3>2, <2>2, <1>2, DistinctNames
      <4>4. QED
        BY <4>1, <4>2, <4>3 DEF WInv, NotEarly
    <3>3. QED
      BY <3>1, <3>2
  <2>3. QED
    BY <2>1, <2>2 DEF NotEarly
(* Who installs the intent has seen the marker, so installed it no earlier. *)
<1>10. HolderInWindow'
  <2> SUFFICES ASSUME NEW q \in Proc, NEW k \in Marker, Holds(q, k)'
               PROVE  /\ linkedAt'[MarkerName] <= linkedAt'[IntentName(k)]
                      /\ inv'[q].pc = "post" => linkedAt'[IntentName(k)] <= ExpiresAt[k]
    BY DEF HolderInWindow
  <2>1. inv[q].pc \in SubmitPc /\ entry[MarkerName] = k
    BY <1>0, <1>2 DEF Holds, Shape, SubmitPc
  <2>2. linkedAt'[MarkerName] = linkedAt[MarkerName] /\ linkedAt[MarkerName] <= now
    BY <2>1, <1>6, DistinctNames DEF WInv, Dated
  <2>3. CASE entry[IntentName(k)] # Absent
    <3>1. Holds(q, k)
      <4>1. CASE q # p
        BY <4>1, <1>2, <1>4 DEF Holds, OnlyMoves
      <4>2. CASE q = p
        <5>1. inv[p].pc = "intent" /\ inv[p].marker = k /\ pub'[p].step \in Installed
          BY <4>2, <1>2 DEF Holds, PublishingPc
        <5>2. pub[p].name = IntentName(k)
          BY <5>1, <1>0 DEF Shape
        <5>3. pub[p].step \in Installed
          BY <5>1, <5>2, <2>3, <1>0, <1>1
             DEF PublicationStep, BeforeInstall, Linkat, LinkatError, AfterInstall,
                 SyncDirectory, SyncDirectoryError, Publication, Installed
        <5>4. QED
          BY <4>2, <5>1, <5>3 DEF Holds
      <4>3. QED
        BY <4>1, <4>2
    <3>2. linkedAt'[IntentName(k)] = linkedAt[IntentName(k)]
      BY <2>3, <1>6, DistinctNames
    <3>3. QED
      BY <3>1, <3>2, <2>2, <1>2 DEF WInv, HolderInWindow
  <2>4. CASE entry[IntentName(k)] = Absent
    <3>1. entry'[IntentName(k)] # Absent /\ inv'[q].pc # "post"
      <4>1. CASE inv[q].pc \in {"recheck", "post"}
        BY <4>1, <2>4, <1>0, <1>2 DEF Ready, Holds
      <4>2. CASE inv[q].pc = "intent"
        <5>1. inv[q].marker = k /\ pub'[q].step \in Installed
          BY <4>2, <1>2 DEF Holds
        <5>2. pub'[q].name = IntentName(k) /\ pub'[q].bytes \in Bytes
          BY <5>1, <4>2, <1>2 DEF LInv, Shape, PubInv, BusyHasRecord, Installed
        <5>3. entry'[IntentName(k)] = pub'[q].bytes
          BY <5>1, <5>2 DEF LInv, PubInv, InstalledIsVisible
        <5>4. QED
          BY <4>2, <5>2, <5>3, <1>2
      <4>3. QED
        BY <4>1, <4>2, <1>2 DEF Holds
    <3>2. linkedAt'[IntentName(k)] = now
      BY <2>4, <3>1, <1>2, DistinctNames
    <3>3. QED
      BY <2>2, <3>1, <3>2
  <2>5. QED
    BY <2>3, <2>4
<1>11. NoSecondAdmission'
  <2> SUFFICES ASSUME admitted > 0, NEW q \in Proc, inv[q].pc = "reserve",
                      pub'[q].step \in Installed
               PROVE  FALSE
    BY <1>2 DEF NoSecondAdmission
  <2>1. entry[MarkerName] # Absent /\ pub[q].step \notin Installed
    BY <1>0 DEF WInv, NoSecondAdmission, AdmittedOnce
  <2>2. q = p /\ pub[p].name = MarkerName
    BY <2>1, <1>0, <1>4 DEF OnlyMoves, Shape
  <2>3. QED
    BY <2>1, <2>2, <1>0, <1>1
       DEF PublicationStep, BeforeInstall, Linkat, LinkatError, AfterInstall,
           SyncDirectory, SyncDirectoryError, Publication, Installed
<1>12. AdmittedOnce'
  BY <1>0, <1>2, <1>4, <1>6 DEF WInv, AdmittedOnce
<1>13. PostedInWindow'
  <2> SUFFICES ASSUME NEW k \in Marker, posts[k] > 0
               PROVE  /\ ValidFrom[k] <= linkedAt'[MarkerName]
                      /\ linkedAt'[MarkerName] <= linkedAt'[IntentName(k)]
                      /\ linkedAt'[IntentName(k)] <= ExpiresAt[k]
    BY <1>2 DEF PostedInWindow
  <2>1. MarkerName \in durable /\ IntentName(k) \in durable
    BY <1>0 DEF Spent
  <2>2. linkedAt'[MarkerName] = linkedAt[MarkerName]
        /\ linkedAt'[IntentName(k)] = linkedAt[IntentName(k)]
    BY <2>1, <1>0, <1>6
  <2>3. QED
    BY <2>2 DEF WInv, PostedInWindow
<1>14. QED
  BY <1>7, <1>9, <1>10, <1>11, <1>12, <1>13 DEF WInv

(* The report of a reserve: its marker is the one on disk, it was not too   *)
(* early when linked, and the clock is still inside the windows.            *)
LEMMA ReserveFinishWInv ==
  ASSUME LInv, LInv', WInv, NEW p \in Proc, ReserveFinish(p) PROVE WInv'
<1>0. /\ now \in Nat /\ linkedAt \in [Name -> Nat] /\ inv \in [Proc -> Locals]
      /\ pub \in [Proc -> Publication] /\ admitted \in Nat /\ PubInv /\ Shape(p)
  BY DEF LInv, TypeOK, PubInv, PubTypeOK, Locals
<1>1. /\ inv[p].pc = "reserve" /\ pub[p].step \in Outcome /\ Exit(p) /\ Take(p)
      /\ UNCHANGED <<entry, durable, now, posts, outputs, linkedAt>>
  BY DEF ReserveFinish
<1>2. /\ inv'[p].pc = "idle" /\ \A q \in Proc \ {p} : inv'[q] = inv[q] /\ pub'[q] = pub[q]
  BY <1>0, <1>1 DEF Exit, Take, IdleInv
<1>3. CASE admitted' = admitted
  <2>1. \A q \in Proc, k \in Marker : Holds(q, k)' => Holds(q, k)
    BY <1>2 DEF Holds
  <2>2. QED
    BY <1>0, <1>1, <1>2, <1>3, <2>1, DatesKept
<1>4. CASE admitted' = admitted + 1 /\ pub[p].step = "CommittedDurable" /\ Active(inv[p].marker)
  <2>1. /\ pub[p].name = MarkerName /\ MarkerName \in durable
        /\ entry[MarkerName] = inv[p].marker /\ inv[p].marker \in Marker
    BY <1>0, <1>1, <1>4 DEF Shape, PubInv, OutcomeIsTruthful
  <2>2. admitted = 0
    BY <1>0, <1>1, <1>4 DEF WInv, NoSecondAdmission, Installed
  <2>3. AdmittedOnce'
    BY <1>0, <1>1, <1>4, <2>1, <2>2, DistinctNames
       DEF AdmittedOnce, Active, WInv, Dated, NotEarly
  <2>4. NoSecondAdmission'
    <3> SUFFICES ASSUME NEW q \in Proc, inv'[q].pc = "reserve", pub'[q].step \in Installed
                 PROVE  FALSE
      BY DEF NoSecondAdmission
    <3>1. q # p /\ inv[q].pc = "reserve" /\ pub[q].step \in Installed
      BY <1>2
    <3>2. pub[q].name = MarkerName
      BY <3>1 DEF LInv, Shape
    <3>3. QED
      BY <3>1, <3>2, <2>1, <1>0, <1>4 DEF PubInv, OneWinner, Installed
  <2>5. Dated' /\ NotEarly'
    BY <1>1, <1>2 DEF WInv, Dated, NotEarly
  <2>6. HolderInWindow'
    BY <1>1, <1>2 DEF WInv, HolderInWindow, Holds
  <2>7. PostedInWindow'
    BY <1>1 DEF WInv, PostedInWindow
  <2>8. QED
    BY <2>3, <2>4, <2>5, <2>6, <2>7 DEF WInv
<1>5. QED
  BY <1>3, <1>4 DEF ReserveFinish

(* The last guard, which closes the window of the intent, and the POST.     *)
LEMMA SubmitWInv ==
  ASSUME LInv, LInv', WInv, NEW p \in Proc, SubmitRecheck(p) \/ SubmitPost(p) PROVE WInv'
<1>0. /\ now \in Nat /\ linkedAt \in [Name -> Nat] /\ inv \in [Proc -> Locals]
      /\ posts \in [Marker -> Nat] /\ Shape(p) /\ Ready(p)
  BY DEF LInv, TypeOK, Locals
<1>1. PICK m \in Marker : m = inv[p].marker /\ entry[MarkerName] = m
  BY <1>0 DEF Shape, SubmitPc, SubmitRecheck, SubmitPost
<1>2. /\ \A q \in Proc \ {p} : inv'[q] = inv[q]
      /\ inv'[p].marker = m /\ inv'[p].pc \in {"post", "await"}
      /\ UNCHANGED <<pubVars, now, admitted, outputs, linkedAt>>
  BY <1>0, <1>1 DEF SubmitRecheck, SubmitPost, Goto, Locals
<1>3. Holds(p, m) /\ \A q \in Proc, k \in Marker : Holds(q, k)' => Holds(q, k)
  BY <1>1, <1>2 DEF Holds, SubmitRecheck, SubmitPost, pubVars
<1>4. Dated' /\ NotEarly' /\ NoSecondAdmission' /\ AdmittedOnce'
  BY <1>2 DEF WInv, Dated, NotEarly, NoSecondAdmission, AdmittedOnce, pubVars
<1>5. CASE SubmitRecheck(p)
  <2>1. linkedAt[IntentName(m)] <= ExpiresAt[m] /\ posts' = posts
    BY <1>0, <1>1, <1>5, DistinctNames DEF SubmitRecheck, Active, WInv, Dated
  <2>2. HolderInWindow'
    BY <1>1, <1>2, <1>3, <2>1 DEF WInv, HolderInWindow, Holds
  <2>3. PostedInWindow'
    BY <1>2, <2>1 DEF WInv, PostedInWindow
  <2>4. QED
    BY <1>4, <2>2, <2>3 DEF WInv
<1>6. CASE SubmitPost(p)
  <2>1. inv[p].pc = "post" /\ inv'[p].pc = "await"
    BY <1>0, <1>6 DEF SubmitPost, Locals
  <2>2. HolderInWindow'
    BY <1>2, <1>3, <2>1 DEF WInv, HolderInWindow
  <2>3. \A k \in Marker : posts'[k] > 0 => k = m \/ posts[k] > 0
    BY <1>0, <1>1, <1>6 DEF SubmitPost
  <2>4. /\ ValidFrom[m] <= linkedAt[MarkerName]
        /\ linkedAt[MarkerName] <= linkedAt[IntentName(m)]
        /\ linkedAt[IntentName(m)] <= ExpiresAt[m]
    BY <1>1, <1>3, <2>1 DEF WInv, NotEarly, HolderInWindow
  <2>5. PostedInWindow'
    BY <1>2, <2>3, <2>4 DEF WInv, PostedInWindow
  <2>6. QED
    BY <1>4, <2>2, <2>5 DEF WInv
<1>7. QED
  BY <1>5, <1>6

(* A loss of power keeps the dates of the records that it spares.           *)
LEMMA PowerWInv ==
  ASSUME LInv, LInv', WInv, PowerFails PROVE WInv'
<1>0. /\ entry \in [Name -> Bytes \cup {Absent}] /\ \A n \in durable : n \in Name /\ entry[n] # Absent
  BY DEF LInv, PubInv, PubTypeOK, DurableIsVisible
<1>1. PICK lost \in SUBSET (Visible \ durable) : PowerLossTo(Visible \ lost)
  BY DEF PowerFails, PowerLoss
<1>2. /\ UNCHANGED <<now, posts, admitted, linkedAt>>
      /\ \A p \in Proc : inv'[p].pc = "idle"
      /\ \A n \in Name : entry'[n] \in {entry[n], Absent}
      /\ \A n \in durable : n \in durable' /\ entry'[n] = entry[n]
  BY <1>0, <1>1 DEF PowerFails, PowerLossTo, IdleInv, Visible
<1>3. Dated' /\ NotEarly' /\ NoSecondAdmission'
  BY <1>2, DistinctNames DEF WInv, Dated, NotEarly, NoSecondAdmission
<1>4. HolderInWindow'
  BY <1>2 DEF HolderInWindow, Holds
<1>5. AdmittedOnce' /\ PostedInWindow'
  BY <1>2 DEF WInv, AdmittedOnce, PostedInWindow
<1>6. QED
  BY <1>3, <1>4, <1>5 DEF WInv

(* WInv is inductive relative to LInv.                                     *)
LEMMA WInvNext == LInv /\ LInv' /\ WInv /\ [Next]_vars => WInv'
<1> SUFFICES ASSUME LInv, LInv', WInv, [Next]_vars PROVE WInv'
  OBVIOUS
<1>0. now \in Nat /\ now' \in Nat
  BY DEF LInv, TypeOK
<1>1. ASSUME NEW p \in Proc,
             \/ Start(p)
             \/ /\ Continue(p)
                /\ ~LedgerPublicationStep(p) /\ ~ReserveFinish(p) /\ ~SubmitRecheck(p)
                /\ ~SubmitPost(p)
             \/ ProcessKilled(p)
      PROVE  WInv'
  <2>1. /\ UNCHANGED <<entry, durable, now, posts, admitted, linkedAt>>
        /\ \A q \in Proc \ {p} : inv'[q] = inv[q] /\ pub'[q] = pub[q]
        /\ inv'[p].pc # "post"
        /\ inv'[p].pc = "recheck" =>
             /\ inv[p].pc = "intent" /\ pub[p].step = "CommittedDurable"
             /\ inv'[p].marker = inv[p].marker
        /\ inv'[p].pc \in PublishingPc => pub'[p].step = "staged"
    BY <1>1, OtherStepsFrame
  <2>2. \A q \in Proc, k \in Marker : Holds(q, k)' => Holds(q, k)
    BY <2>1 DEF Holds, PublishingPc, Installed
  <2>3. \A q \in Proc : inv'[q].pc = "reserve" /\ pub'[q].step \in Installed \cup {"installing"} =>
          inv[q].pc = "reserve" /\ pub[q].step = pub'[q].step /\ inv'[q].marker = inv[q].marker
    BY <2>1 DEF PublishingPc, Installed
  <2>4. \A q \in Proc : inv'[q].pc = "post" => inv[q].pc = "post"
    BY <2>1
  <2>5. QED
    BY <1>0, <2>1, <2>2, <2>3, <2>4, DatesKept
<1>2. ASSUME NEW p \in Proc, LedgerPublicationStep(p) \/ ReserveFinish(p) \/ SubmitRecheck(p)
                               \/ SubmitPost(p)
      PROVE  WInv'
  BY <1>2, PublicationWInv, ReserveFinishWInv, SubmitWInv
<1>3. CASE Tick \/ UNCHANGED vars
  <2>1. UNCHANGED <<entry, durable, pub, inv, posts, admitted, linkedAt>> /\ now <= now'
    BY <1>0, <1>3 DEF Tick, vars, pubVars, ledgerVars
  <2>2. \A q \in Proc, k \in Marker : Holds(q, k)' => Holds(q, k)
    BY <2>1 DEF Holds
  <2>3. QED
    BY <2>1, <2>2, DatesKept
<1>4. CASE PowerFails
  BY <1>4, PowerWInv
<1>5. QED
  BY <1>1, <1>2, <1>3, <1>4 DEF Next, PoweredNext

(* WInv always holds.                                                      *)
THEOREM WInvariance == Spec => []WInv
<1>1. Init => WInv
  <2> SUFFICES ASSUME Init PROVE WInv
    OBVIOUS
  <2>1. /\ now = 0 /\ admitted = 0 /\ linkedAt = [n \in Name |-> 0]
        /\ posts = [k \in Marker |-> 0] /\ entry = [n \in Name |-> Absent]
        /\ \A p \in Proc : inv[p].pc = "idle"
    BY DEF Init, PubInit, IdleInv
  <2>2. Dated /\ NotEarly /\ HolderInWindow
    BY <2>1, DistinctNames DEF Dated, NotEarly, HolderInWindow, Holds
  <2>3. NoSecondAdmission /\ AdmittedOnce /\ PostedInWindow
    BY <2>1 DEF NoSecondAdmission, AdmittedOnce, PostedInWindow
  <2>4. QED
    BY <2>2, <2>3 DEF WInv
<1>2. QED
  BY <1>1, LInvariance, WInvNext, PTL DEF Spec

(* At most one reserve ever reports success, whatever races, kills and      *)
(* losses of power there are; its marker is then on disk for good and was   *)
(* installed inside its windows, although                                   *)
(* finish_signed_factory_receipt_release_reservation only samples the clock *)
(* before and after the installation.                                       *)
THEOREM AdmissionIsUnique == Spec => []AdmittedOnce
<1>1. WInv => AdmittedOnce
  BY DEF WInv
<1>2. QED
  BY <1>1, WInvariance, PTL

(* A package leaves only under a marker and an intent that were installed   *)
(* in that order and inside the marker's windows.                           *)
THEOREM PostsAreInWindow == Spec => []PostedInWindow
<1>1. WInv => PostedInWindow
  BY DEF WInv
<1>2. QED
  BY <1>1, WInvariance, PTL
-----------------------------------------------------------------------------
(* The receipts handed out.  A result can be lost with the power after it   *)
(* was published, so the ledger alone does not determine it; it is not      *)
(* replaced by another because only the process that made the POST could    *)
(* record one (Owes), and that process dies with the power.                 *)
Owes(p, k) == inv[p].marker = k /\ inv[p].pc \in {"await", "result"}

OneOwes ==
  \A k \in Marker, p \in Proc : Owes(p, k) =>
    posts[k] = 1 /\ \A q \in Proc : Owes(q, k) => p = q

(* Until the linkat of its result there is none, on disk or handed out.    *)
Unrecorded(p) == ~(inv[p].pc = "result" /\ pub[p].step \in Installed)

OwedIsOpen ==
  \A k \in Marker, p \in Proc :
    Owes(p, k) /\ Unrecorded(p) =>
      entry[ResultName(k)] = Absent /\ \A o \in outputs : o.name # ResultName(k)

(* A result belongs to a POST, and what was handed out is what is there.   *)
ResultsArePosted ==
  \A k \in Marker :
    /\ entry[ResultName(k)] # Absent => posts[k] = 1
    /\ \A o \in outputs : o.name = ResultName(k) =>
         /\ posts[k] = 1
         /\ entry[ResultName(k)] \in {o.receipt, Absent}

(* From the outcome of its intent on, a submit works for the intent on      *)
(* disk, and its receipt says so.                                           *)
Announced(p) ==
  inv[p].pc \in {"recheck", "post", "await", "result"} =>
    /\ entry[IntentName(inv[p].marker)] = inv[p].intent
    /\ inv[p].pc = "await" => inv[p].receipt.intent = inv[p].intent
    /\ inv[p].pc = "result" => pub[p].bytes.intent = inv[p].intent

RInv ==
  /\ \A o \in outputs : o.name \in LedgerName
  /\ OneOwes
  /\ OwedIsOpen
  /\ ResultsArePosted
  /\ \A p \in Proc : Announced(p)
  /\ ResultHasIntent
  /\ SubmissionOutputStable

(* A command hands out only what the ledger holds at that moment.           *)
LEMMA OnlyRecordsAreHandedOut ==
  ASSUME LInv, [Next]_vars
  PROVE  \A o \in outputs' :
           \/ o \in outputs
           \/ /\ entry' = entry /\ o.name \in LedgerName
              /\ entry[o.name] = o.receipt /\ o.receipt # Absent
<1> DEFINE Fresh(o) == /\ entry' = entry /\ o.name \in LedgerName
                       /\ entry[o.name] = o.receipt /\ o.receipt # Absent
<1>1. ASSUME NEW p \in Proc, NEW n \in LedgerName, entry[n] # Absent,
             PublishAndExit(p, n, entry[n]), entry' = entry
      PROVE  \A o \in outputs' : o \in outputs \/ Fresh(o)
  BY <1>1 DEF PublishAndExit
<1>2. ASSUME NEW p \in Proc, Start(p) \/ ProcessKilled(p) PROVE outputs' = outputs
  BY <1>2 DEF Start, ReserveStart, SubmitStart, ReconcileStart, ProcessKilled
<1>3. ASSUME NEW p \in Proc, Continue(p), ~SubmitReplay(p), ~SubmitResultOutcome(p),
             ~ReconcileReadResult(p), ~ReconcileReadObservation(p), ~ReconcileOutcome(p)
      PROVE  outputs' = outputs
  BY <1>3 DEF Continue, LedgerPublicationStep, ReserveFinish, SubmitReadIntent,
              SubmitStageIntent, SubmitIntentOutcome, SubmitRecheck, SubmitRecheckFails,
              SubmitPost, SubmitResponse, ReconcileGet, ReconcileGuardFails,
              ReconcileResponse, Bail
<1>4. ASSUME NEW p \in Proc, SubmitReplay(p) PROVE \A o \in outputs' : o \in outputs \/ Fresh(o)
  <2>1. ResultName(inv[p].marker) \in LedgerName
    BY <1>4 DEF SubmitReplay, LInv, Shape, SubmitPc, LedgerName
  <2>2. QED
    BY <1>1, <1>4, <2>1 DEF SubmitReplay, pubVars
<1>5. ASSUME NEW p \in Proc, ReconcileReadResult(p)
      PROVE  \A o \in outputs' : o \in outputs \/ Fresh(o)
  <2>1. ResultName(inv[p].intent.key) \in LedgerName
    BY <1>5 DEF ReconcileReadResult, LInv, Shape, ReconcilePc, Intent, LedgerName
  <2>2. QED
    BY <1>1, <1>5, <2>1 DEF ReconcileReadResult, pubVars
<1>6. ASSUME NEW p \in Proc, ReconcileReadObservation(p)
      PROVE  \A o \in outputs' : o \in outputs \/ Fresh(o)
  <2>1. ReconciliationName(inv[p].intent.key, inv[p].id) \in LedgerName
    BY <1>6 DEF ReconcileReadObservation, LInv, Shape, ReconcilePc, Intent, LedgerName
  <2>2. QED
    BY <1>1, <1>6, <2>1 DEF ReconcileReadObservation, pubVars
<1>7. ASSUME NEW p \in Proc, SubmitResultOutcome(p) \/ ReconcileOutcome(p)
      PROVE  \A o \in outputs' : o \in outputs \/ Fresh(o)
  <2>1. pub[p].name \in LedgerName /\ pub[p].bytes \in Receipt
    <3>1. CASE SubmitResultOutcome(p)
      BY <3>1 DEF SubmitResultOutcome, LInv, Shape, SubmitPc, LedgerName
    <3>2. CASE ReconcileOutcome(p)
      BY <3>2 DEF ReconcileOutcome, LInv, Shape, ReconcilePc, Intent, LedgerName
    <3>3. QED
      BY <1>7, <3>1, <3>2
  <2>2. Recorded(p) => entry[pub[p].name] = pub[p].bytes
    BY DEF Recorded, LInv, PubInv, OutcomeIsTruthful
  <2>3. pub[p].bytes # Absent
    BY <2>1, LedgerRecords
  <2>4. QED
    BY <1>1, <1>7, <2>1, <2>2, <2>3 DEF SubmitResultOutcome, ReconcileOutcome
<1>8. CASE Tick \/ PowerFails \/ UNCHANGED vars
  BY <1>8 DEF Tick, PowerFails, vars, ledgerVars
<1>9. QED
  BY <1>2, <1>3, <1>4, <1>5, <1>6, <1>7, <1>8 DEF Next, PoweredNext

(* What was handed out stays right while a step changes no record.         *)
LEMMA OutputsKept ==
  ASSUME LInv, RInv, [Next]_vars, entry' = entry, posts' = posts
  PROVE  /\ \A o \in outputs' : o.name \in LedgerName
         /\ ResultsArePosted' /\ ResultHasIntent' /\ SubmissionOutputStable'
<1>1. \A o \in outputs' : \/ o \in outputs
                          \/ /\ o.name \in LedgerName
                             /\ entry[o.name] = o.receipt /\ o.receipt # Absent
  BY OnlyRecordsAreHandedOut
<1>2. \A o \in outputs' : o.name \in LedgerName
  BY <1>1 DEF RInv
<1>3. ResultsArePosted'
  BY <1>1 DEF RInv, ResultsArePosted
<1>4. ResultHasIntent'
  BY DEF RInv, ResultHasIntent
<1>5. ASSUME NEW o1 \in outputs', NEW o2 \in outputs', o1.name = o2.name,
             o1.name.kind = "result"
      PROVE  o1.receipt = o2.receipt
  <2>1. PICK k \in Marker : o1.name = ResultName(k)
    BY <1>2, <1>5 DEF LedgerName, MarkerName, IntentName, ReconciliationName
  <2>2. CASE o1 \in outputs /\ o2 \in outputs
    BY <1>5, <2>2 DEF RInv, SubmissionOutputStable
  <2>3. CASE o1 \notin outputs \/ o2 \notin outputs
    <3>1. \A o \in outputs : o.name = ResultName(k) => entry[o.name] \in {o.receipt, Absent}
      BY DEF RInv, ResultsArePosted
    <3>2. \A o \in outputs' : o.name = ResultName(k) => entry[o.name] \in {o.receipt, Absent}
      BY <1>1, <3>1
    <3>3. entry[o1.name] # Absent
      BY <1>1, <1>5, <2>3
    <3>4. QED
      BY <1>5, <2>1, <3>2, <3>3
  <2>4. QED
    BY <2>2, <2>3
<1>6. QED
  BY <1>2, <1>3, <1>4, <1>5 DEF SubmissionOutputStable

(* A step of p that changes no record and takes no new debt on.            *)
LEMMA DebtsKept ==
  ASSUME LInv, RInv, NEW p \in Proc, [Next]_vars, entry' = entry, posts' = posts,
         \A q \in Proc \ {p} : inv'[q] = inv[q] /\ pub'[q] = pub[q],
         \A k \in Marker : Owes(p, k)' => Owes(p, k),
         inv'[p].pc = "result" /\ pub'[p].step \notin Installed => Unrecorded(p),
         inv'[p].pc = "await" => inv[p].pc = "await",
         Announced(p)'
  PROVE  RInv'
<1>1. /\ \A o \in outputs' : o.name \in LedgerName
      /\ ResultsArePosted' /\ ResultHasIntent' /\ SubmissionOutputStable'
  BY OutputsKept
<1>2. ASSUME NEW q \in Proc, NEW k \in Marker, Owes(q, k)' PROVE Owes(q, k)
  BY <1>2 DEF Owes
<1>3. OneOwes'
  BY <1>2 DEF RInv, OneOwes
<1>4. OwedIsOpen'
  <2> SUFFICES ASSUME NEW k \in Marker, NEW q \in Proc, Owes(q, k)', Unrecorded(q)'
               PROVE  entry[ResultName(k)] = Absent /\ \A o \in outputs' : o.name # ResultName(k)
    BY DEF OwedIsOpen
  <2>1. Owes(q, k)
    BY <1>2
  <2>2. Unrecorded(q)
    <3>1. CASE q = p
      BY <3>1 DEF Unrecorded, Owes
    <3>2. CASE q # p
      BY <3>2 DEF Unrecorded
    <3>3. QED
      BY <3>1, <3>2
  <2>3. entry[ResultName(k)] = Absent /\ \A o \in outputs : o.name # ResultName(k)
    BY <2>1, <2>2 DEF RInv, OwedIsOpen
  <2>4. QED
    BY <2>3, OnlyRecordsAreHandedOut
<1>5. \A q \in Proc : Announced(q)'
  BY DEF RInv, Announced
<1>6. QED
  BY <1>1, <1>3, <1>4, <1>5 DEF RInv

(* A publication: only the process that owes the result installs it, and    *)
(* nothing was handed out before.                                           *)
LEMMA PublicationRInv ==
  ASSUME LInv, RInv, [Next]_vars, NEW p \in Proc, LedgerPublicationStep(p) PROVE RInv'
<1>0. /\ inv \in [Proc -> Locals] /\ pub \in [Proc -> Publication]
      /\ entry \in [Name -> Bytes \cup {Absent}] /\ PubInv /\ EntryKinds
      /\ \A q \in Proc : Shape(q)
  BY DEF LInv, TypeOK, PubInv, PubTypeOK, Locals
<1>1. PICK ok \in BOOLEAN : PublicationStep(p, ok)
  BY DEF LedgerPublicationStep, CommitGuard
<1>2. UNCHANGED <<inv, posts, outputs>> /\ inv[p].pc \in PublishingPc
  BY DEF LedgerPublicationStep
<1>3. /\ OnlyMoves(p)
      /\ pub[p].step \in {"staged", "installing", "installed", "syncing"}
      /\ \/ entry' = entry
         \/ /\ pub[p].step = "installing" /\ pub'[p].step = "installed"
            /\ entry[pub[p].name] = Absent
            /\ entry' = [entry EXCEPT ![pub[p].name] = pub[p].bytes]
  BY <1>0, <1>1, PublicationStepEffect
<1>4. pub[p].name \in Name /\ pub[p].bytes \in Bytes
  BY <1>0, <1>3 DEF PubInv, BusyHasRecord
<1>5. \A n \in Name : entry[n] # Absent => entry'[n] = entry[n]
  BY <1>0, <1>3, <1>4
<1>6. ASSUME NEW k \in Marker, entry[ResultName(k)] = Absent, entry'[ResultName(k)] # Absent
      PROVE  /\ inv[p].pc = "result" /\ inv[p].marker = k /\ pub[p].step \notin Installed
             /\ pub'[p].step = "installed" /\ entry'[ResultName(k)] = pub[p].bytes
  <2>1. /\ pub[p].name = ResultName(k) /\ pub[p].step = "installing"
        /\ pub'[p].step = "installed" /\ entry'[ResultName(k)] = pub[p].bytes
    BY <1>0, <1>3, <1>4, <1>6, DistinctNames
  <2>2. inv[p].pc = "observation" => inv[p].intent.key \in Marker /\ inv[p].id \in ReconId
    BY <1>0 DEF Shape, ReconcilePc, Intent
  <2>3. inv[p].pc \in {"intent", "result"} => inv[p].marker \in Marker
    BY <1>0 DEF Shape, SubmitPc
  <2>4. QED
    BY <2>1, <2>2, <2>3, <1>0, <1>2, DistinctNames DEF Shape, PublishingPc, Installed
<1>7. OneOwes'
  BY <1>2 DEF RInv, OneOwes, Owes
<1>8. OwedIsOpen'
  <2> SUFFICES ASSUME NEW k \in Marker, NEW q \in Proc, Owes(q, k)', Unrecorded(q)'
               PROVE  entry'[ResultName(k)] = Absent /\ \A o \in outputs : o.name # ResultName(k)
    BY <1>2 DEF OwedIsOpen
  <2>1. Owes(q, k)
    BY <1>2 DEF Owes
  <2>2. Unrecorded(q)
    <3>1. CASE q = p /\ pub[p].step \in Installed
      <4>1. pub'[p].step \in Installed
        BY <3>1, <1>0, <1>1, <1>3
           DEF PublicationStep, BeforeInstall, Linkat, LinkatError, AfterInstall,
               SyncDirectory, SyncDirectoryError, Publication, Installed
      <4>2. QED
        BY <3>1, <4>1, <1>2 DEF Unrecorded
    <3>2. CASE q = p /\ pub[p].step \notin Installed
      BY <3>2 DEF Unrecorded
    <3>3. CASE q # p
      BY <3>3, <1>2, <1>3 DEF Unrecorded, OnlyMoves
    <3>4. QED
      BY <3>1, <3>2, <3>3
  <2>3. entry[ResultName(k)] = Absent /\ \A o \in outputs : o.name # ResultName(k)
    BY <2>1, <2>2 DEF RInv, OwedIsOpen
  <2>4. ASSUME entry'[ResultName(k)] # Absent PROVE FALSE
    <3>1. inv[p].pc = "result" /\ inv[p].marker = k /\ pub'[p].step = "installed"
      BY <1>6, <2>3, <2>4
    <3>2. q = p
      BY <3>1, <2>1 DEF RInv, OneOwes, Owes
    <3>3. QED
      BY <3>1, <3>2, <1>2 DEF Unrecorded, Installed
  <2>5. QED
    BY <2>3, <2>4
<1>9. ResultsArePosted'
  <2> SUFFICES ASSUME NEW k \in Marker
               PROVE  /\ entry'[ResultName(k)] # Absent => posts[k] = 1
                      /\ \A o \in outputs : o.name = ResultName(k) =>
                           posts[k] = 1 /\ entry'[ResultName(k)] \in {o.receipt, Absent}
    BY <1>2 DEF ResultsArePosted
  <2>1. CASE entry'[ResultName(k)] = entry[ResultName(k)]
    BY <2>1 DEF RInv, ResultsArePosted
  <2>2. CASE entry'[ResultName(k)] # entry[ResultName(k)]
    <3>1. entry[ResultName(k)] = Absent /\ entry'[ResultName(k)] # Absent
      BY <2>2, <1>5, DistinctNames
    <3>2. Owes(p, k) /\ Unrecorded(p)
      BY <3>1, <1>6 DEF Owes, Unrecorded
    <3>3. posts[k] = 1 /\ \A o \in outputs : o.name # ResultName(k)
      BY <3>2 DEF RInv, OneOwes, OwedIsOpen
    <3>4. QED
      BY <3>3
  <2>3. QED
    BY <2>1, <2>2
<1>10. ASSUME NEW q \in Proc PROVE Announced(q)'
  <2> SUFFICES ASSUME inv[q].pc \in {"recheck", "post", "await", "result"}
               PROVE  /\ entry'[IntentName(inv[q].marker)] = inv[q].intent
                      /\ inv[q].pc = "await" => inv[q].receipt.intent = inv[q].intent
                      /\ inv[q].pc = "result" => pub'[q].bytes.intent = inv[q].intent
    BY <1>2 DEF Announced
  <2>1. /\ entry[IntentName(inv[q].marker)] = inv[q].intent
        /\ inv[q].pc = "await" => inv[q].receipt.intent = inv[q].intent
        /\ inv[q].pc = "result" => pub[q].bytes.intent = inv[q].intent
    BY DEF RInv, Announced
  <2>2. inv[q].marker \in Marker /\ inv[q].intent \in Intent /\ inv[q].intent # Absent
    BY <1>0, LedgerRecords DEF Shape, SubmitPc
  <2>3. entry'[IntentName(inv[q].marker)] = inv[q].intent
    BY <2>1, <2>2, <1>5, DistinctNames
  <2>4. pub'[q].bytes = pub[q].bytes
    BY <1>3 DEF OnlyMoves
  <2>5. QED
    BY <2>1, <2>3, <2>4
<1>11. ResultHasIntent'
  <2> SUFFICES ASSUME NEW k \in Marker, entry'[ResultName(k)] # Absent
               PROVE  /\ posts[k] = 1 /\ entry'[IntentName(k)] # Absent
                      /\ entry'[ResultName(k)].intent = entry'[IntentName(k)]
    BY <1>2 DEF ResultHasIntent
  <2>1. CASE entry[ResultName(k)] # Absent
    <3>1. /\ posts[k] = 1 /\ entry[IntentName(k)] # Absent
          /\ entry[ResultName(k)].intent = entry[IntentName(k)]
      BY <2>1 DEF RInv, ResultHasIntent
    <3>2. QED
      BY <2>1, <3>1, <1>5, DistinctNames
  <2>2. CASE entry[ResultName(k)] = Absent
    <3>1. inv[p].pc = "result" /\ inv[p].marker = k /\ entry'[ResultName(k)] = pub[p].bytes
      BY <2>2, <1>6
    <3>2. pub[p].bytes.intent = inv[p].intent /\ entry[IntentName(k)] = inv[p].intent
      BY <3>1 DEF RInv, Announced
    <3>3. entry[IntentName(k)] # Absent
      BY <3>1, <3>2, <1>0, LedgerRecords DEF Shape, SubmitPc
    <3>4. posts[k] = 1
      BY <3>1 DEF RInv, OneOwes, Owes
    <3>5. QED
      BY <3>1, <3>2, <3>3, <3>4, <1>5, DistinctNames
  <2>3. QED
    BY <2>1, <2>2
<1>12. (\A o \in outputs' : o.name \in LedgerName) /\ SubmissionOutputStable'
  BY <1>2 DEF RInv, SubmissionOutputStable
<1>13. QED
  BY <1>7, <1>8, <1>9, <1>10, <1>11, <1>12 DEF RInv

(* The POST makes its process the only one to owe a result: before it there *)
(* was none for this marker.                                                *)
LEMMA PostRInv ==
  ASSUME LInv, LInv', RInv, [Next]_vars, NEW p \in Proc, SubmitPost(p) PROVE RInv'
<1>0. /\ inv \in [Proc -> Locals] /\ posts \in [Marker -> Nat] /\ Shape(p)
  BY DEF LInv, TypeOK, Locals
<1>1. PICK m \in Marker : m = inv[p].marker /\ inv[p].pc = "post"
  BY <1>0 DEF Shape, SubmitPc, SubmitPost
<1>2. /\ \A q \in Proc \ {p} : inv'[q] = inv[q]
      /\ inv'[p].marker = m /\ inv'[p].pc = "await" /\ inv'[p].intent = inv[p].intent
      /\ inv'[p].receipt.intent = inv[p].intent
      /\ UNCHANGED <<entry, pub, outputs>>
  BY <1>0, <1>1 DEF SubmitPost, Locals, pubVars
<1>3. posts[m] = 0
  BY <1>1 DEF LInv, Spent, Holds
<1>4. \A k \in Marker : posts'[k] = IF k = m THEN 1 ELSE posts[k]
  BY <1>0, <1>1, <1>3 DEF SubmitPost
<1>5. /\ entry[ResultName(m)] = Absent /\ \A o \in outputs : o.name # ResultName(m)
      /\ \A q \in Proc : ~Owes(q, m)
  BY <1>3 DEF RInv, ResultsArePosted, OneOwes
<1>6. \A q \in Proc, k \in Marker : Owes(q, k)' => (q = p /\ k = m) \/ (q # p /\ k # m /\ Owes(q, k))
  BY <1>2, <1>5 DEF Owes
<1>7. OneOwes'
  BY <1>4, <1>6 DEF RInv, OneOwes
<1>8. OwedIsOpen'
  BY <1>2, <1>5, <1>6 DEF RInv, OwedIsOpen, Unrecorded
<1>9. ResultsArePosted' /\ ResultHasIntent'
  BY <1>2, <1>4 DEF RInv, ResultsArePosted, ResultHasIntent
<1>10. \A q \in Proc : Announced(q)'
  BY <1>1, <1>2 DEF RInv, Announced
<1>11. (\A o \in outputs' : o.name \in LedgerName) /\ SubmissionOutputStable'
  BY <1>2 DEF RInv, SubmissionOutputStable
<1>12. QED
  BY <1>7, <1>8, <1>9, <1>10, <1>11 DEF RInv

(* After a loss of power nobody owes a result, and a result that survived   *)
(* still has its intent, which was durable before the POST.                 *)
LEMMA PowerRInv ==
  ASSUME LInv, RInv, PowerFails PROVE RInv'
<1>0. /\ entry \in [Name -> Bytes \cup {Absent}] /\ Spent
      /\ \A n \in durable : n \in Name /\ entry[n] # Absent
  BY DEF LInv, PubInv, PubTypeOK, DurableIsVisible
<1>1. PICK lost \in SUBSET (Visible \ durable) : PowerLossTo(Visible \ lost)
  BY DEF PowerFails, PowerLoss
<1>2. /\ UNCHANGED <<posts, outputs>>
      /\ \A p \in Proc : inv'[p].pc = "idle"
      /\ \A n \in Name : entry'[n] \in {entry[n], Absent}
      /\ \A n \in durable : entry'[n] = entry[n]
  BY <1>0, <1>1 DEF PowerFails, PowerLossTo, IdleInv, Visible
<1>3. OneOwes' /\ OwedIsOpen' /\ \A p \in Proc : Announced(p)'
  BY <1>2 DEF OneOwes, OwedIsOpen, Owes, Announced
<1>4. ResultsArePosted'
  BY <1>2, DistinctNames DEF RInv, ResultsArePosted
<1>5. ResultHasIntent'
  <2> SUFFICES ASSUME NEW k \in Marker, entry'[ResultName(k)] # Absent
               PROVE  /\ posts[k] = 1 /\ entry'[IntentName(k)] # Absent
                      /\ entry'[ResultName(k)].intent = entry'[IntentName(k)]
    BY <1>2 DEF ResultHasIntent
  <2>1. entry'[ResultName(k)] = entry[ResultName(k)]
    BY <1>2, DistinctNames
  <2>2. /\ posts[k] = 1 /\ entry[IntentName(k)] # Absent
        /\ entry[ResultName(k)].intent = entry[IntentName(k)]
    BY <2>1 DEF RInv, ResultHasIntent
  <2>3. IntentName(k) \in durable
    BY <2>2, <1>0 DEF Spent
  <2>4. QED
    BY <2>1, <2>2, <2>3, <1>2
<1>6. (\A o \in outputs' : o.name \in LedgerName) /\ SubmissionOutputStable'
  BY <1>2 DEF RInv, SubmissionOutputStable
<1>7. QED
  BY <1>3, <1>4, <1>5, <1>6 DEF RInv

(* RInv is inductive relative to LInv.                                     *)
LEMMA RInvNext == LInv /\ LInv' /\ RInv /\ [Next]_vars => RInv'
<1> SUFFICES ASSUME LInv, LInv', RInv, [Next]_vars PROVE RInv'
  OBVIOUS
<1>0. inv \in [Proc -> Locals] /\ pub \in [Proc -> Publication]
  BY DEF LInv, TypeOK, Locals, PubInv, PubTypeOK
<1>1. ASSUME NEW p \in Proc,
             \/ Start(p)
             \/ /\ Continue(p)
                /\ ~LedgerPublicationStep(p) /\ ~ReserveFinish(p) /\ ~SubmitRecheck(p)
                /\ ~SubmitPost(p)
             \/ ProcessKilled(p)
      PROVE  RInv'
  <2>1. /\ entry' = entry /\ posts' = posts
        /\ \A q \in Proc \ {p} : inv'[q] = inv[q] /\ pub'[q] = pub[q]
        /\ inv'[p].pc # "post"
        /\ inv'[p].pc = "recheck" =>
             /\ inv[p].pc = "intent" /\ pub[p].step = "CommittedDurable"
             /\ inv'[p].marker = inv[p].marker /\ inv'[p].intent = inv[p].intent
        /\ inv'[p].pc \in {"await", "result"} =>
             /\ inv[p].pc = "await" /\ inv'[p].pc = "result"
             /\ inv'[p].marker = inv[p].marker /\ inv'[p].intent = inv[p].intent
             /\ pub'[p].bytes.intent = inv[p].receipt.intent
    BY <1>1, OtherStepsFrame
  <2>2. (\A k \in Marker : Owes(p, k)' => Owes(p, k)) /\ (inv'[p].pc = "result" => Unrecorded(p))
    BY <2>1 DEF Owes, Unrecorded
  <2>3. inv'[p].pc = "recheck" => entry[IntentName(inv[p].marker)] = inv[p].intent
    BY <2>1 DEF LInv, Shape, PubInv, OutcomeIsTruthful
  <2>4. Announced(p)'
    BY <2>1, <2>3 DEF RInv, Announced
  <2>5. QED
    BY <2>1, <2>2, <2>4, DebtsKept
<1>2. ASSUME NEW p \in Proc, ReserveFinish(p) \/ SubmitRecheck(p) PROVE RInv'
  <2>1. /\ entry' = entry /\ posts' = posts
        /\ \A q \in Proc \ {p} : inv'[q] = inv[q] /\ pub'[q] = pub[q]
        /\ \/ inv'[p].pc = "idle"
           \/ /\ inv[p].pc = "recheck" /\ inv'[p].pc = "post"
              /\ inv'[p].marker = inv[p].marker /\ inv'[p].intent = inv[p].intent
    BY <1>0, <1>2 DEF ReserveFinish, SubmitRecheck, Exit, Take, Goto, IdleInv, pubVars, Locals
  <2>2. \A k \in Marker : ~Owes(p, k)'
    BY <2>1 DEF Owes
  <2>3. Announced(p)'
    BY <2>1 DEF RInv, Announced
  <2>4. QED
    BY <2>1, <2>2, <2>3, DebtsKept
<1>3. ASSUME NEW p \in Proc, LedgerPublicationStep(p) \/ SubmitPost(p) PROVE RInv'
  BY <1>3, PublicationRInv, PostRInv
<1>4. CASE Tick \/ UNCHANGED vars
  BY <1>4 DEF Tick, vars, pubVars, ledgerVars, RInv, OneOwes, OwedIsOpen, Owes, Unrecorded,
              Announced, ResultsArePosted, ResultHasIntent, SubmissionOutputStable
<1>5. CASE PowerFails
  BY <1>5, PowerRInv
<1>6. QED
  BY <1>1, <1>2, <1>3, <1>4, <1>5 DEF Next, PoweredNext

(* RInv always holds.                                                      *)
THEOREM RInvariance == Spec => []RInv
<1>1. Init => RInv
  <2> SUFFICES ASSUME Init PROVE RInv
    OBVIOUS
  <2>1. /\ outputs = {} /\ entry = [n \in Name |-> Absent] /\ \A p \in Proc : inv[p].pc = "idle"
    BY DEF Init, PubInit, IdleInv
  <2>2. OneOwes /\ OwedIsOpen /\ \A p \in Proc : Announced(p)
    BY <2>1 DEF OneOwes, OwedIsOpen, Owes, Announced
  <2>3. ResultsArePosted /\ ResultHasIntent /\ SubmissionOutputStable
    BY <2>1, DistinctNames DEF ResultsArePosted, ResultHasIntent, SubmissionOutputStable
  <2>4. QED
    BY <2>1, <2>2, <2>3 DEF RInv
<1>2. QED
  BY <1>1, LInvariance, RInvNext, PTL DEF Spec

(* submit and reconcile never publish two different receipts of one         *)
(* submission, even if the record of the first was lost with the power      *)
(* before anybody synchronized it.                                          *)
THEOREM SubmissionOutputsAgree == Spec => []SubmissionOutputStable
<1>1. RInv => SubmissionOutputStable
  BY DEF RInv
<1>2. QED
  BY <1>1, RInvariance, PTL

(* The error "durable submission result exists without its exact intent"    *)
(* never fires: a result on disk has its POST and its exact intent.         *)
THEOREM ResultsHaveIntents == Spec => []ResultHasIntent
<1>1. RInv => ResultHasIntent
  BY DEF RInv
<1>2. QED
  BY <1>1, RInvariance, PTL

(* While the power stays on no record disappears: every step but a          *)
(* publication leaves the directory alone.                                  *)
LEMMA PoweredKeepsRecords ==
  ASSUME LInv, [PoweredNext]_vars PROVE \A n \in Name : entry[n] # Absent => entry'[n] = entry[n]
<1>1. ASSUME NEW p \in Proc, LedgerPublicationStep(p)
      PROVE  \A n \in Name : entry[n] # Absent => entry'[n] = entry[n]
  <2>1. PICK ok \in BOOLEAN : PublicationStep(p, ok)
    BY <1>1 DEF LedgerPublicationStep, CommitGuard
  <2>2. \/ entry' = entry
        \/ /\ entry[pub[p].name] = Absent
           /\ entry' = [entry EXCEPT ![pub[p].name] = pub[p].bytes]
    BY <2>1, PublicationStepEffect DEF LInv
  <2>3. QED
    BY <2>2 DEF LInv, PubInv, PubTypeOK
<1>2. ASSUME NEW p \in Proc,
             \/ Start(p)
             \/ /\ Continue(p)
                /\ ~LedgerPublicationStep(p) /\ ~ReserveFinish(p) /\ ~SubmitRecheck(p)
                /\ ~SubmitPost(p)
             \/ ProcessKilled(p)
      PROVE  entry' = entry
  BY <1>2, OtherStepsFrame
<1>3. ASSUME NEW p \in Proc, ReserveFinish(p) \/ SubmitRecheck(p) \/ SubmitPost(p)
      PROVE  entry' = entry
  BY <1>3 DEF ReserveFinish, SubmitRecheck, SubmitPost, pubVars
<1>4. CASE Tick \/ UNCHANGED vars
  BY <1>4 DEF Tick, vars, pubVars
<1>5. QED
  BY <1>1, <1>2, <1>3, <1>4 DEF PoweredNext

(* While the power stays on, what submit and reconcile have handed to a     *)
(* caller is the record that a later command reads under the same name.     *)
THEOREM OutputsAreRecorded == PoweredSpec => []OutputIsRecorded
<1> DEFINE I == OutputIsRecorded /\ \A o \in outputs : o.name \in Name /\ o.receipt # Absent
<1>1. Init => I
  BY DEF Init, OutputIsRecorded
<1>2. LInv /\ I /\ [PoweredNext]_vars => I'
  <2> SUFFICES ASSUME LInv, I, [PoweredNext]_vars, NEW o \in outputs'
               PROVE  o.name \in Name /\ o.receipt # Absent /\ entry'[o.name] = o.receipt
    BY DEF OutputIsRecorded
  <2>1. \/ o \in outputs
        \/ /\ entry' = entry /\ o.name \in LedgerName
           /\ entry[o.name] = o.receipt /\ o.receipt # Absent
    BY OnlyRecordsAreHandedOut DEF Next
  <2>2. CASE o \in outputs
    BY <2>2, PoweredKeepsRecords DEF OutputIsRecorded
  <2>3. CASE entry' = entry /\ o.name \in LedgerName /\ entry[o.name] = o.receipt
               /\ o.receipt # Absent
    BY <2>3
  <2>4. QED
    BY <2>1, <2>2, <2>3
<1>3. [PoweredNext]_vars => [Next]_vars
  BY DEF Next
<1>4. PoweredSpec => []LInv
  BY LInvInit, LInvNext, <1>3, PTL DEF PoweredSpec
<1>5. I => OutputIsRecorded
  OBVIOUS
<1> HIDE DEF I
<1>6. QED
  BY <1>1, <1>2, <1>4, <1>5, PTL DEF PoweredSpec
-----------------------------------------------------------------------------
(* The authenticated commands beside the older ones.  LInv does not speak   *)
(* of them; QInv adds to it what they are doing, and that the right to a    *)
(* POST is one right for both kinds of submit.                              *)

(* The reports of the ledger carry the key and the id they are named for.  *)
ReportKinds ==
  \A k \in Marker, r \in AuthId \cup {Absent} :
    LET report == entry[ReportName(k, r)] IN
    report # Absent =>
      report \in Report /\ report.receipt.intent.key = k /\ report.receipt.id = r

(* The locals of an authenticated command at each of its steps, and the    *)
(* publication it has under way.  A process runs one command at a time.    *)
AuthShape(p) ==
  /\ inv[p].pc = "idle" \/ auth[p].pc = "idle"
  /\ auth[p].pc # "idle" =>
       /\ auth[p].intent \in Intent /\ auth[p].policy \in Policy
       /\ auth[p].id = Absent => auth[p].marker = Key(p) /\ entry[MarkerName] = Key(p)
  /\ auth[p].pc \in {"readIntent", "checkOrphan", "intent", "recheck", "post"} =>
       auth[p].id = Absent
  /\ auth[p].pc \in {"readObservation", "readLegacy"} => auth[p].id # Absent
  /\ auth[p].pc = "intent" =>
       pub[p].name = IntentName(Key(p)) /\ pub[p].bytes = auth[p].intent
  /\ auth[p].pc \in {"await", "report", "readCompatible", "compatible", "publish"} =>
       /\ auth[p].report \in Report
       /\ auth[p].report.receipt.intent = auth[p].intent
       /\ auth[p].report.receipt.id \in {Absent, auth[p].id}
  /\ auth[p].pc \in {"await", "report"} => auth[p].report.receipt.id = auth[p].id
  /\ auth[p].pc = "report" =>
       pub[p].name = OwnReportName(p) /\ pub[p].bytes = auth[p].report
  /\ auth[p].pc = "compatible" =>
       pub[p].name = OwnCompatibleName(p) /\ pub[p].bytes = auth[p].report.receipt

(* What a command has seen in the ledger: a submit its own intent, and who *)
(* goes by a report this report, then the receipt.                         *)
Seen(p) ==
  /\ auth[p].id = Absent /\ auth[p].pc \in {"recheck", "post", "await", "report"} =>
       entry[IntentName(Key(p))] = auth[p].intent
  /\ auth[p].pc \in {"readCompatible", "compatible", "publish"} =>
       entry[OwnReportName(p)] = auth[p].report
  /\ auth[p].pc = "publish" => entry[OwnCompatibleName(p)] = auth[p].report.receipt

(* The right to the POST of k, as Holds and Ready for the older submit.    *)
AuthHolds(p, k) ==
  /\ auth[p].marker = k
  /\ \/ auth[p].pc \in {"recheck", "post"}
     \/ auth[p].pc = "intent" /\ pub[p].step \in Installed

AuthReady(p) ==
  /\ auth[p].pc \in {"recheck", "post"} =>
       {MarkerName, IntentName(auth[p].marker)} \subseteq durable
  /\ auth[p].pc = "intent" /\ pub[p].step = "CommittedDurable" => MarkerName \in durable

(* Nobody holds the right beside an authenticated submit, or after a POST. *)
AuthOneHolder ==
  \A p, q \in Proc, k \in Marker :
    AuthHolds(p, k) => (AuthHolds(q, k) => p = q) /\ ~Holds(q, k)

AuthSpent == \A k \in Marker : posts[k] = 1 => \A p \in Proc : ~AuthHolds(p, k)

QInv ==
  /\ LInv
  /\ AuthTypeOK
  /\ ReportKinds
  /\ \A p \in Proc : AuthShape(p) /\ Seen(p) /\ AuthReady(p)
  /\ AuthOneHolder
  /\ AuthSpent

(* p has sent the package of k and still owes the record of the answer.    *)
AuthOwes(p, k) == auth[p].marker = k /\ auth[p].id = Absent /\ auth[p].pc \in {"await", "report"}

(* The type of an authenticated command's locals.                          *)
AuthLocals == [pc     : AuthPc,
               marker : Marker \cup {Absent},
               intent : Intent \cup {Absent},
               id     : AuthId \cup {Absent},
               policy : Policy \cup {Absent},
               report : Report \cup {Absent}]

USE IdAssumption, AuthAssumption

(* The reports have names of their own.                                    *)
LEMMA ReportNames ==
  /\ \A k \in Marker, r \in AuthId \cup {Absent} :
       /\ ReportName(k, r) \in Name /\ ReportName(k, r) # MarkerName
       /\ CompatibleName(k, r) \in Name /\ CompatibleName(k, r) # MarkerName
  /\ \A k, l \in Marker, r \in AuthId \cup {Absent} :
       /\ ReportName(k, r) # IntentName(l) /\ ReportName(k, r) # ResultName(l)
       /\ CompatibleName(k, r) # IntentName(l)
  /\ \A k, l \in Marker, r \in AuthId \cup {Absent}, s \in ReconId :
       ReportName(k, r) # ReconciliationName(l, s)
  /\ \A k, l \in Marker, r, s \in AuthId \cup {Absent} :
       /\ ReportName(k, r) # CompatibleName(l, s)
       /\ ReportName(k, r) = ReportName(l, s) => k = l /\ r = s
       /\ CompatibleName(k, r) = CompatibleName(l, s) => k = l /\ r = s
<1>1. \A k \in Marker, r \in AuthId \cup {Absent} : ReportName(k, r) \in Name
  BY DEF AuthName
<1>2. \A k, l \in Marker, r, s \in AuthId \cup {Absent} :
        ReportName(k, r) = ReportName(l, s) => k = l /\ r = s
  BY DEF ReportName
<1>3. /\ \A k, l \in Marker, r \in AuthId \cup {Absent} :
            /\ ReportName(k, r) # IntentName(l) /\ ReportName(k, r) # ResultName(l)
            /\ ReportName(k, r) # MarkerName
      /\ \A k, l \in Marker, r \in AuthId \cup {Absent}, s \in ReconId :
            ReportName(k, r) # ReconciliationName(l, s)
  BY DEF ReportName, MarkerName, IntentName, ResultName, ReconciliationName
<1>4. \A k, l \in Marker, r, s \in ReconId :
        ReconciliationName(k, r) = ReconciliationName(l, s) => k = l /\ r = s
  BY DEF ReconciliationName
<1>5. \A k \in Marker, r \in AuthId \cup {Absent} :
        /\ r = Absent => CompatibleName(k, r) = ResultName(k)
        /\ r # Absent => CompatibleName(k, r) = ReconciliationName(k, r) /\ r \in ReconId
  BY DEF CompatibleName
<1>6. ASSUME NEW k \in Marker, NEW l \in Marker, NEW r \in AuthId \cup {Absent}
      PROVE  /\ CompatibleName(k, r) \in Name /\ CompatibleName(k, r) # MarkerName
             /\ CompatibleName(k, r) # IntentName(l)
  <2>1. CASE r = Absent
    BY <2>1, <1>5, DistinctNames
  <2>2. CASE r # Absent
    BY <2>2, <1>5, DistinctNames
  <2>3. QED
    BY <2>1, <2>2
<1>7. ASSUME NEW k \in Marker, NEW l \in Marker, NEW r \in AuthId \cup {Absent},
             NEW s \in AuthId \cup {Absent}
      PROVE  /\ ReportName(k, r) # CompatibleName(l, s)
             /\ CompatibleName(k, r) = CompatibleName(l, s) => k = l /\ r = s
  <2>1. CASE s = Absent
    <3>1. CompatibleName(l, s) = ResultName(l)
      BY <2>1, <1>5
    <3>2. CASE r = Absent
      BY <2>1, <3>1, <3>2, <1>3, <1>5, DistinctNames
    <3>3. CASE r # Absent
      BY <2>1, <3>1, <3>3, <1>3, <1>5, DistinctNames
    <3>4. QED
      BY <3>2, <3>3
  <2>2. CASE s # Absent
    <3>1. CompatibleName(l, s) = ReconciliationName(l, s) /\ s \in ReconId
      BY <2>2, <1>5
    <3>2. CASE r = Absent
      BY <3>1, <3>2, <1>3, <1>5, DistinctNames
    <3>3. CASE r # Absent
      BY <3>1, <3>3, <1>3, <1>4, <1>5
    <3>4. QED
      BY <3>2, <3>3
  <2>3. QED
    BY <2>1, <2>2
<1>8. QED
  BY <1>1, <1>2, <1>3, <1>6, <1>7

(* Reports and receipts of the authenticated commands can be published.    *)
LEMMA ReportRecords == Report \subseteq Bytes
BY DEF AuthBytes

(* persist_no_replace_with_guards in its two steps.                        *)
LEMMA TwoSteps ==
  ASSUME PubInv, NEW p \in Proc, NEW ok \in BOOLEAN, Install(p, ok) \/ Complete(p, ok)
  PROVE  /\ PubInv'
         /\ OnlyMoves(p)
         /\ pub[p].step \in {"staged", "installed"}
         /\ durable \subseteq durable'
         /\ pub'[p].step = "CommittedDurable" => durable' = Visible
         /\ pub'[p].step \in Installed /\ pub[p].step \notin Installed =>
              entry[pub[p].name] = Absent
         /\ \/ entry' = entry
            \/ /\ pub'[p].step = "installed" /\ entry[pub[p].name] = Absent
               /\ entry' = [entry EXCEPT ![pub[p].name] = pub[p].bytes]
<1>0. /\ durable \subseteq Visible /\ durable \subseteq Name
      /\ pub \in [Proc -> Publication] /\ entry \in [Name -> Bytes \cup {Absent}]
  BY DEF PubInv, PubTypeOK, DurableIsVisible, Visible
<1>1. CASE Install(p, ok) /\ ok /\ entry[pub[p].name] = Absent
  <2>1. /\ pub[p].step = "staged" /\ pub' = [pub EXCEPT ![p].step = "installed"]
        /\ entry' = [entry EXCEPT ![pub[p].name] = pub[p].bytes] /\ durable' = durable
    BY <1>1 DEF Install
  <2>2. OnlyMoves(p) /\ pub'[p].step = "installed"
    BY <2>1, <1>0 DEF OnlyMoves, Publication, PubStep
  <2>3. PubInv'
    BY <1>1, <2>1, LinkInv
  <2>4. QED
    BY <1>1, <2>1, <2>2, <2>3
<1>2. CASE Install(p, ok) /\ ~(ok /\ entry[pub[p].name] = Absent)
  <2>1. /\ pub[p].step = "staged" /\ entry' = entry /\ durable' = durable
        /\ pub' = [pub EXCEPT ![p].step = IF ok THEN "AlreadyExists" ELSE "Failed"]
    BY <1>2 DEF Install
  <2>2. /\ OnlyMoves(p) /\ pub'[p].step \in {"AlreadyExists", "Failed"}
        /\ pub'[p].step = "AlreadyExists" => entry[pub[p].name] # Absent
    BY <1>0, <1>2, <2>1 DEF OnlyMoves, Publication, PubStep, Outcome
  <2>3. PubInv'
    BY <1>0, <2>1, <2>2, StepInv DEF Installed
  <2>4. QED
    BY <2>1, <2>2, <2>3 DEF Installed
<1>3. CASE Complete(p, ok)
  <2>1. /\ pub[p].step = "installed" /\ entry' = entry /\ durable' \in {durable, Visible}
        /\ \/ pub' = [pub EXCEPT ![p].step = "CommittedDurable"] /\ durable' = Visible
           \/ pub' = [pub EXCEPT ![p].step = "CommittedButCompletionFailed"]
    BY <1>3 DEF Complete
  <2>2. /\ OnlyMoves(p) /\ pub'[p].step \in {"CommittedDurable", "CommittedButCompletionFailed"}
        /\ pub'[p].step = "CommittedDurable" => durable' = Visible
    BY <1>0, <2>1 DEF OnlyMoves, Publication, PubStep, Outcome
  <2>3. durable \subseteq durable' /\ durable' \subseteq Visible
    BY <1>0, <2>1
  <2>4. pub[p].name \in Visible
    BY <2>1 DEF PubInv, InstalledIsVisible, BusyHasRecord, Visible, Installed
  <2>5. PubInv'
    BY <2>1, <2>2, <2>3, <2>4, StepInv DEF Installed
  <2>6. QED
    BY <2>1, <2>2, <2>3, <2>5 DEF Installed
<1>4. QED
  BY <1>1, <1>2, <1>3

(* Who holds the right to the POST of k has announced it.                  *)
LEMMA HolderIsAnnounced ==
  ASSUME LInv, NEW p \in Proc, NEW k \in Marker, Holds(p, k)
  PROVE  entry[IntentName(k)] # Absent
<1>1. CASE inv[p].pc \in {"recheck", "post"}
  BY <1>1 DEF LInv, PubInv, Ready, Holds, DurableIsVisible
<1>2. CASE inv[p].pc = "intent" /\ pub[p].step \in Installed
  <2>1. pub[p].name = IntentName(k) /\ pub[p].bytes \in Bytes
    BY <1>2 DEF LInv, PubInv, Shape, Holds, BusyHasRecord, Installed
  <2>2. QED
    BY <1>2, <2>1 DEF LInv, PubInv, InstalledIsVisible
<1>3. QED
  BY <1>1, <1>2 DEF Holds

LEMMA AuthHolderIsAnnounced ==
  ASSUME QInv, NEW p \in Proc, NEW k \in Marker, AuthHolds(p, k)
  PROVE  entry[IntentName(k)] # Absent
<1>1. CASE auth[p].pc \in {"recheck", "post"}
  BY <1>1 DEF QInv, LInv, PubInv, AuthReady, AuthHolds, DurableIsVisible
<1>2. CASE auth[p].pc = "intent" /\ pub[p].step \in Installed
  <2>1. pub[p].name = IntentName(k) /\ pub[p].bytes \in Bytes
    BY <1>2 DEF QInv, LInv, PubInv, AuthShape, AuthHolds, BusyHasRecord, Installed
  <2>2. QED
    BY <1>2, <2>1 DEF QInv, LInv, PubInv, InstalledIsVisible
<1>3. QED
  BY <1>1, <1>2 DEF AuthHolds

(* Only linkat makes a holder, and only where the intent was missing.      *)
LEMMA LinkMakesHolder ==
  ASSUME LInv, NEW p \in Proc, LedgerPublicationStep(p),
         NEW q \in Proc, NEW k \in Marker, Holds(q, k)', ~Holds(q, k)
  PROVE  entry[IntentName(k)] = Absent
<1>0. pub \in [Proc -> Publication] /\ PubInv /\ Shape(p)
  BY DEF LInv, PubInv, PubTypeOK
<1>1. PICK ok \in BOOLEAN : PublicationStep(p, ok)
  BY DEF LedgerPublicationStep, CommitGuard
<1>2. OnlyMoves(p) /\ inv' = inv /\ inv[p].pc \in PublishingPc
  BY <1>0, <1>1, PublicationStepEffect DEF LedgerPublicationStep
<1>3. q = p
  BY <1>2 DEF Holds, OnlyMoves
<1>4. inv[p].pc = "intent" /\ inv[p].marker = k /\ pub'[p].step \in Installed
        /\ pub[p].step \notin Installed
  BY <1>2, <1>3 DEF Holds, PublishingPc
<1>5. entry[pub[p].name] = Absent
  BY <1>0, <1>1, <1>4
     DEF PublicationStep, BeforeInstall, Linkat, LinkatError, AfterInstall,
         SyncDirectory, SyncDirectoryError, Publication, Installed
<1>6. QED
  BY <1>0, <1>4, <1>5 DEF Shape
-----------------------------------------------------------------------------
(* A step of p's authenticated command that touches no record and makes no  *)
(* POST: the locals fit the new step, no right to a POST and no debt of its *)
(* answer appears, and an answer is awaited only where there is none yet.   *)
AuthMoves(p) ==
  /\ inv[p].pc = "idle"
  /\ UNCHANGED <<entry, durable, ledgerVars>>
  /\ PubInv'
  /\ auth' \in [Proc -> AuthLocals]
  /\ \A q \in Proc \ {p} : auth'[q] = auth[q] /\ pub'[q] = pub[q]
  /\ AuthShape(p)' /\ Seen(p)' /\ AuthReady(p)'
  /\ \A k \in Marker : /\ AuthHolds(p, k)' => AuthHolds(p, k)
                       /\ AuthOwes(p, k)' => AuthOwes(p, k)
  /\ auth'[p].pc \in {"await", "report"} =>
       \/ auth[p].pc = "await" /\ auth'[p].intent = auth[p].intent /\ auth'[p].id = auth[p].id
       \/ entry[CompatibleName(auth'[p].intent.key, auth'[p].id)] = Absent
  /\ \/ shown' = shown
     \/ auth[p].pc = "publish" /\ shown' = shown \cup {auth[p].report}

(* What the invariant says of the locals and of the ledger.                *)
LEMMA AuthFacts ==
  ASSUME QInv
  PROVE  /\ auth \in [Proc -> AuthLocals] /\ pub \in [Proc -> Publication]
         /\ entry \in [Name -> Bytes \cup {Absent}] /\ durable \subseteq Name
         /\ inv \in [Proc -> Locals] /\ shown \subseteq Report /\ now \in 0..MaxTime
         /\ LInv /\ PubInv /\ EntryKinds /\ ReportKinds
         /\ \A p \in Proc : AuthShape(p) /\ Seen(p) /\ AuthReady(p)
         /\ \A p \in Proc : auth[p].pc # "idle" => inv[p].pc = "idle" /\ Key(p) \in Marker
BY DEF QInv, LInv, AuthTypeOK, TypeOK, PubInv, PubTypeOK, AuthLocals, Locals, AuthShape, Key, Intent

(* The three ways the locals change.                                       *)
LEMMA GotoLocals ==
  ASSUME auth \in [Proc -> AuthLocals], NEW p \in Proc, NEW pc \in AuthPc, AuthGoto(p, pc)
  PROVE  /\ auth' \in [Proc -> AuthLocals] /\ \A q \in Proc \ {p} : auth'[q] = auth[q]
         /\ auth'[p].pc = pc /\ auth'[p].marker = auth[p].marker
         /\ auth'[p].intent = auth[p].intent /\ auth'[p].id = auth[p].id
         /\ auth'[p].policy = auth[p].policy /\ auth'[p].report = auth[p].report
BY DEF AuthGoto, AuthLocals

LEMMA ExitLocals ==
  ASSUME auth \in [Proc -> AuthLocals], NEW p \in Proc, AuthExit(p)
  PROVE  /\ auth' \in [Proc -> AuthLocals] /\ \A q \in Proc \ {p} : auth'[q] = auth[q]
         /\ auth'[p].pc = "idle"
BY DEF AuthExit, AuthLocals, IdleAuth, AuthPc

TakesUp(p, pc, report) ==
  /\ auth' \in [Proc -> AuthLocals] /\ \A q \in Proc \ {p} : auth'[q] = auth[q]
  /\ auth'[p].pc = pc /\ auth'[p].marker = auth[p].marker
  /\ auth'[p].intent = auth[p].intent /\ auth'[p].id = auth[p].id
  /\ auth'[p].policy = auth[p].policy /\ auth'[p].report = report

LEMMA ReportLocals ==
  ASSUME auth \in [Proc -> AuthLocals], NEW p \in Proc, NEW pc \in AuthPc, NEW report \in Report,
         auth' = [auth EXCEPT ![p].pc = pc, ![p].report = report]
  PROVE  TakesUp(p, pc, report)
<1>1. auth'[p] = [auth[p] EXCEPT !.pc = pc, !.report = report] /\ auth[p] \in AuthLocals
  OBVIOUS
<1>2. /\ auth'[p].pc = pc /\ auth'[p].marker = auth[p].marker
      /\ auth'[p].intent = auth[p].intent /\ auth'[p].id = auth[p].id
      /\ auth'[p].policy = auth[p].policy /\ auth'[p].report = report
  BY <1>1 DEF AuthLocals
<1>3. auth'[p] \in AuthLocals
  BY <1>1 DEF AuthLocals
<1>4. QED
  BY <1>2, <1>3 DEF TakesUp

(* The directory is left alone.                                            *)
LEMMA PubKept ==
  ASSUME PubInv, UNCHANGED <<entry, durable, pub>> PROVE PubInv'
BY DEF PubInv, PubTypeOK, BusyHasRecord, InstalledIsVisible, DurableIsVisible, OneWinner,
       OutcomeIsTruthful

(* A command ends.                                                         *)
LEMMA AuthEnds ==
  ASSUME QInv, NEW p \in Proc, inv[p].pc = "idle", AuthExit(p), Take(p) \/ pub' = pub,
         UNCHANGED <<entry, durable, ledgerVars>>,
         shown' = shown \/ (auth[p].pc = "publish" /\ shown' = shown \cup {auth[p].report})
  PROVE  AuthMoves(p)
<1>1. /\ auth' \in [Proc -> AuthLocals] /\ auth'[p].pc = "idle"
      /\ \A q \in Proc \ {p} : auth'[q] = auth[q]
  BY AuthFacts, ExitLocals
<1>2. PubInv' /\ \A q \in Proc \ {p} : pub'[q] = pub[q]
  <2>1. CASE Take(p)
    BY <2>1, AuthFacts, TakeInv DEF Take
  <2>2. CASE pub' = pub
    BY <2>2, AuthFacts, PubKept
  <2>3. QED
    BY <2>1, <2>2
<1>3. AuthShape(p)' /\ Seen(p)' /\ AuthReady(p)'
  BY <1>1 DEF AuthShape, Seen, AuthReady, ledgerVars
<1>4. QED
  BY <1>1, <1>2, <1>3 DEF AuthMoves, AuthHolds, AuthOwes

(* The rest of the system is not disturbed by such a step.                 *)
LEMMA AuthMovesQInv ==
  ASSUME QInv, NEW p \in Proc, AuthMoves(p) PROVE QInv'
<1>0. /\ entry' = entry /\ durable' = durable /\ inv' = inv /\ posts' = posts
      /\ UNCHANGED <<now, admitted, outputs, linkedAt>> /\ inv[p].pc = "idle"
      /\ \A q \in Proc \ {p} : auth'[q] = auth[q] /\ pub'[q] = pub[q]
      /\ PubInv' /\ auth' \in [Proc -> AuthLocals]
  BY DEF AuthMoves, ledgerVars
<1>1. LInv'
  <2>1. TypeOK'
    BY <1>0, AuthFacts DEF LInv, TypeOK, PubInv
  <2>2. Shape(p)' /\ Ready(p)' /\ \A k \in Marker : ~Holds(p, k)'
    BY <1>0 DEF Shape, Ready, Holds, SubmitPc, ReconcilePc
  <2>3. QED
    BY <1>0, <2>1, <2>2, AuthFacts, LocalStep
<1>2. AuthTypeOK'
  <2>1. shown' \subseteq Report
    BY AuthFacts DEF AuthMoves, AuthShape
  <2>2. QED
    BY <1>0, <1>1, <2>1 DEF LInv, AuthTypeOK, AuthLocals
<1>3. ReportKinds'
  BY <1>0 DEF QInv, ReportKinds
<1>4. ASSUME NEW q \in Proc PROVE AuthShape(q)' /\ Seen(q)' /\ AuthReady(q)'
  <2>1. CASE q = p
    BY <2>1 DEF AuthMoves
  <2>2. CASE q # p
    BY <2>2, <1>0, AuthFacts
       DEF AuthShape, Seen, AuthReady, Key, OwnReportName, OwnCompatibleName
  <2>3. QED
    BY <2>1, <2>2
<1>5. ASSUME NEW q \in Proc, NEW k \in Marker
      PROVE  (AuthHolds(q, k)' => AuthHolds(q, k)) /\ (Holds(q, k)' => Holds(q, k))
  <2>1. CASE q = p
    BY <2>1, <1>0 DEF AuthMoves, Holds
  <2>2. CASE q # p
    BY <2>2, <1>0 DEF AuthHolds, Holds
  <2>3. QED
    BY <2>1, <2>2
<1>6. AuthOneHolder' /\ AuthSpent'
  BY <1>0, <1>5 DEF QInv, AuthOneHolder, AuthSpent
<1>7. QED
  BY <1>1, <1>2, <1>3, <1>4, <1>6 DEF QInv

(* Submit, up to the POST.                                                 *)
LEMMA AuthSubmitMoves ==
  ASSUME QInv, NEW p \in Proc,
         \/ \E x \in Nonce, policy \in Policy : AuthSubmitStart(p, x, policy)
         \/ AuthSubmitReadIntent(p) \/ AuthSubmitStageIntent(p)
         \/ AuthSubmitIntentOutcome(p) \/ AuthSubmitRecheck(p)
  PROVE  AuthMoves(p)
<1>0. /\ auth \in [Proc -> AuthLocals] /\ pub \in [Proc -> Publication]
      /\ PubInv /\ EntryKinds /\ AuthShape(p) /\ Seen(p) /\ AuthReady(p)
      /\ auth[p].pc # "idle" => inv[p].pc = "idle" /\ Key(p) \in Marker
  BY AuthFacts
<1>1. ASSUME NEW x \in Nonce, NEW policy \in Policy, AuthSubmitStart(p, x, policy)
      PROVE  AuthMoves(p)
  <2> DEFINE m == entry[MarkerName]
             intent == [key |-> m, nonce |-> x]
             locals == [IdleAuth EXCEPT !.pc = "readIntent", !.marker = m, !.intent = intent,
                                        !.policy = policy]
  <2>1. m \in Marker /\ inv[p].pc = "idle"
    BY <1>0, <1>1 DEF AuthSubmitStart, EntryKinds
  <2>2. intent \in Intent /\ intent.key = m
    BY <2>1 DEF Intent
  <2>3. auth' = [auth EXCEPT ![p] = locals] /\ UNCHANGED <<entry, durable, ledgerVars, shown, pub>>
    BY <1>1 DEF AuthSubmitStart, LedgerKept
  <2> HIDE DEF intent
  <2>4. /\ locals \in AuthLocals /\ locals.pc = "readIntent" /\ locals.marker = m
        /\ locals.intent = intent /\ locals.policy = policy /\ locals.id = Absent
    BY <2>1, <2>2 DEF IdleAuth, AuthLocals, AuthPc
  <2> HIDE DEF locals
  <2>5. auth' \in [Proc -> AuthLocals] /\ auth'[p] = locals
        /\ \A q \in Proc \ {p} : auth'[q] = auth[q]
    BY <1>0, <2>3, <2>4
  <2>6. PubInv'
    BY <1>0, <2>3, PubKept
  <2>7. AuthShape(p)' /\ Seen(p)' /\ AuthReady(p)'
    BY <2>1, <2>2, <2>3, <2>4, <2>5 DEF AuthShape, Seen, AuthReady, Key, ledgerVars
  <2>8. \A k \in Marker : ~AuthHolds(p, k)' /\ ~AuthOwes(p, k)'
    BY <2>4, <2>5 DEF AuthHolds, AuthOwes
  <2>9. QED
    BY <2>1, <2>3, <2>4, <2>5, <2>6, <2>7, <2>8 DEF AuthMoves
<1>2. CASE AuthSubmitReadIntent(p)
  <2>1. /\ auth[p].pc = "readIntent" /\ UNCHANGED <<entry, durable, ledgerVars, shown, pub>>
        /\ \/ AuthExit(p)
           \/ \E pc \in {"checkOrphan", "readReport"} : AuthGoto(p, pc)
    BY <1>2 DEF AuthSubmitReadIntent, LedgerKept
  <2>2. ASSUME NEW pc \in {"checkOrphan", "readReport"}, AuthGoto(p, pc) PROVE AuthMoves(p)
    <3>1. /\ auth' \in [Proc -> AuthLocals] /\ \A q \in Proc \ {p} : auth'[q] = auth[q]
          /\ auth'[p].pc = pc /\ auth'[p].marker = auth[p].marker
          /\ auth'[p].intent = auth[p].intent /\ auth'[p].id = auth[p].id
          /\ auth'[p].policy = auth[p].policy
      BY <1>0, <2>2, GotoLocals DEF AuthPc
    <3>2. AuthShape(p)' /\ Seen(p)' /\ AuthReady(p)'
      BY <1>0, <2>1, <3>1 DEF AuthShape, Seen, AuthReady, Key, ledgerVars
    <3>3. QED
      BY <1>0, <2>1, <3>1, <3>2, PubKept DEF AuthMoves, AuthHolds, AuthOwes
  <2>3. QED
    BY <1>0, <2>1, <2>2, AuthEnds
<1>3. CASE AuthSubmitStageIntent(p)
  <2>1. /\ auth[p].pc = "checkOrphan" /\ UNCHANGED <<entry, durable, ledgerVars, shown>>
        /\ \/ AuthExit(p) /\ pub' = pub
           \/ AuthGoto(p, "intent") /\ StageAs(p, IntentName(Key(p)), auth[p].intent)
    BY <1>3 DEF AuthSubmitStageIntent, LedgerKept
  <2>2. ASSUME AuthGoto(p, "intent"), StageAs(p, IntentName(Key(p)), auth[p].intent)
        PROVE  AuthMoves(p)
    <3>1. /\ auth' \in [Proc -> AuthLocals] /\ \A q \in Proc \ {p} : auth'[q] = auth[q]
          /\ auth'[p].pc = "intent" /\ auth'[p].marker = auth[p].marker
          /\ auth'[p].intent = auth[p].intent /\ auth'[p].id = auth[p].id
          /\ auth'[p].policy = auth[p].policy
      BY <1>0, <2>2, GotoLocals DEF AuthPc, AuthPublishingPc
    <3>2. IntentName(Key(p)) \in Name /\ auth[p].intent \in Bytes
      BY <1>0, <2>1, DistinctNames, LedgerRecords DEF AuthShape
    <3>3. /\ PubInv' /\ \A q \in Proc \ {p} : pub'[q] = pub[q]
          /\ pub'[p].step = "staged" /\ pub'[p].name = IntentName(Key(p))
          /\ pub'[p].bytes = auth[p].intent
      BY <1>0, <2>1, <2>2, <3>2, StageAsInv DEF StageAs
    <3>4. AuthShape(p)' /\ Seen(p)' /\ AuthReady(p)'
      BY <1>0, <2>1, <3>1, <3>3 DEF AuthShape, Seen, AuthReady, Key, ledgerVars
    <3>5. \A k \in Marker : ~AuthHolds(p, k)' /\ ~AuthOwes(p, k)'
      BY <3>1, <3>3 DEF AuthHolds, AuthOwes, Installed
    <3>6. QED
      BY <1>0, <2>1, <3>1, <3>3, <3>4, <3>5 DEF AuthMoves
  <2>3. QED
    BY <1>0, <2>1, <2>2, AuthEnds
<1>4. CASE AuthSubmitIntentOutcome(p)
  <2>1. /\ auth[p].pc = "intent" /\ UNCHANGED <<entry, durable, ledgerVars, shown>> /\ Take(p)
        /\ \/ AuthExit(p)
           \/ AuthGoto(p, "recheck") /\ pub[p].step = "CommittedDurable"
    BY <1>4 DEF AuthSubmitIntentOutcome, LedgerKept
  <2>2. ASSUME AuthGoto(p, "recheck"), pub[p].step = "CommittedDurable" PROVE AuthMoves(p)
    <3>1. /\ auth' \in [Proc -> AuthLocals] /\ \A q \in Proc \ {p} : auth'[q] = auth[q]
          /\ auth'[p].pc = "recheck" /\ auth'[p].marker = auth[p].marker
          /\ auth'[p].intent = auth[p].intent /\ auth'[p].id = auth[p].id
          /\ auth'[p].policy = auth[p].policy
      BY <1>0, <2>2, GotoLocals DEF AuthPc
    <3>2. PubInv' /\ \A q \in Proc \ {p} : pub'[q] = pub[q]
      BY <1>0, <2>1, TakeInv DEF Take
    <3>3. /\ {MarkerName, IntentName(auth[p].marker)} \subseteq durable
          /\ entry[IntentName(Key(p))] = auth[p].intent
      BY <1>0, <2>1, <2>2 DEF PubInv, OutcomeIsTruthful, AuthShape, AuthReady
    <3>4. AuthShape(p)' /\ Seen(p)' /\ AuthReady(p)'
      BY <1>0, <2>1, <3>1, <3>3 DEF AuthShape, Seen, AuthReady, Key, ledgerVars
    <3>5. \A k \in Marker : (AuthHolds(p, k)' => AuthHolds(p, k)) /\ ~AuthOwes(p, k)'
      BY <2>1, <2>2, <3>1 DEF AuthHolds, AuthOwes, Installed
    <3>6. QED
      BY <1>0, <2>1, <3>1, <3>2, <3>4, <3>5 DEF AuthMoves
  <2>3. QED
    BY <1>0, <2>1, <2>2, AuthEnds
<1>5. CASE AuthSubmitRecheck(p)
  <2>1. /\ auth[p].pc = "recheck" /\ UNCHANGED <<entry, durable, ledgerVars, shown, pub>>
        /\ AuthGoto(p, "post")
    BY <1>5 DEF AuthSubmitRecheck, LedgerKept
  <2>2. /\ auth' \in [Proc -> AuthLocals] /\ \A q \in Proc \ {p} : auth'[q] = auth[q]
        /\ auth'[p].pc = "post" /\ auth'[p].marker = auth[p].marker
        /\ auth'[p].intent = auth[p].intent /\ auth'[p].id = auth[p].id
        /\ auth'[p].policy = auth[p].policy
    BY <1>0, <2>1, GotoLocals DEF AuthPc
  <2>3. AuthShape(p)' /\ Seen(p)' /\ AuthReady(p)'
    BY <1>0, <2>1, <2>2 DEF AuthShape, Seen, AuthReady, Key, ledgerVars
  <2>4. QED
    BY <1>0, <2>1, <2>2, <2>3, PubKept DEF AuthMoves, AuthHolds, AuthOwes
<1>6. QED
  BY <1>1, <1>2, <1>3, <1>4, <1>5

(* The report of a request before its answer.                              *)
LEMMA PendingReports ==
  ASSUME QInv, NEW p \in Proc, auth[p].pc # "idle"
  PROVE  /\ PendingReport(p) \in Report
         /\ PendingReport(p).receipt.intent = auth[p].intent
         /\ PendingReport(p).receipt.id = auth[p].id
<1>0. /\ auth[p].intent \in Intent /\ auth[p].policy \in Policy /\ now \in 0..MaxTime
      /\ auth[p].id \in ReconId \cup {Absent} /\ "unknown" \in Status
  BY AuthFacts DEF AuthShape, AuthLocals
<1> DEFINE receipt == [intent |-> auth[p].intent, id |-> auth[p].id, status |-> "unknown",
                       at |-> now]
<1>1. receipt \in Receipt /\ receipt.intent = auth[p].intent /\ receipt.id = auth[p].id
  BY <1>0 DEF Receipt
<1>2. PendingReport(p) = [receipt |-> receipt, policy |-> auth[p].policy, authenticated |-> FALSE]
  BY DEF PendingReport
<1> HIDE DEF receipt
<1>3. QED
  BY <1>0, <1>1, <1>2 DEF Report

(* Reconcile, up to the GET.                                               *)
LEMMA AuthReconcileMoves ==
  ASSUME QInv, NEW p \in Proc,
         \/ \E k \in Marker, r \in AuthId, policy \in Policy : AuthReconcileStart(p, k, r, policy)
         \/ AuthReconcileGet(p)
  PROVE  AuthMoves(p)
<1>0. /\ auth \in [Proc -> AuthLocals] /\ pub \in [Proc -> Publication]
      /\ PubInv /\ EntryKinds /\ AuthShape(p) /\ Seen(p) /\ AuthReady(p)
      /\ auth[p].pc # "idle" => inv[p].pc = "idle" /\ Key(p) \in Marker
  BY AuthFacts
<1>1. ASSUME NEW l \in Marker, NEW r \in AuthId, NEW policy \in Policy,
             AuthReconcileStart(p, l, r, policy)
      PROVE  AuthMoves(p)
  <2> DEFINE intent == entry[IntentName(l)]
             locals == [IdleAuth EXCEPT !.pc = "readReport", !.id = r, !.intent = intent,
                                        !.policy = policy]
  <2>1. intent \in Intent /\ inv[p].pc = "idle" /\ r # Absent
    BY <1>0, <1>1 DEF AuthReconcileStart, EntryKinds
  <2>2. auth' = [auth EXCEPT ![p] = locals] /\ UNCHANGED <<entry, durable, ledgerVars, shown, pub>>
    BY <1>1 DEF AuthReconcileStart, LedgerKept
  <2> HIDE DEF intent
  <2>3. /\ locals \in AuthLocals /\ locals.pc = "readReport" /\ locals.id = r
        /\ locals.intent = intent /\ locals.policy = policy
    BY <2>1 DEF IdleAuth, AuthLocals, AuthPc
  <2> HIDE DEF locals
  <2>4. auth' \in [Proc -> AuthLocals] /\ auth'[p] = locals
        /\ \A q \in Proc \ {p} : auth'[q] = auth[q]
    BY <1>0, <2>2, <2>3
  <2>5. AuthShape(p)' /\ Seen(p)' /\ AuthReady(p)'
    BY <2>1, <2>2, <2>3, <2>4 DEF AuthShape, Seen, AuthReady, Key, ledgerVars
  <2>6. \A k \in Marker : ~AuthHolds(p, k)' /\ ~AuthOwes(p, k)'
    BY <2>3, <2>4 DEF AuthHolds, AuthOwes
  <2>7. QED
    BY <1>0, <2>1, <2>2, <2>3, <2>4, <2>5, <2>6, PubKept DEF AuthMoves
<1>2. CASE AuthReconcileGet(p)
  <2>1. /\ auth[p].pc = "readLegacy" /\ UNCHANGED <<entry, durable, ledgerVars, shown, pub>>
        /\ auth[p].id # Absent
    BY <1>0, <1>2 DEF AuthReconcileGet, LedgerKept, AuthShape
  <2>2. CASE AuthExit(p)
    BY <1>0, <2>1, <2>2, AuthEnds
  <2>3. CASE /\ entry[ReconciliationName(Key(p), auth[p].id)] = Absent
             /\ auth' = [auth EXCEPT ![p].pc = "await", ![p].report = PendingReport(p)]
    <3>1. PICK report \in Report :
            /\ report = PendingReport(p)
            /\ report.receipt.intent = auth[p].intent /\ report.receipt.id = auth[p].id
      BY <2>1, PendingReports
    <3>2. PICK pc \in AuthPc :
            pc = "await" /\ auth' = [auth EXCEPT ![p].pc = pc, ![p].report = report]
      BY <2>3, <3>1 DEF AuthPc
    <3>3. TakesUp(p, "await", report)
      BY <1>0, <3>2, ReportLocals
    <3>4. AuthShape(p)' /\ Seen(p)' /\ AuthReady(p)'
      BY <1>0, <2>1, <3>1, <3>3 DEF AuthShape, Seen, AuthReady, Key, TakesUp, ledgerVars
    <3>5. entry[CompatibleName(auth'[p].intent.key, auth'[p].id)] = Absent
      BY <2>1, <2>3, <3>3 DEF CompatibleName, Key, TakesUp
    <3>6. QED
      BY <1>0, <2>1, <3>3, <3>4, <3>5, PubKept DEF AuthMoves, TakesUp, AuthHolds, AuthOwes
  <2>4. QED
    BY <1>2, <2>2, <2>3 DEF AuthReconcileGet, AuthExit
<1>3. QED
  BY <1>1, <1>2

(* The answer to a request, and the outcome of its report.                 *)
LEMMA AuthAnswerMoves ==
  ASSUME QInv, NEW p \in Proc,
         (\E s \in Status, b \in BOOLEAN : AuthResponse(p, s, b)) \/ AuthReportOutcome(p)
  PROVE  AuthMoves(p)
<1>0. /\ auth \in [Proc -> AuthLocals] /\ pub \in [Proc -> Publication]
      /\ PubInv /\ AuthShape(p) /\ Seen(p) /\ AuthReady(p)
      /\ auth[p].pc # "idle" => inv[p].pc = "idle" /\ Key(p) \in Marker
  BY AuthFacts
<1>1. ASSUME NEW s \in Status, NEW b \in BOOLEAN, AuthResponse(p, s, b) PROVE AuthMoves(p)
  <2>1. /\ auth[p].pc = "await" /\ UNCHANGED <<entry, durable, ledgerVars, shown>>
        /\ inv[p].pc = "idle" /\ Key(p) \in Marker
        /\ auth[p].report \in Report /\ auth[p].report.receipt.intent = auth[p].intent
        /\ auth[p].report.receipt.id = auth[p].id /\ auth[p].id \in AuthId \cup {Absent}
    BY <1>0, <1>1 DEF AuthResponse, LedgerKept, AuthShape, AuthLocals
  <2>2. PICK report \in Report :
          /\ report.receipt.intent = auth[p].intent /\ report.receipt.id = auth[p].id
          /\ \E pc \in AuthPc :
               pc = "report" /\ auth' = [auth EXCEPT ![p].pc = pc, ![p].report = report]
          /\ StageAs(p, OwnReportName(p), report)
    <3> DEFINE receipt == [auth[p].report.receipt EXCEPT !.status = s]
               report == [auth[p].report EXCEPT !.receipt.status = s, !.authenticated = b]
    <3>1. auth[p].report.receipt \in Receipt
      BY <2>1 DEF Report
    <3>2. receipt \in Receipt /\ receipt.intent = auth[p].intent /\ receipt.id = auth[p].id
      BY <2>1, <3>1 DEF Receipt
    <3>3. report = [auth[p].report EXCEPT !.receipt = receipt, !.authenticated = b]
      BY <2>1 DEF Report
    <3>4. report \in Report /\ report.receipt = receipt
      <4> HIDE DEF receipt
      <4>1. QED
        BY <2>1, <3>2, <3>3 DEF Report
    <3>5. QED
      BY <1>1, <3>2, <3>4 DEF AuthResponse, AuthPc, AuthPublishingPc
  <2>3. TakesUp(p, "report", report)
    BY <1>0, <2>2, ReportLocals
  <2>4. OwnReportName(p) = ReportName(Key(p), auth[p].id) /\ OwnReportName(p) \in Name
    BY <2>1, ReportNames DEF OwnReportName
  <2>5. /\ PubInv' /\ \A q \in Proc \ {p} : pub'[q] = pub[q]
        /\ pub'[p].step = "staged" /\ pub'[p].name = OwnReportName(p) /\ pub'[p].bytes = report
    BY <1>0, <2>1, <2>2, <2>4, StageAsInv, ReportRecords DEF StageAs
  <2>6. AuthShape(p)' /\ Seen(p)' /\ AuthReady(p)'
    BY <1>0, <2>1, <2>2, <2>3, <2>4, <2>5
       DEF AuthShape, Seen, AuthReady, Key, OwnReportName, TakesUp, ledgerVars
  <2>7. QED
    BY <2>1, <2>3, <2>5, <2>6 DEF AuthMoves, TakesUp, AuthHolds, AuthOwes
<1>2. CASE AuthReportOutcome(p)
  <2>1. /\ auth[p].pc = "report" /\ UNCHANGED <<entry, durable, ledgerVars, shown>>
        /\ inv[p].pc = "idle" /\ Key(p) \in Marker /\ auth[p].intent \in Intent
        /\ auth[p].report \in Report /\ auth[p].report.receipt \in Receipt
        /\ auth[p].report.receipt.id \in AuthId \cup {Absent}
        /\ pub[p].name = OwnReportName(p) /\ pub[p].bytes = auth[p].report
    BY <1>0, <1>2 DEF AuthReportOutcome, LedgerKept, AuthShape, AuthLocals, Report
  <2>2. CASE AuthExit(p) /\ Take(p)
    BY <2>1, <2>2, AuthEnds
  <2>3. CASE /\ Recorded(p) /\ AuthGoto(p, "compatible")
             /\ StageAs(p, OwnCompatibleName(p), auth[p].report.receipt)
    <3>1. entry[OwnReportName(p)] = auth[p].report
      BY <1>0, <2>1, <2>3 DEF Recorded, PubInv, OutcomeIsTruthful
    <3>2. /\ auth' \in [Proc -> AuthLocals] /\ \A q \in Proc \ {p} : auth'[q] = auth[q]
          /\ auth'[p].pc = "compatible" /\ auth'[p].marker = auth[p].marker
          /\ auth'[p].intent = auth[p].intent /\ auth'[p].id = auth[p].id
          /\ auth'[p].policy = auth[p].policy /\ auth'[p].report = auth[p].report
      BY <1>0, <2>3, GotoLocals DEF AuthPc, AuthPublishingPc
    <3>3. OwnCompatibleName(p) \in Name /\ auth[p].report.receipt \in Bytes
      BY <2>1, ReportNames, LedgerRecords DEF OwnCompatibleName
    <3>4. /\ PubInv' /\ \A q \in Proc \ {p} : pub'[q] = pub[q]
          /\ pub'[p].step = "staged" /\ pub'[p].name = OwnCompatibleName(p)
          /\ pub'[p].bytes = auth[p].report.receipt
      BY <1>0, <2>1, <2>3, <3>3, StageAsInv DEF StageAs
    <3>5. AuthShape(p)' /\ Seen(p)' /\ AuthReady(p)'
      BY <1>0, <2>1, <3>1, <3>2, <3>4
         DEF AuthShape, Seen, AuthReady, Key, OwnReportName, OwnCompatibleName, ledgerVars
    <3>6. QED
      BY <2>1, <3>2, <3>4, <3>5 DEF AuthMoves, AuthHolds, AuthOwes
  <2>4. QED
    BY <1>2, <2>2, <2>3 DEF AuthReportOutcome
<1>3. QED
  BY <1>1, <1>2

(* A report found is for the name it is found under.                       *)
LEMMA ReadReportMoves ==
  ASSUME QInv, NEW p \in Proc, ReadSubmissionReport(p) \/ ReadObservationReport(p)
  PROVE  AuthMoves(p)
<1>0. /\ auth \in [Proc -> AuthLocals] /\ PubInv /\ AuthShape(p) /\ Seen(p) /\ AuthReady(p)
      /\ ReportKinds
      /\ auth[p].pc \in {"readReport", "readObservation"}
      /\ inv[p].pc = "idle" /\ Key(p) \in Marker
      /\ UNCHANGED <<entry, durable, ledgerVars, shown, pub>>
  BY AuthFacts DEF ReadSubmissionReport, ReadObservationReport, LedgerKept
<1>1. PICK r \in {Absent, auth[p].id}, missing \in {"idle", "readObservation", "readLegacy"} :
        /\ ReadReport(p, ReportName(Key(p), r), missing)
        /\ missing # "idle" => auth[p].id # Absent
  BY <1>0 DEF ReadSubmissionReport, ReadObservationReport, AuthShape
<1> DEFINE report == entry[ReportName(Key(p), r)]
<1>2. \/ AuthExit(p)
      \/ missing # "idle" /\ AuthGoto(p, missing)
      \/ /\ report # Absent /\ ReportParses(p, report)
         /\ auth' = [auth EXCEPT ![p].pc = "readCompatible", ![p].report = report]
  BY <1>1 DEF ReadReport
<1> HIDE DEF report
<1>3. CASE AuthExit(p)
  BY <1>0, <1>3, AuthEnds
<1>4. CASE missing # "idle" /\ AuthGoto(p, missing)
  <2>1. /\ auth' \in [Proc -> AuthLocals] /\ \A q \in Proc \ {p} : auth'[q] = auth[q]
        /\ auth'[p].pc = missing /\ auth'[p].marker = auth[p].marker
        /\ auth'[p].intent = auth[p].intent /\ auth'[p].id = auth[p].id
        /\ auth'[p].policy = auth[p].policy
    BY <1>0, <1>4, GotoLocals DEF AuthPc
  <2>2. AuthShape(p)' /\ Seen(p)' /\ AuthReady(p)'
    BY <1>0, <1>1, <1>4, <2>1 DEF AuthShape, Seen, AuthReady, Key, ledgerVars
  <2>3. QED
    BY <1>0, <1>4, <2>1, <2>2, PubKept DEF AuthMoves, AuthHolds, AuthOwes
<1>5. CASE /\ report # Absent /\ ReportParses(p, report)
           /\ auth' = [auth EXCEPT ![p].pc = "readCompatible", ![p].report = report]
  <2>1. r \in AuthId \cup {Absent}
    BY <1>0 DEF AuthLocals
  <2>2. /\ report \in Report /\ report.receipt.id = r /\ report.receipt.intent = auth[p].intent
        /\ entry[ReportName(Key(p), r)] = report
    BY <1>0, <1>5, <2>1 DEF ReportKinds, ReportParses, report
  <2>3. TakesUp(p, "readCompatible", report)
    BY <1>0, <1>5, <2>2, ReportLocals DEF AuthPc
  <2>4. AuthShape(p)' /\ Seen(p)' /\ AuthReady(p)'
    BY <1>0, <2>2, <2>3
       DEF AuthShape, Seen, AuthReady, Key, OwnReportName, TakesUp, ledgerVars
  <2>5. QED
    BY <1>0, <2>3, <2>4, PubKept DEF AuthMoves, TakesUp, AuthHolds, AuthOwes
<1>6. QED
  BY <1>2, <1>3, <1>4, <1>5

(* The receipt of a report is checked or written, then the report shown.   *)
LEMMA CompatibleMoves ==
  ASSUME QInv, NEW p \in Proc, ReadCompatible(p) \/ CompatibleOutcome(p)
  PROVE  AuthMoves(p)
<1>0. /\ auth \in [Proc -> AuthLocals] /\ pub \in [Proc -> Publication]
      /\ PubInv /\ AuthShape(p) /\ Seen(p) /\ AuthReady(p)
      /\ auth[p].pc \in {"readCompatible", "compatible"}
      /\ inv[p].pc = "idle" /\ Key(p) \in Marker
      /\ UNCHANGED <<entry, durable, ledgerVars, shown>>
  BY AuthFacts DEF ReadCompatible, CompatibleOutcome, LedgerKept
<1>1. /\ auth[p].report \in Report /\ auth[p].report.receipt \in Receipt
      /\ auth[p].report.receipt.id \in AuthId \cup {Absent}
  BY <1>0 DEF AuthShape, AuthLocals, Report
(* Once the receipt is known to be in place.                               *)
<1>2. ASSUME entry[OwnCompatibleName(p)] = auth[p].report.receipt, AuthGoto(p, AfterCompatible(p)),
             Take(p) \/ pub' = pub
      PROVE  AuthMoves(p)
  <2>1. PICK pc \in {"readObservation", "publish"} :
          AuthGoto(p, pc) /\ (pc = "readObservation" => auth[p].id # Absent)
    BY <1>2 DEF AfterCompatible
  <2>2. /\ auth' \in [Proc -> AuthLocals] /\ \A q \in Proc \ {p} : auth'[q] = auth[q]
        /\ auth'[p].pc = pc /\ auth'[p].marker = auth[p].marker
        /\ auth'[p].intent = auth[p].intent /\ auth'[p].id = auth[p].id
        /\ auth'[p].policy = auth[p].policy /\ auth'[p].report = auth[p].report
    BY <1>0, <2>1, GotoLocals DEF AuthPc
  <2>3. PubInv' /\ \A q \in Proc \ {p} : pub'[q] = pub[q]
    <3>1. CASE Take(p)
      BY <3>1, <1>0, TakeInv DEF Take
    <3>2. CASE pub' = pub
      BY <3>2, <1>0, PubKept
    <3>3. QED
      BY <1>2, <3>1, <3>2
  <2>4. AuthShape(p)' /\ Seen(p)' /\ AuthReady(p)'
    BY <1>0, <1>1, <1>2, <2>1, <2>2
       DEF AuthShape, Seen, AuthReady, Key, OwnReportName, OwnCompatibleName, ledgerVars
  <2>5. QED
    BY <1>0, <2>1, <2>2, <2>3, <2>4 DEF AuthMoves, AuthHolds, AuthOwes
<1>3. CASE ReadCompatible(p)
  <2>1. \/ AuthExit(p) /\ pub' = pub
        \/ /\ entry[OwnCompatibleName(p)] = auth[p].report.receipt
           /\ AuthGoto(p, AfterCompatible(p)) /\ pub' = pub
        \/ AuthGoto(p, "compatible") /\ StageAs(p, OwnCompatibleName(p), auth[p].report.receipt)
    BY <1>3 DEF ReadCompatible
  <2>2. ASSUME AuthGoto(p, "compatible"), StageAs(p, OwnCompatibleName(p), auth[p].report.receipt),
               auth[p].pc = "readCompatible"
        PROVE  AuthMoves(p)
    <3>1. /\ auth' \in [Proc -> AuthLocals] /\ \A q \in Proc \ {p} : auth'[q] = auth[q]
          /\ auth'[p].pc = "compatible" /\ auth'[p].marker = auth[p].marker
          /\ auth'[p].intent = auth[p].intent /\ auth'[p].id = auth[p].id
          /\ auth'[p].policy = auth[p].policy /\ auth'[p].report = auth[p].report
      BY <1>0, <2>2, GotoLocals DEF AuthPc, AuthPublishingPc
    <3>2. OwnCompatibleName(p) \in Name /\ auth[p].report.receipt \in Bytes
      BY <1>0, <1>1, ReportNames, LedgerRecords DEF OwnCompatibleName
    <3>3. /\ PubInv' /\ \A q \in Proc \ {p} : pub'[q] = pub[q]
          /\ pub'[p].step = "staged" /\ pub'[p].name = OwnCompatibleName(p)
          /\ pub'[p].bytes = auth[p].report.receipt
      BY <1>0, <2>2, <3>2, StageAsInv DEF StageAs
    <3>4. AuthShape(p)' /\ Seen(p)' /\ AuthReady(p)'
      BY <1>0, <2>2, <3>1, <3>3
         DEF AuthShape, Seen, AuthReady, Key, OwnReportName, OwnCompatibleName, ledgerVars
    <3>5. QED
      BY <1>0, <3>1, <3>3, <3>4 DEF AuthMoves, AuthHolds, AuthOwes
  <2>3. QED
    BY <1>0, <1>2, <1>3, <2>1, <2>2, AuthEnds DEF ReadCompatible
<1>4. CASE CompatibleOutcome(p)
  <2>1. Recorded(p) => entry[OwnCompatibleName(p)] = auth[p].report.receipt
    BY <1>0, <1>4 DEF CompatibleOutcome, AuthShape, Recorded, PubInv, OutcomeIsTruthful
  <2>2. QED
    BY <1>0, <1>2, <1>4, <2>1, AuthEnds DEF CompatibleOutcome
<1>5. QED
  BY <1>3, <1>4

(* Every step of an authenticated command but its publications and its     *)
(* POST.                                                                   *)
LEMMA AuthStepsMove ==
  ASSUME QInv, NEW p \in Proc,
         \/ AuthStart(p)
         \/ AuthContinue(p) /\ ~AuthPublishing(p) /\ ~AuthSubmitPost(p)
         \/ AuthKilled(p)
  PROVE  AuthMoves(p)
<1>0. auth[p].pc # "idle" => inv[p].pc = "idle"
  BY AuthFacts
<1>1. CASE AuthStart(p)
  BY <1>1, AuthSubmitMoves, AuthReconcileMoves DEF AuthStart
<1>2. CASE AuthKilled(p)
  BY <1>0, <1>2, AuthEnds DEF AuthKilled, LedgerKept
<1>3. CASE AuthPublish(p)
  BY <1>0, <1>3, AuthEnds DEF AuthPublish, pubVars
<1>4. CASE /\ AuthContinue(p) /\ ~AuthPublishing(p) /\ ~AuthSubmitPost(p)
           /\ ~AuthPublish(p)
  BY <1>4, AuthSubmitMoves, AuthReconcileMoves, AuthAnswerMoves, ReadReportMoves, CompatibleMoves
     DEF AuthContinue
<1>5. QED
  BY <1>1, <1>2, <1>3, <1>4
-----------------------------------------------------------------------------
(* What a publication of an authenticated command does: at most it adds    *)
(* the record that AuthShape describes.                                    *)
LEMMA AuthPublishingEffect ==
  ASSUME QInv, NEW p \in Proc, AuthPublishing(p)
  PROVE  /\ UNCHANGED <<now, inv, posts, admitted, outputs, auth, shown>>
         /\ inv[p].pc = "idle" /\ auth[p].pc \in AuthPublishingPc /\ Key(p) \in Marker
         /\ auth[p].pc \in {"report", "compatible"} =>
              auth[p].report.receipt.id \in AuthId \cup {Absent}
         /\ PubInv' /\ OnlyMoves(p) /\ durable \subseteq durable'
         /\ pub[p].name \in Name /\ pub[p].bytes \in Bytes
         /\ pub'[p].step = "CommittedDurable" => durable' = Visible
         /\ pub'[p].step \in Installed /\ pub[p].step \notin Installed =>
              entry[pub[p].name] = Absent
         /\ \/ entry' = entry
            \/ /\ entry[pub[p].name] = Absent
               /\ \A n \in Name : entry'[n] = IF n = pub[p].name THEN pub[p].bytes ELSE entry[n]
         /\ \A n \in Name : entry[n] # Absent => entry'[n] = entry[n]
<1>0. /\ PubInv /\ entry \in [Name -> Bytes \cup {Absent}] /\ auth \in [Proc -> AuthLocals]
      /\ AuthShape(p) /\ (auth[p].pc # "idle" => inv[p].pc = "idle" /\ Key(p) \in Marker)
  BY AuthFacts
<1>1. /\ UNCHANGED <<now, inv, posts, admitted, outputs, auth, shown>>
      /\ auth[p].pc \in AuthPublishingPc
  BY DEF AuthPublishing, authVars
<1>2. inv[p].pc = "idle" /\ Key(p) \in Marker
  BY <1>0, <1>1 DEF AuthPublishingPc
<1>3. auth[p].pc \in {"report", "compatible"} =>
        auth[p].report.receipt.id \in AuthId \cup {Absent}
  BY <1>0 DEF AuthShape, AuthLocals
<1>4. PICK ok \in BOOLEAN : Install(p, ok) \/ Complete(p, ok)
  <2>1. AuthGuard(p) \in BOOLEAN
    BY DEF AuthGuard, Active
  <2>2. QED
    BY <2>1 DEF AuthPublishing
<1>5. /\ PubInv' /\ OnlyMoves(p) /\ durable \subseteq durable'
      /\ pub[p].step \in {"staged", "installed"}
      /\ pub'[p].step = "CommittedDurable" => durable' = Visible
      /\ pub'[p].step \in Installed /\ pub[p].step \notin Installed =>
           entry[pub[p].name] = Absent
      /\ \/ entry' = entry
         \/ /\ pub'[p].step = "installed" /\ entry[pub[p].name] = Absent
            /\ entry' = [entry EXCEPT ![pub[p].name] = pub[p].bytes]
  BY <1>0, <1>4, TwoSteps
<1>6. pub[p].name \in Name /\ pub[p].bytes \in Bytes
  BY <1>0, <1>5 DEF PubInv, BusyHasRecord
<1>7. \/ entry' = entry
      \/ /\ entry[pub[p].name] = Absent
         /\ \A n \in Name : entry'[n] = IF n = pub[p].name THEN pub[p].bytes ELSE entry[n]
  BY <1>0, <1>5, <1>6
<1>8. QED
  BY <1>1, <1>2, <1>3, <1>5, <1>6, <1>7

(* An intent, a report or a receipt is published.                          *)
LEMMA AuthPublishingQInv ==
  ASSUME QInv, NEW p \in Proc, AuthPublishing(p) PROVE QInv'
<1>0. /\ UNCHANGED <<now, inv, posts, admitted, outputs, auth, shown>>
      /\ inv[p].pc = "idle" /\ auth[p].pc \in AuthPublishingPc /\ Key(p) \in Marker
      /\ auth[p].pc \in {"report", "compatible"} =>
           auth[p].report.receipt.id \in AuthId \cup {Absent}
      /\ PubInv' /\ OnlyMoves(p) /\ durable \subseteq durable'
      /\ pub[p].name \in Name /\ pub[p].bytes \in Bytes
      /\ pub'[p].step = "CommittedDurable" => durable' = Visible
      /\ pub'[p].step \in Installed /\ pub[p].step \notin Installed =>
           entry[pub[p].name] = Absent
      /\ \/ entry' = entry
         \/ /\ entry[pub[p].name] = Absent
            /\ \A n \in Name : entry'[n] = IF n = pub[p].name THEN pub[p].bytes ELSE entry[n]
      /\ \A n \in Name : entry[n] # Absent => entry'[n] = entry[n]
  BY AuthPublishingEffect
<1>1. /\ auth \in [Proc -> AuthLocals] /\ pub \in [Proc -> Publication]
      /\ entry \in [Name -> Bytes \cup {Absent}] /\ LInv /\ PubInv /\ EntryKinds /\ ReportKinds
      /\ \A q \in Proc : AuthShape(q) /\ Seen(q) /\ AuthReady(q)
  BY AuthFacts
<1>2. /\ \A q \in Proc \ {p} : pub'[q] = pub[q]
      /\ \A q \in Proc : pub'[q].name = pub[q].name /\ pub'[q].bytes = pub[q].bytes
  BY <1>0 DEF OnlyMoves
<1>3. TypeOK'
  BY <1>0, <1>1 DEF LInv, TypeOK, PubInv, AuthPublishing
<1>4. EntryKinds' /\ ReportKinds'
  <2>1. CASE entry' = entry
    BY <2>1, <1>1 DEF EntryKinds, ReportKinds
  <2>2. CASE \A n \in Name : entry'[n] = IF n = pub[p].name THEN pub[p].bytes ELSE entry[n]
    <3>1. CASE auth[p].pc = "intent"
      <4>1. /\ pub[p].name = IntentName(Key(p)) /\ pub[p].bytes \in Intent
            /\ pub[p].bytes.key = Key(p)
        BY <1>1, <3>1 DEF AuthShape, Key
      <4>2. EntryKinds'
        BY <1>0, <1>1, <2>2, <4>1, DistinctNames DEF EntryKinds
      <4>3. ReportKinds'
        BY <1>0, <1>1, <2>2, <4>1, ReportNames DEF ReportKinds
      <4>4. QED
        BY <4>2, <4>3
    <3>2. CASE auth[p].pc = "report"
      <4>1. PICK r \in AuthId \cup {Absent} :
              /\ pub[p].name = ReportName(Key(p), r) /\ pub[p].bytes \in Report
              /\ pub[p].bytes.receipt.intent.key = Key(p) /\ pub[p].bytes.receipt.id = r
        BY <1>0, <1>1, <3>2 DEF AuthShape, OwnReportName, Key
      <4>2. EntryKinds'
        BY <1>0, <1>1, <2>2, <4>1, ReportNames, DistinctNames DEF EntryKinds
      <4>3. ReportKinds'
        BY <1>0, <1>1, <2>2, <4>1, ReportNames DEF ReportKinds
      <4>4. QED
        BY <4>2, <4>3
    <3>3. CASE auth[p].pc = "compatible"
      <4>1. PICK r \in AuthId \cup {Absent} :
              pub[p].name = CompatibleName(Key(p), r) /\ pub[p].bytes \in Receipt
        BY <1>0, <1>1, <3>3 DEF AuthShape, OwnCompatibleName, Report
      <4>2. EntryKinds'
        BY <1>0, <1>1, <2>2, <4>1, ReportNames, DistinctNames DEF EntryKinds
      <4>3. ReportKinds'
        BY <1>0, <1>1, <2>2, <4>1, ReportNames DEF ReportKinds
      <4>4. QED
        BY <4>2, <4>3
    <3>4. QED
      BY <1>0, <3>1, <3>2, <3>3 DEF AuthPublishingPc
  <2>3. QED
    BY <1>0, <2>1, <2>2
<1>5. ASSUME NEW q \in Proc PROVE Shape(q)' /\ Ready(q)' /\ AuthShape(q)' /\ Seen(q)'
  <2>1. /\ entry[MarkerName] # Absent => entry'[MarkerName] = entry[MarkerName]
        /\ inv[q].pc # "idle" => q # p
    BY <1>0, DistinctNames
  <2>2. Shape(q)'
    BY <1>0, <1>1, <1>2, <2>1 DEF LInv, Shape
  <2>3. Ready(q)'
    BY <1>0, <1>1, <1>2, <2>1 DEF LInv, Ready
  <2>4. AuthShape(q)'
    <3>1. auth[q].pc # "idle" /\ auth[q].id = Absent => entry'[MarkerName] = Key(q)
      BY <1>1, <2>1, AuthFacts DEF AuthShape
    <3>2. QED
      BY <1>0, <1>1, <1>2, <3>1 DEF AuthShape, Key, OwnReportName, OwnCompatibleName
  <2>5. Seen(q)'
    <3>1. ASSUME auth[q].pc \in {"readCompatible", "compatible", "publish"}
          PROVE  /\ entry'[OwnReportName(q)] = auth[q].report
                 /\ auth[q].pc = "publish" =>
                      entry'[OwnCompatibleName(q)] = auth[q].report.receipt
      <4>1. /\ Key(q) \in Marker /\ auth[q].report.receipt.id \in AuthId \cup {Absent}
            /\ auth[q].report \in Report
        BY <1>1, <3>1, AuthFacts DEF AuthShape, AuthLocals
      <4>2. /\ OwnReportName(q) \in Name /\ OwnCompatibleName(q) \in Name
            /\ auth[q].report # Absent /\ auth[q].report.receipt # Absent
        BY <4>1, ReportNames, ReportRecords, LedgerRecords
           DEF OwnReportName, OwnCompatibleName, Report
      <4>3. QED
        BY <1>0, <1>1, <3>1, <4>2 DEF Seen
    <3>2. ASSUME auth[q].id = Absent, auth[q].pc \in {"recheck", "post", "await", "report"}
          PROVE  entry'[IntentName(Key(q))] = auth[q].intent
      <4>1. Key(q) \in Marker /\ auth[q].intent # Absent /\ entry[IntentName(Key(q))] = auth[q].intent
        BY <1>1, <3>2, AuthFacts, LedgerRecords DEF AuthShape, Seen
      <4>2. QED
        BY <1>0, <4>1, DistinctNames
    <3>3. QED
      BY <1>0, <3>1, <3>2 DEF Seen, OwnReportName, OwnCompatibleName, Key
  <2>6. QED
    BY <2>2, <2>3, <2>4, <2>5
<1>6. ASSUME NEW q \in Proc PROVE AuthReady(q)'
  <2>1. CASE q # p
    BY <1>0, <1>1, <1>2, <2>1 DEF AuthReady
  <2>2. CASE q = p
    <3>1. SUFFICES ASSUME auth[p].pc = "intent", pub'[p].step = "CommittedDurable"
                   PROVE  MarkerName \in durable'
      BY <1>0, <2>2 DEF AuthReady, AuthPublishingPc
    <3>2. entry[MarkerName] # Absent
      BY <1>0, <1>1, <3>1 DEF AuthShape
    <3>3. QED
      BY <1>0, <3>1, <3>2, DistinctNames DEF Visible
  <2>3. QED
    BY <2>1, <2>2
(* Only linkat makes a holder, and only where the intent was missing.      *)
<1>7. ASSUME NEW q \in Proc, NEW k \in Marker, AuthHolds(q, k)', ~AuthHolds(q, k)
      PROVE  q = p /\ entry[IntentName(k)] = Absent
  <2>1. q = p
    BY <1>0, <1>2, <1>7 DEF AuthHolds
  <2>2. /\ auth[p].pc = "intent" /\ auth[p].marker = k
        /\ pub'[p].step \in Installed /\ pub[p].step \notin Installed
    BY <1>0, <1>7, <2>1 DEF AuthHolds, AuthPublishingPc
  <2>3. QED
    BY <1>0, <1>1, <2>1, <2>2 DEF AuthShape
<1>8. ASSUME NEW q \in Proc, NEW k \in Marker, Holds(q, k)' PROVE Holds(q, k)
  BY <1>0, <1>2, <1>8 DEF Holds
<1>9. OneHolder' /\ AuthOneHolder'
  <2>1. OneHolder'
    BY <1>1, <1>8 DEF LInv, OneHolder
  <2>2. ASSUME NEW q \in Proc, NEW r \in Proc, NEW k \in Marker, AuthHolds(q, k)'
        PROVE  (AuthHolds(r, k)' => q = r) /\ ~Holds(r, k)'
    BY <1>1, <1>7, <1>8, <2>2, HolderIsAnnounced, AuthHolderIsAnnounced DEF QInv, AuthOneHolder
  <2>3. QED
    BY <2>1, <2>2 DEF AuthOneHolder
<1>10. Spent' /\ AuthSpent'
  <2>1. ASSUME NEW k \in Marker, posts[k] = 1
        PROVE  /\ {MarkerName, IntentName(k)} \subseteq durable'
               /\ entry'[MarkerName] = k
               /\ \A q \in Proc : ~Holds(q, k)' /\ ~AuthHolds(q, k)'
    <3>1. /\ {MarkerName, IntentName(k)} \subseteq durable /\ entry[MarkerName] = k
          /\ \A q \in Proc : ~Holds(q, k) /\ ~AuthHolds(q, k)
      BY <1>1, <2>1 DEF QInv, LInv, Spent, AuthSpent
    <3>2. entry[IntentName(k)] # Absent /\ k # Absent
      BY <1>1, <3>1 DEF PubInv, DurableIsVisible
    <3>3. QED
      BY <1>0, <1>7, <1>8, <3>1, <3>2, DistinctNames
  <2>2. QED
    BY <1>0, <1>1, <2>1 DEF LInv, Spent, AuthSpent
<1>11. LInv'
  BY <1>0, <1>3, <1>4, <1>5, <1>9, <1>10 DEF LInv
<1>12. AuthTypeOK'
  BY <1>0, <1>3 DEF QInv, AuthTypeOK
<1>13. QED
  BY <1>4, <1>5, <1>6, <1>9, <1>10, <1>11, <1>12 DEF QInv

(* The one POST.  The right to it is spent.                                *)
LEMMA AuthPostEffect ==
  ASSUME QInv, NEW p \in Proc, AuthSubmitPost(p)
  PROVE  /\ UNCHANGED <<entry, durable, pub, now, inv, admitted, outputs, linkedAt, shown>>
         /\ auth[p].pc = "post" /\ auth[p].id = Absent
         /\ Key(p) \in Marker /\ auth[p].marker = Key(p) /\ AuthHolds(p, Key(p))
         /\ inv[p].pc = "idle" /\ posts[Key(p)] = 0
         /\ posts' \in [Marker -> Nat]
         /\ \A k \in Marker : posts'[k] = IF k = Key(p) THEN 1 ELSE posts[k]
         /\ \E report \in Report : /\ TakesUp(p, "await", report)
                                   /\ report.receipt.intent = auth[p].intent
                                   /\ report.receipt.id = auth[p].id
<1>0. /\ auth \in [Proc -> AuthLocals] /\ AuthShape(p) /\ posts \in [Marker -> Nat]
      /\ auth[p].pc # "idle" => inv[p].pc = "idle" /\ Key(p) \in Marker
  BY AuthFacts DEF LInv, TypeOK
<1>1. /\ UNCHANGED <<entry, durable, pub, now, inv, admitted, outputs, linkedAt, shown>>
      /\ auth[p].pc = "post" /\ posts' = [posts EXCEPT ![Key(p)] = @ + 1]
      /\ auth' = [auth EXCEPT ![p].pc = "await", ![p].report = PendingReport(p)]
  BY DEF AuthSubmitPost, pubVars
<1>2. /\ auth[p].id = Absent /\ Key(p) \in Marker /\ auth[p].marker = Key(p)
      /\ AuthHolds(p, Key(p)) /\ inv[p].pc = "idle"
  BY <1>0, <1>1 DEF AuthShape, AuthHolds
<1>3. posts[Key(p)] = 0
  BY <1>2 DEF QInv, LInv, Spent, AuthSpent
<1>4. posts' \in [Marker -> Nat] /\ \A k \in Marker : posts'[k] = IF k = Key(p) THEN 1 ELSE posts[k]
  BY <1>0, <1>1, <1>2, <1>3
<1>5. PICK report \in Report :
        /\ report = PendingReport(p)
        /\ report.receipt.intent = auth[p].intent /\ report.receipt.id = auth[p].id
  BY <1>1, PendingReports
<1>6. PICK pc \in AuthPc :
        pc = "await" /\ auth' = [auth EXCEPT ![p].pc = pc, ![p].report = report]
  BY <1>1, <1>5 DEF AuthPc
<1>7. TakesUp(p, "await", report)
  BY <1>0, <1>6, ReportLocals
<1>8. QED
  BY <1>1, <1>2, <1>3, <1>4, <1>5, <1>7

LEMMA AuthPostQInv ==
  ASSUME QInv, NEW p \in Proc, AuthSubmitPost(p) PROVE QInv'
<1> DEFINE m == Key(p)
<1>0. /\ UNCHANGED <<entry, durable, pub, now, inv, admitted, outputs, linkedAt, shown>>
      /\ auth[p].pc = "post" /\ auth[p].id = Absent
      /\ m \in Marker /\ auth[p].marker = m /\ AuthHolds(p, m)
      /\ inv[p].pc = "idle" /\ posts[m] = 0
      /\ posts' \in [Marker -> Nat]
      /\ \A k \in Marker : posts'[k] = IF k = m THEN 1 ELSE posts[k]
  BY AuthPostEffect
<1>1. PICK report \in Report : /\ TakesUp(p, "await", report)
                               /\ report.receipt.intent = auth[p].intent
                               /\ report.receipt.id = auth[p].id
  BY AuthPostEffect
<1>2. /\ auth \in [Proc -> AuthLocals] /\ LInv /\ PubInv
      /\ \A q \in Proc : AuthShape(q) /\ Seen(q) /\ AuthReady(q)
  BY AuthFacts
<1>3. {MarkerName, IntentName(m)} \subseteq durable /\ entry[MarkerName] = m
  BY <1>0, <1>2 DEF AuthReady, AuthShape
<1>4. ASSUME NEW q \in Proc, NEW k \in Marker
      PROVE  /\ AuthHolds(q, k)' => q # p /\ AuthHolds(q, k)
             /\ Holds(q, k)' => Holds(q, k)
  BY <1>0, <1>1 DEF AuthHolds, Holds, TakesUp
<1>5. PubInv' /\ TypeOK'
  BY <1>0, <1>2, PubKept DEF LInv, TypeOK, PubInv
<1>6. EntryKinds' /\ ReportKinds' /\ \A q \in Proc : Shape(q)' /\ Ready(q)'
  BY <1>0 DEF QInv, LInv, EntryKinds, ReportKinds, Shape, Ready
<1>7. ASSUME NEW q \in Proc PROVE AuthShape(q)' /\ Seen(q)' /\ AuthReady(q)'
  <2>1. CASE q = p
    BY <1>0, <1>1, <1>2, <2>1 DEF AuthShape, Seen, AuthReady, Key, TakesUp
  <2>2. CASE q # p
    BY <1>0, <1>1, <1>2, <2>2
       DEF AuthShape, Seen, AuthReady, Key, OwnReportName, OwnCompatibleName, TakesUp
  <2>3. QED
    BY <2>1, <2>2
<1>8. OneHolder' /\ AuthOneHolder'
  BY <1>4 DEF QInv, LInv, OneHolder, AuthOneHolder
<1>9. ASSUME NEW k \in Marker, posts'[k] = 1
      PROVE  /\ {MarkerName, IntentName(k)} \subseteq durable
             /\ entry[MarkerName] = k
             /\ \A q \in Proc : ~Holds(q, k)' /\ ~AuthHolds(q, k)'
  <2>1. CASE k = m
    BY <1>0, <1>3, <1>4, <2>1 DEF QInv, AuthOneHolder
  <2>2. CASE k # m
    BY <1>0, <1>4, <1>9, <2>2 DEF QInv, LInv, Spent, AuthSpent
  <2>3. QED
    BY <2>1, <2>2
<1>10. Spent' /\ AuthSpent'
  BY <1>0, <1>9 DEF QInv, LInv, Spent, AuthSpent
<1>11. AuthTypeOK'
  BY <1>0, <1>1, <1>5 DEF QInv, AuthTypeOK, TakesUp, AuthLocals
<1>12. QED
  BY <1>5, <1>6, <1>7, <1>8, <1>10, <1>11 DEF QInv, LInv
-----------------------------------------------------------------------------
(* The older commands.                                                     *)
LEMMA ContinueIsBusy ==
  ASSUME NEW p \in Proc, Continue(p) \/ ProcessKilled(p) PROVE inv[p].pc # "idle"
BY DEF Continue, ProcessKilled, LedgerPublicationStep, PublishingPc, ReserveFinish,
       SubmitReadIntent, SubmitReplay, SubmitStageIntent, SubmitIntentOutcome, SubmitRecheck,
       SubmitRecheckFails, SubmitPost, SubmitResponse, SubmitResultOutcome, ReconcileReadResult,
       ReconcileReadObservation, ReconcileGet, ReconcileGuardFails, ReconcileResponse,
       ReconcileOutcome

LEMMA OlderIsPowered == ASSUME OlderNext PROVE PoweredNext /\ UNCHANGED <<auth, shown>>
BY DEF OlderNext, OlderStart, PoweredNext, Start, authVars

(* A record published by an older command is not a report, and stands for  *)
(* the command that published it.                                          *)
LEMMA OlderPublication ==
  ASSUME LInv, NEW p \in Proc, LedgerPublicationStep(p)
  PROVE  /\ UNCHANGED <<now, inv, posts, admitted, outputs>>
         /\ durable \subseteq durable' /\ OnlyMoves(p)
         /\ \/ entry' = entry
            \/ /\ pub[p].name \in LedgerName /\ entry[pub[p].name] = Absent
               /\ \A n \in Name : entry'[n] = IF n = pub[p].name THEN pub[p].bytes ELSE entry[n]
<1>0. PubInv /\ entry \in [Name -> Bytes \cup {Absent}] /\ Shape(p)
  BY DEF LInv, PubInv, PubTypeOK
<1>1. PICK ok \in BOOLEAN : PublicationStep(p, ok)
  BY DEF LedgerPublicationStep, CommitGuard
<1>2. UNCHANGED <<now, inv, posts, admitted, outputs>> /\ inv[p].pc \in PublishingPc
  BY DEF LedgerPublicationStep
<1>3. /\ durable \subseteq durable' /\ OnlyMoves(p)
      /\ \/ entry' = entry
         \/ /\ entry[pub[p].name] = Absent
            /\ entry' = [entry EXCEPT ![pub[p].name] = pub[p].bytes]
  BY <1>0, <1>1, PublicationStepEffect
<1>4. pub[p].name \in LedgerName
  BY <1>0, <1>2 DEF Shape, PublishingPc, SubmitPc, ReconcilePc, LedgerName, Intent
<1>5. QED
  BY <1>0, <1>2, <1>3, <1>4

(* What a step of the older commands leaves to the authenticated ones.     *)
LEMMA OlderFrame ==
  ASSUME QInv, OlderNext
  PROVE  /\ \A q \in Proc : auth[q].pc # "idle" => inv'[q] = inv[q] /\ pub'[q] = pub[q]
         /\ \A n \in Name : entry[n] # Absent => entry'[n] = entry[n]
         /\ \A k \in Marker, r \in AuthId \cup {Absent} :
              entry'[ReportName(k, r)] = entry[ReportName(k, r)]
         /\ durable \subseteq durable'
         /\ \A q \in Proc, k \in Marker :
              Holds(q, k)' => Holds(q, k) \/ entry[IntentName(k)] = Absent
         /\ \A k \in Marker : posts'[k] = 1 => posts[k] = 1 \/ \E q \in Proc : Holds(q, k)
<1> DEFINE Kept == /\ UNCHANGED <<entry, durable>>
                   /\ \A q \in Proc, k \in Marker : Holds(q, k)' => Holds(q, k)
<1>0. LInv /\ inv \in [Proc -> Locals] /\ pub \in [Proc -> Publication] /\ PoweredNext
      /\ posts \in [Marker -> Nat]
      /\ \A q \in Proc : inv[q].pc # "idle" => auth[q].pc = "idle"
  BY AuthFacts, OlderIsPowered DEF LInv, TypeOK, AuthShape
<1>1. CASE Tick
  <2>1. Kept /\ posts' = posts /\ inv' = inv /\ pub' = pub
    BY <1>1 DEF Tick, pubVars, Holds
  <2>2. QED
    BY <2>1
<1>2. ASSUME NEW p \in Proc, LedgerPublicationStep(p)
      PROVE  /\ \A q \in Proc : auth[q].pc # "idle" => inv'[q] = inv[q] /\ pub'[q] = pub[q]
             /\ \A k \in Marker, r \in AuthId \cup {Absent} :
                  entry'[ReportName(k, r)] = entry[ReportName(k, r)]
             /\ durable \subseteq durable' /\ posts' = posts
             /\ \A q \in Proc, k \in Marker :
                  Holds(q, k)' => Holds(q, k) \/ entry[IntentName(k)] = Absent
  <2>1. /\ inv' = inv /\ posts' = posts /\ durable \subseteq durable' /\ OnlyMoves(p)
        /\ \/ entry' = entry
           \/ /\ pub[p].name \in LedgerName
              /\ \A n \in Name : entry'[n] = IF n = pub[p].name THEN pub[p].bytes ELSE entry[n]
    BY <1>0, <1>2, OlderPublication
  <2>2. auth[p].pc = "idle"
    BY <1>0, <1>2, ContinueIsBusy DEF Continue
  <2>3. \A k \in Marker, r \in AuthId \cup {Absent} :
          ReportName(k, r) \in Name /\ ReportName(k, r) \notin LedgerName
    BY ReportNames DEF LedgerName
  <2>4. \A q \in Proc, k \in Marker :
          Holds(q, k)' => Holds(q, k) \/ entry[IntentName(k)] = Absent
    BY <1>0, <1>2, LinkMakesHolder
  <2>5. QED
    BY <2>1, <2>2, <2>3, <2>4 DEF OnlyMoves
<1>3. ASSUME NEW p \in Proc, ReserveFinish(p) \/ SubmitRecheck(p) \/ SubmitPost(p)
      PROVE  /\ Kept
             /\ \A q \in Proc : auth[q].pc # "idle" => inv'[q] = inv[q] /\ pub'[q] = pub[q]
             /\ \A k \in Marker : posts'[k] = 1 => posts[k] = 1 \/ Holds(p, k)
  <2>1. auth[p].pc = "idle"
    BY <1>0, <1>3, ContinueIsBusy DEF Continue
  <2>2. /\ UNCHANGED <<entry, durable>>
        /\ \A q \in Proc \ {p} : inv'[q] = inv[q] /\ pub'[q] = pub[q]
    BY <1>0, <1>3 DEF ReserveFinish, SubmitRecheck, SubmitPost, Exit, Take, Goto, pubVars
  <2>3. \A k \in Marker : Holds(p, k)' => Holds(p, k)
    BY <1>0, <1>3 DEF ReserveFinish, SubmitRecheck, SubmitPost, Exit, Goto, Holds, IdleInv, Locals,
                      pubVars
  <2>4. \A k \in Marker : posts'[k] = 1 => posts[k] = 1 \/ Holds(p, k)
    <3>1. CASE SubmitPost(p)
      BY <1>0, <3>1 DEF SubmitPost, Holds
    <3>2. CASE ~SubmitPost(p)
      BY <1>3, <3>2 DEF ReserveFinish, SubmitRecheck
    <3>3. QED
      BY <3>1, <3>2
  <2>5. \A q \in Proc, k \in Marker : Holds(q, k)' => Holds(q, k)
    BY <2>2, <2>3 DEF Holds
  <2>6. QED
    BY <2>1, <2>2, <2>4, <2>5
<1>4. ASSUME NEW p \in Proc, auth[p].pc = "idle",
             \/ Start(p)
             \/ /\ Continue(p)
                /\ ~LedgerPublicationStep(p) /\ ~ReserveFinish(p) /\ ~SubmitRecheck(p)
                /\ ~SubmitPost(p)
             \/ ProcessKilled(p)
      PROVE  /\ Kept /\ posts' = posts
             /\ \A q \in Proc : auth[q].pc # "idle" => inv'[q] = inv[q] /\ pub'[q] = pub[q]
  <2>1. /\ UNCHANGED <<entry, durable, now, posts, admitted, linkedAt>>
        /\ \A q \in Proc \ {p} : inv'[q] = inv[q] /\ pub'[q] = pub[q]
        /\ inv'[p].pc # "post"
        /\ inv'[p].pc = "recheck" =>
             /\ inv[p].pc = "intent" /\ pub[p].step = "CommittedDurable"
             /\ inv'[p].marker = inv[p].marker /\ inv'[p].intent = inv[p].intent
        /\ inv'[p].pc \in PublishingPc => pub'[p].step = "staged"
    BY <1>0, <1>4, OtherStepsFrame
  <2>2. \A q \in Proc, k \in Marker : Holds(q, k)' => Holds(q, k)
    BY <2>1 DEF Holds, Installed, PublishingPc
  <2>3. QED
    BY <1>4, <2>1, <2>2
<1>5. \A n \in Name : entry[n] # Absent => entry'[n] = entry[n]
  BY <1>0, PoweredKeepsRecords
<1>6. CASE \E p \in Proc : OlderStart(p) \/ Continue(p) \/ ProcessKilled(p)
  <2>1. PICK p \in Proc : OlderStart(p) \/ Continue(p) \/ ProcessKilled(p)
    BY <1>6
  <2>2. auth[p].pc = "idle" /\ (OlderStart(p) => Start(p))
    BY <1>0, <2>1, ContinueIsBusy DEF OlderStart, Start
  <2>3. CASE LedgerPublicationStep(p)
    BY <1>2, <1>5, <2>3
  <2>4. CASE ReserveFinish(p) \/ SubmitRecheck(p) \/ SubmitPost(p)
    BY <1>3, <1>5, <2>4
  <2>5. CASE /\ ~LedgerPublicationStep(p) /\ ~ReserveFinish(p) /\ ~SubmitRecheck(p)
             /\ ~SubmitPost(p)
    BY <1>4, <1>5, <2>1, <2>2, <2>5
  <2>6. QED
    BY <2>3, <2>4, <2>5
<1>7. QED
  BY <1>1, <1>6 DEF OlderNext

LEMMA OlderQInv ==
  ASSUME QInv, OlderNext PROVE QInv'
<1>0. /\ \A q \in Proc : auth[q].pc # "idle" => inv'[q] = inv[q] /\ pub'[q] = pub[q]
      /\ \A n \in Name : entry[n] # Absent => entry'[n] = entry[n]
      /\ \A k \in Marker, r \in AuthId \cup {Absent} :
           entry'[ReportName(k, r)] = entry[ReportName(k, r)]
      /\ durable \subseteq durable'
      /\ \A q \in Proc, k \in Marker :
           Holds(q, k)' => Holds(q, k) \/ entry[IntentName(k)] = Absent
      /\ \A k \in Marker : posts'[k] = 1 => posts[k] = 1 \/ \E q \in Proc : Holds(q, k)
  BY OlderFrame
<1>1. /\ auth \in [Proc -> AuthLocals] /\ LInv
      /\ \A q \in Proc : AuthShape(q) /\ Seen(q) /\ AuthReady(q)
      /\ \A q \in Proc : auth[q].pc # "idle" => inv[q].pc = "idle" /\ Key(q) \in Marker
  BY AuthFacts
<1>2. auth' = auth /\ shown' = shown /\ LInv'
  BY <1>1, OlderIsPowered, LInvNext DEF Next
<1>3. AuthTypeOK' /\ ReportKinds'
  BY <1>0, <1>2 DEF QInv, LInv, AuthTypeOK, ReportKinds
<1>4. ASSUME NEW q \in Proc PROVE AuthShape(q)' /\ Seen(q)' /\ AuthReady(q)'
  <2>1. CASE auth[q].pc = "idle"
    BY <1>2, <2>1 DEF AuthShape, Seen, AuthReady
  <2>2. CASE auth[q].pc # "idle"
    <3>1. inv'[q] = inv[q] /\ pub'[q] = pub[q] /\ Key(q) \in Marker /\ AuthShape(q) /\ Seen(q)
      BY <1>0, <1>1, <2>2
    <3>2. entry[MarkerName] # Absent => entry'[MarkerName] = entry[MarkerName]
      BY <1>0, DistinctNames
    <3>3. AuthShape(q)'
      BY <1>2, <3>1, <3>2 DEF AuthShape, Key, OwnReportName, OwnCompatibleName
    <3>4. ASSUME auth[q].pc \in {"readCompatible", "compatible", "publish"}
          PROVE  /\ entry'[OwnReportName(q)] = auth[q].report
                 /\ auth[q].pc = "publish" =>
                      entry'[OwnCompatibleName(q)] = auth[q].report.receipt
      <4>1. auth[q].report.receipt.id \in AuthId \cup {Absent} /\ auth[q].report \in Report
        BY <1>1, <3>1, <3>4 DEF AuthShape, AuthLocals
      <4>2. /\ OwnReportName(q) \in Name /\ OwnCompatibleName(q) \in Name
            /\ auth[q].report # Absent /\ auth[q].report.receipt # Absent
        BY <3>1, <4>1, ReportNames, ReportRecords, LedgerRecords
           DEF OwnReportName, OwnCompatibleName, Report
      <4>3. QED
        BY <1>0, <3>1, <3>4, <4>2 DEF Seen
    <3>5. ASSUME auth[q].id = Absent, auth[q].pc \in {"recheck", "post", "await", "report"}
          PROVE  entry'[IntentName(Key(q))] = auth[q].intent
      <4>1. auth[q].intent # Absent /\ entry[IntentName(Key(q))] = auth[q].intent
        BY <3>1, <3>5, LedgerRecords DEF AuthShape, Seen
      <4>2. QED
        BY <1>0, <3>1, <4>1, DistinctNames
    <3>6. Seen(q)'
      BY <1>2, <3>4, <3>5 DEF Seen, OwnReportName, OwnCompatibleName, Key
    <3>7. AuthReady(q)'
      BY <1>0, <1>1, <1>2, <3>1 DEF AuthReady
    <3>8. QED
      BY <3>3, <3>6, <3>7
  <2>3. QED
    BY <2>1, <2>2
<1>5. ASSUME NEW q \in Proc, NEW k \in Marker PROVE AuthHolds(q, k)' <=> AuthHolds(q, k)
  BY <1>0, <1>2 DEF AuthHolds
<1>6. AuthOneHolder'
  BY <1>0, <1>5, AuthHolderIsAnnounced DEF QInv, AuthOneHolder
<1>7. AuthSpent'
  BY <1>0, <1>5 DEF QInv, AuthSpent, AuthOneHolder
<1>8. QED
  BY <1>2, <1>3, <1>4, <1>6, <1>7 DEF QInv

(* A loss of power ends every command and takes only what was not on disk. *)
LEMMA AuthPowerEffect ==
  ASSUME QInv, AuthPowerFails
  PROVE  /\ LInv' /\ posts' = posts /\ outputs' = outputs /\ shown' = shown
         /\ auth' \in [Proc -> AuthLocals]
         /\ \A p \in Proc : inv'[p].pc = "idle" /\ auth'[p].pc = "idle"
         /\ \A n \in Name : entry'[n] \in {entry[n], Absent}
         /\ \A n \in durable : entry'[n] = entry[n]
<1>0. entry \in [Name -> Bytes \cup {Absent}] /\ LInv /\ PubInv /\ durable \subseteq Name
  BY AuthFacts
<1>1. LInv'
  BY <1>0, PowerLInv DEF AuthPowerFails
<1>2. PICK lost \in SUBSET (Visible \ durable) : PowerLossTo(Visible \ lost)
  BY DEF AuthPowerFails, PowerFails, PowerLoss
<1>3. /\ \A n \in Name : entry'[n] \in {entry[n], Absent}
      /\ \A n \in durable : entry'[n] = entry[n]
  BY <1>0, <1>2 DEF PowerLossTo, PubInv, DurableIsVisible, Visible
<1>4. /\ posts' = posts /\ outputs' = outputs /\ shown' = shown
      /\ \A p \in Proc : inv'[p].pc = "idle" /\ auth'[p].pc = "idle"
      /\ auth' \in [Proc -> AuthLocals]
  BY DEF AuthPowerFails, PowerFails, IdleInv, IdleAuth, AuthLocals, AuthPc
<1>5. QED
  BY <1>1, <1>3, <1>4

(* Nothing is lost that a command still relies on: none is left.           *)
LEMMA AuthPowerQInv ==
  ASSUME QInv, AuthPowerFails PROVE QInv'
<1>0. /\ LInv' /\ posts' = posts /\ shown' = shown /\ auth' \in [Proc -> AuthLocals]
      /\ \A p \in Proc : inv'[p].pc = "idle" /\ auth'[p].pc = "idle"
      /\ \A n \in Name : entry'[n] \in {entry[n], Absent}
  BY AuthPowerEffect
<1>1. AuthTypeOK'
  BY <1>0 DEF QInv, LInv, AuthTypeOK, AuthLocals
<1>2. ReportKinds'
  BY <1>0, ReportNames DEF QInv, ReportKinds
<1>3. \A p \in Proc : AuthShape(p)' /\ Seen(p)' /\ AuthReady(p)' /\ \A k \in Marker : ~AuthHolds(p, k)'
  BY <1>0 DEF AuthShape, Seen, AuthReady, AuthHolds
<1>4. AuthOneHolder' /\ AuthSpent'
  BY <1>3 DEF AuthOneHolder, AuthSpent
<1>5. QED
  BY <1>0, <1>1, <1>2, <1>3, <1>4 DEF QInv

LEMMA QInvInit == AuthInit => QInv
<1> SUFFICES ASSUME AuthInit PROVE QInv
  OBVIOUS
<1>1. LInv
  BY LInvInit DEF AuthInit
<1>2. auth \in [Proc -> AuthLocals] /\ \A p \in Proc : auth[p].pc = "idle"
  BY DEF AuthInit, IdleAuth, AuthLocals, AuthPc
<1>3. AuthTypeOK
  BY <1>1, <1>2 DEF LInv, AuthTypeOK, AuthLocals, AuthInit
<1>4. ReportKinds
  BY ReportNames DEF ReportKinds, AuthInit, Init, PubInit
<1>5. \A p \in Proc : AuthShape(p) /\ Seen(p) /\ AuthReady(p) /\ \A k \in Marker : ~AuthHolds(p, k)
  BY <1>2 DEF AuthShape, Seen, AuthReady, AuthHolds
<1>6. AuthOneHolder /\ AuthSpent
  BY <1>5 DEF AuthOneHolder, AuthSpent
<1>7. QED
  BY <1>1, <1>3, <1>4, <1>5, <1>6 DEF QInv

(* A step that changes nothing.                                            *)
LEMMA QInvStutters == ASSUME QInv, UNCHANGED allVars PROVE QInv'
<1>0. /\ UNCHANGED vars /\ auth' = auth /\ shown' = shown
      /\ entry' = entry /\ durable' = durable /\ pub' = pub /\ inv' = inv /\ posts' = posts
  BY DEF allVars, authVars, vars, pubVars, ledgerVars
<1>1. LInv'
  BY <1>0, LInvNext DEF QInv
<1>2. AuthTypeOK' /\ ReportKinds'
  BY <1>0, <1>1 DEF QInv, LInv, AuthTypeOK, ReportKinds
<1>3. \A p \in Proc : AuthShape(p)' /\ Seen(p)' /\ AuthReady(p)'
  BY <1>0 DEF QInv, AuthShape, Seen, AuthReady, Key, OwnReportName, OwnCompatibleName
<1>4. AuthOneHolder' /\ AuthSpent'
  BY <1>0 DEF QInv, AuthOneHolder, AuthSpent, AuthHolds, Holds
<1>5. QED
  BY <1>1, <1>2, <1>3, <1>4 DEF QInv

(* The steps of the combined system.                                       *)
LEMMA AuthCases ==
  ASSUME AuthPoweredNext
  PROVE  \/ OlderNext
         \/ \E p \in Proc :
              \/ AuthPublishing(p)
              \/ AuthSubmitPost(p)
              \/ AuthStart(p)
              \/ AuthContinue(p) /\ ~AuthPublishing(p) /\ ~AuthSubmitPost(p)
              \/ AuthKilled(p)
BY DEF AuthPoweredNext

LEMMA QInvNext == QInv /\ [AuthNext]_allVars => QInv'
<1> SUFFICES ASSUME QInv, [AuthNext]_allVars PROVE QInv'
  OBVIOUS
<1>1. CASE AuthPoweredNext
  BY <1>1, AuthCases, OlderQInv, AuthPublishingQInv, AuthPostQInv, AuthStepsMove, AuthMovesQInv
<1>2. CASE AuthPowerFails
  BY <1>2, AuthPowerQInv
<1>3. QED
  BY <1>1, <1>2, QInvStutters DEF AuthNext

(* The invariant of the older and the authenticated commands together.     *)
THEOREM QInvariance == AuthSpec => []QInv
BY QInvInit, QInvNext, PTL DEF AuthSpec

(* Type correctness of the ledger that both kinds of command share.         *)
THEOREM AuthTypeCorrect == AuthSpec => []AuthTypeOK
<1>1. QInv => AuthTypeOK
  BY DEF QInv
<1>2. QED
  BY <1>1, QInvariance, PTL

(* submit of either kind: at most one package leaves for a challenge, and   *)
(* its marker and its intent are then on disk for good.                     *)
THEOREM AuthAtMostOnePackage == AuthSpec => [](AtMostOnePost /\ PostedIsOnDisk)
<1>1. QInv => AtMostOnePost
  BY DEF QInv, LInv, Spent, AtMostOnePost
<1>2. QInv => PostedIsOnDisk
  <2> SUFFICES ASSUME QInv, NEW k \in Marker, posts[k] > 0
               PROVE  /\ {MarkerName, IntentName(k)} \subseteq durable
                      /\ entry[MarkerName] = k
                      /\ entry[IntentName(k)] \in Intent
                      /\ entry[IntentName(k)].key = k
    BY DEF PostedIsOnDisk
  <2>1. {MarkerName, IntentName(k)} \subseteq durable /\ entry[MarkerName] = k
    BY DEF QInv, LInv, Spent
  <2>2. entry[IntentName(k)] # Absent
    BY <2>1 DEF QInv, LInv, PubInv, DurableIsVisible
  <2>3. QED
    BY <2>1, <2>2 DEF QInv, LInv, EntryKinds
<1>3. QED
  BY <1>1, <1>2, QInvariance, PTL

(* What each step is in AtMostOnceRelease.                                 *)
LEMMA AuthReleaseStep ==
  QInv /\ QInv' /\ [AuthNext]_allVars
    => [Release!Reserve \/ Release!Forget \/ Release!Send]_<<entry[MarkerName], posts>>
<1> SUFFICES ASSUME QInv, QInv', [AuthNext]_allVars
             PROVE  [Release!Reserve \/ Release!Forget \/ Release!Send]_<<entry[MarkerName], posts>>
  OBVIOUS
<1>0. LInv /\ LInv'
  BY DEF QInv
<1>1. CASE OlderNext \/ AuthPowerFails \/ UNCHANGED allVars
  <2>1. [Next]_vars
    BY <1>1, OlderIsPowered DEF Next, AuthPowerFails, allVars
  <2>2. QED
    BY <1>0, <2>1, ReleaseStep
(* The marker is not a record of the authenticated commands.               *)
<1>2. ASSUME NEW p \in Proc, AuthPublishing(p)
      PROVE  entry'[MarkerName] = entry[MarkerName] /\ posts' = posts
  <2>1. /\ posts' = posts /\ auth[p].pc \in AuthPublishingPc /\ Key(p) \in Marker
        /\ auth[p].pc \in {"report", "compatible"} =>
             auth[p].report.receipt.id \in AuthId \cup {Absent}
        /\ \/ entry' = entry
           \/ \A n \in Name : entry'[n] = IF n = pub[p].name THEN pub[p].bytes ELSE entry[n]
    BY <1>2, AuthPublishingEffect
  <2>2. pub[p].name # MarkerName
    BY <2>1, AuthFacts, DistinctNames, ReportNames
       DEF AuthShape, AuthPublishingPc, OwnReportName, OwnCompatibleName
  <2>3. QED
    BY <2>1, <2>2, DistinctNames
<1>3. ASSUME NEW p \in Proc, AuthSubmitPost(p) PROVE Release!Send
  <2>1. PICK m \in Marker : m = Key(p) /\ auth[p].pc = "post" /\ auth[p].id = Absent
    BY <1>3, AuthPostEffect
  <2>2. /\ posts[m] = 0 /\ posts \in [Marker -> Nat] /\ posts' \in [Marker -> Nat]
        /\ \A k \in Marker : posts'[k] = IF k = m THEN 1 ELSE posts[k]
        /\ entry' = entry /\ entry[MarkerName] = m
    BY <1>0, <1>3, <2>1, AuthPostEffect, AuthFacts DEF LInv, TypeOK, AuthShape
  <2>3. Release!NothingSent
    BY <1>0, <2>2 DEF LInv, Spent, Release!NothingSent
  <2>4. posts' = [posts EXCEPT ![m] = 1]
    BY <2>2
  <2>5. QED
    BY <2>2, <2>3, <2>4 DEF Release!Send
<1>4. ASSUME NEW p \in Proc,
             \/ AuthStart(p)
             \/ AuthContinue(p) /\ ~AuthPublishing(p) /\ ~AuthSubmitPost(p)
             \/ AuthKilled(p)
      PROVE  entry'[MarkerName] = entry[MarkerName] /\ posts' = posts
  BY <1>4, AuthStepsMove DEF AuthMoves, ledgerVars
<1>5. QED
  BY <1>1, <1>2, <1>3, <1>4, AuthCases DEF AuthNext

(* The two kinds of submit together still implement at-most-once release.   *)
THEOREM AuthImplementsRelease == AuthSpec => ImplementsAtMostOnceRelease
<1>1. AuthInit => Release!Init
  BY DistinctNames DEF AuthInit, Init, PubInit, Release!Init
<1>2. QED
  BY <1>1, QInvariance, AuthReleaseStep, PTL DEF AuthSpec, ImplementsAtMostOnceRelease, Release!Spec
-----------------------------------------------------------------------------
(* What was handed out, while the power stays on.                          *)
HandedOut ==
  /\ \A o \in outputs : o.name \in Name /\ o.receipt # Absent /\ entry[o.name] = o.receipt
  /\ \A s \in shown :
       /\ s.receipt.id \in AuthId \cup {Absent}
       /\ entry[ReportName(s.receipt.intent.key, s.receipt.id)] = s
       /\ entry[CompatibleName(s.receipt.intent.key, s.receipt.id)] = s.receipt

(* A step that keeps the records of the ledger keeps what was handed out.  *)
LEMMA HandedOutKept ==
  ASSUME QInv, HandedOut, \A n \in Name : entry[n] # Absent => entry'[n] = entry[n],
         \A o \in outputs' : \/ o \in outputs
                             \/ o.name \in Name /\ o.receipt # Absent /\ entry'[o.name] = o.receipt,
         \A s \in shown' :
           \/ s \in shown
           \/ /\ s.receipt.id \in AuthId \cup {Absent}
              /\ entry'[ReportName(s.receipt.intent.key, s.receipt.id)] = s
              /\ entry'[CompatibleName(s.receipt.intent.key, s.receipt.id)] = s.receipt
  PROVE  HandedOut'
<1>1. ASSUME NEW s \in shown
      PROVE  /\ s.receipt.id \in AuthId \cup {Absent}
             /\ entry'[ReportName(s.receipt.intent.key, s.receipt.id)] = s
             /\ entry'[CompatibleName(s.receipt.intent.key, s.receipt.id)] = s.receipt
  <2>1. /\ s \in Report /\ s.receipt.intent.key \in Marker /\ s # Absent /\ s.receipt # Absent
    BY AuthFacts, ReportRecords, LedgerRecords DEF Report, Receipt, Intent
  <2>2. QED
    BY <2>1, ReportNames DEF HandedOut
<1>2. \A o \in outputs' : o.name \in Name /\ o.receipt # Absent /\ entry'[o.name] = o.receipt
  BY DEF HandedOut
<1>3. QED
  BY <1>1, <1>2 DEF HandedOut

LEMMA HandedOutNext ==
  ASSUME QInv, HandedOut, [AuthPoweredNext]_allVars PROVE HandedOut'
<1>1. CASE OlderNext
  <2>1. /\ LInv /\ [Next]_vars /\ shown' = shown
        /\ \A n \in Name : entry[n] # Absent => entry'[n] = entry[n]
    BY <1>1, AuthFacts, OlderFrame, OlderIsPowered DEF Next
  <2>2. \A o \in outputs' :
          \/ o \in outputs
          \/ o.name \in Name /\ o.receipt # Absent /\ entry'[o.name] = o.receipt
    BY <2>1, OnlyRecordsAreHandedOut
  <2>3. QED
    BY <2>1, <2>2, HandedOutKept
<1>2. ASSUME NEW p \in Proc, AuthPublishing(p) PROVE HandedOut'
  BY <1>2, AuthPublishingEffect, HandedOutKept
<1>3. ASSUME NEW p \in Proc, AuthSubmitPost(p) PROVE HandedOut'
  BY <1>3, AuthPostEffect, HandedOutKept
<1>4. ASSUME NEW p \in Proc,
             \/ AuthStart(p)
             \/ AuthContinue(p) /\ ~AuthPublishing(p) /\ ~AuthSubmitPost(p)
             \/ AuthKilled(p)
      PROVE  HandedOut'
  <2>1. /\ entry' = entry /\ outputs' = outputs
        /\ \/ shown' = shown
           \/ auth[p].pc = "publish" /\ shown' = shown \cup {auth[p].report}
    BY <1>4, AuthStepsMove DEF AuthMoves, ledgerVars
  <2>2. auth[p].pc = "publish" =>
          LET s == auth[p].report IN
          /\ s.receipt.id \in AuthId \cup {Absent}
          /\ entry[ReportName(s.receipt.intent.key, s.receipt.id)] = s
          /\ entry[CompatibleName(s.receipt.intent.key, s.receipt.id)] = s.receipt
    BY AuthFacts DEF AuthShape, Seen, Key, OwnReportName, OwnCompatibleName, AuthLocals
  <2>3. QED
    BY <2>1, <2>2, HandedOutKept
<1>5. CASE UNCHANGED allVars
  BY <1>5, HandedOutKept DEF allVars, authVars, vars, pubVars, ledgerVars
<1>6. QED
  BY <1>1, <1>2, <1>3, <1>4, <1>5, AuthCases

(* A report handed to a caller stays in the ledger with the receipt it      *)
(* retains, and the older commands answer with this receipt.                *)
THEOREM ShownReportsAreRetained == AuthPoweredSpec => []ShownIsRetained
<1>1. AuthInit => HandedOut
  BY DEF AuthInit, Init, HandedOut
<1>2. [AuthPoweredNext]_allVars => [AuthNext]_allVars
  BY DEF AuthNext
<1>3. QInv /\ HandedOut /\ [AuthPoweredNext]_allVars => HandedOut'
  BY HandedOutNext
<1>4. HandedOut => ShownIsRetained
  BY DEF HandedOut, ShownIsRetained
<1>5. QED
  BY QInvInit, QInvNext, <1>1, <1>2, <1>3, <1>4, PTL DEF AuthPoweredSpec
-----------------------------------------------------------------------------
(* Reports and results.  Both kinds of submit record the answer to the one  *)
(* POST, so what matters is who owes it: KInv.  UInv below adds what keeps  *)
(* the receipts in the reports' places exact.                               *)

(* An answer is owed, reported or recorded only after the one POST, by one *)
(* process, which decides of which kind the record is.                     *)
Answers ==
  \A k \in Marker :
    /\ entry[ResultName(k)] # Absent \/ entry[ReportName(k, Absent)] # Absent => posts[k] = 1
    /\ \A p \in Proc : Owes(p, k) =>
         /\ posts[k] = 1 /\ entry[ReportName(k, Absent)] = Absent
         /\ \A q \in Proc : (Owes(q, k) => p = q) /\ ~AuthOwes(q, k)
    /\ \A p \in Proc : AuthOwes(p, k) =>
         posts[k] = 1 /\ \A q \in Proc : AuthOwes(q, k) => p = q

(* The report of a submission is about the intent on disk.                 *)
ReportHasIntent ==
  \A k \in Marker : entry[ReportName(k, Absent)] # Absent =>
    entry[ReportName(k, Absent)].receipt.intent = entry[IntentName(k)]

KInv ==
  /\ Answers
  /\ \A p \in Proc : Announced(p)
  /\ ReportHasIntent
  /\ ResultHasIntent

(* The older commands: a publication, the POST, or no more than a move to   *)
(* the next step.                                                          *)
LEMMA OlderCases ==
  ASSUME QInv, \A p \in Proc : Announced(p), OlderNext
  PROVE  \/ \E p \in Proc : LedgerPublicationStep(p) \/ SubmitPost(p)
         \/ /\ entry' = entry /\ posts' = posts
            /\ \A q \in Proc, k \in Marker : Owes(q, k)' => Owes(q, k)
            /\ \A q \in Proc : Announced(q)'
<1>0. LInv /\ inv \in [Proc -> Locals] /\ pub \in [Proc -> Publication] /\ PubInv
  BY AuthFacts
<1>1. CASE Tick
  BY <1>1 DEF Tick, pubVars, Owes, Announced
<1>2. ASSUME NEW p \in Proc,
             \/ Start(p)
             \/ /\ Continue(p)
                /\ ~LedgerPublicationStep(p) /\ ~ReserveFinish(p) /\ ~SubmitRecheck(p)
                /\ ~SubmitPost(p)
             \/ ProcessKilled(p)
      PROVE  /\ entry' = entry /\ posts' = posts
             /\ \A q \in Proc, k \in Marker : Owes(q, k)' => Owes(q, k)
             /\ \A q \in Proc : Announced(q)'
  <2>1. /\ entry' = entry /\ posts' = posts
        /\ \A q \in Proc \ {p} : inv'[q] = inv[q] /\ pub'[q] = pub[q]
        /\ inv'[p].pc # "post"
        /\ inv'[p].pc = "recheck" =>
             /\ inv[p].pc = "intent" /\ pub[p].step = "CommittedDurable"
             /\ inv'[p].marker = inv[p].marker /\ inv'[p].intent = inv[p].intent
        /\ inv'[p].pc \in {"await", "result"} =>
             /\ inv[p].pc = "await" /\ inv'[p].pc = "result"
             /\ inv'[p].marker = inv[p].marker /\ inv'[p].intent = inv[p].intent
             /\ pub'[p].bytes.intent = inv[p].receipt.intent
    BY <1>0, <1>2, OtherStepsFrame
  <2>2. \A q \in Proc, k \in Marker : Owes(q, k)' => Owes(q, k)
    BY <2>1 DEF Owes
  <2>3. ASSUME NEW q \in Proc PROVE Announced(q)'
    <3>1. CASE q # p
      BY <2>1, <3>1 DEF Announced
    <3>2. CASE q = p /\ inv'[p].pc = "recheck"
      <4>1. entry[IntentName(inv[p].marker)] = inv[p].intent
        BY <1>0, <2>1, <3>2 DEF LInv, Shape, PubInv, OutcomeIsTruthful
      <4>2. QED
        BY <2>1, <3>2, <4>1 DEF Announced
    <3>3. CASE q = p /\ inv'[p].pc \in {"await", "result"}
      BY <2>1, <3>3 DEF Announced
    <3>4. CASE q = p /\ inv'[p].pc \notin {"recheck", "await", "result"}
      BY <2>1, <3>4 DEF Announced
    <3>5. QED
      BY <3>1, <3>2, <3>3, <3>4
  <2>4. QED
    BY <2>1, <2>2, <2>3
<1>3. ASSUME NEW p \in Proc, ReserveFinish(p) \/ SubmitRecheck(p)
      PROVE  /\ entry' = entry /\ posts' = posts
             /\ \A q \in Proc, k \in Marker : Owes(q, k)' => Owes(q, k)
             /\ \A q \in Proc : Announced(q)'
  <2>1. /\ entry' = entry /\ posts' = posts
        /\ \A q \in Proc \ {p} : inv'[q] = inv[q] /\ pub'[q] = pub[q]
    BY <1>0, <1>3 DEF ReserveFinish, SubmitRecheck, Exit, Take, Goto, pubVars
  <2>2. \/ inv'[p].pc = "idle"
        \/ /\ inv[p].pc = "recheck" /\ inv'[p].pc = "post"
           /\ inv'[p].marker = inv[p].marker /\ inv'[p].intent = inv[p].intent
    BY <1>0, <1>3 DEF ReserveFinish, SubmitRecheck, Exit, Goto, IdleInv, Locals
  <2>3. QED
    BY <2>1, <2>2 DEF Owes, Announced
<1>4. CASE \E p \in Proc : OlderStart(p) \/ Continue(p) \/ ProcessKilled(p)
  <2>1. PICK p \in Proc : OlderStart(p) \/ Continue(p) \/ ProcessKilled(p)
    BY <1>4
  <2>2. OlderStart(p) => Start(p)
    BY DEF OlderStart, Start
  <2>3. QED
    BY <1>2, <1>3, <2>1, <2>2
<1>5. QED
  BY <1>1, <1>4 DEF OlderNext

(* No record and no POST.                                                  *)
LEMMA KInvKept ==
  ASSUME KInv, entry' = entry, posts' = posts,
         \A q \in Proc, k \in Marker : /\ Owes(q, k)' => Owes(q, k)
                                       /\ AuthOwes(q, k)' => AuthOwes(q, k),
         \A q \in Proc : Announced(q)'
  PROVE  KInv'
<1>1. Answers'
  BY DEF KInv, Answers
<1>2. ReportHasIntent' /\ ResultHasIntent'
  BY DEF KInv, ReportHasIntent, ResultHasIntent
<1>3. QED
  BY <1>1, <1>2 DEF KInv

(* A record is added that is neither the result nor the report of a        *)
(* submission, or one whose POST was made, by whom it was owed.            *)
LEMMA KInvLink ==
  ASSUME QInv, KInv, inv' = inv, auth' = auth, posts' = posts,
         \A q \in Proc : pub'[q].bytes = pub[q].bytes,
         NEW n \in Name, NEW b \in Bytes, entry[n] = Absent,
         \A l \in Name : entry'[l] = IF l = n THEN b ELSE entry[l],
         \A k \in Marker :
           n = ResultName(k) => posts[k] = 1 /\ b.intent = entry[IntentName(k)],
         \A k \in Marker :
           n = ReportName(k, Absent) => /\ posts[k] = 1 /\ b.receipt.intent = entry[IntentName(k)]
                                        /\ \A q \in Proc : ~Owes(q, k)
  PROVE  KInv'
<1>0. \A k \in Marker : /\ IntentName(k) \in Name /\ ResultName(k) \in Name
                        /\ ReportName(k, Absent) \in Name
                        /\ IntentName(k) # ResultName(k) /\ ReportName(k, Absent) # IntentName(k)
  BY DistinctNames, ReportNames
<1>1. \A k \in Marker : posts[k] = 1 => /\ entry[IntentName(k)] # Absent
                                        /\ entry'[IntentName(k)] = entry[IntentName(k)]
  BY <1>0, AuthFacts DEF LInv, Spent, PubInv, DurableIsVisible
<1>2. Answers'
  <2>1. ASSUME NEW q \in Proc, NEW k \in Marker
        PROVE  (Owes(q, k)' <=> Owes(q, k)) /\ (AuthOwes(q, k)' <=> AuthOwes(q, k))
    BY DEF Owes, AuthOwes
  <2>2. ASSUME NEW k \in Marker
        PROVE  /\ entry'[ResultName(k)] # Absent \/ entry'[ReportName(k, Absent)] # Absent =>
                    posts[k] = 1
               /\ \A q \in Proc : Owes(q, k) => entry'[ReportName(k, Absent)] = Absent
    BY <1>0 DEF KInv, Answers
  <2>3. QED
    BY <2>1, <2>2 DEF KInv, Answers
<1>3. ReportHasIntent'
  <2> SUFFICES ASSUME NEW k \in Marker, entry'[ReportName(k, Absent)] # Absent
               PROVE  entry'[ReportName(k, Absent)].receipt.intent = entry'[IntentName(k)]
    BY DEF ReportHasIntent
  <2>1. posts[k] = 1
    BY <1>0 DEF KInv, Answers
  <2>2. entry[ReportName(k, Absent)] # Absent \/ n = ReportName(k, Absent)
    BY <1>0
  <2>3. QED
    BY <1>0, <1>1, <2>1, <2>2 DEF KInv, ReportHasIntent
<1>4. ResultHasIntent'
  <2> SUFFICES ASSUME NEW k \in Marker, entry'[ResultName(k)] # Absent
               PROVE  /\ posts[k] = 1 /\ entry'[IntentName(k)] # Absent
                      /\ entry'[ResultName(k)].intent = entry'[IntentName(k)]
    BY DEF ResultHasIntent
  <2>1. posts[k] = 1
    BY <1>0 DEF KInv, Answers
  <2>2. entry[ResultName(k)] # Absent \/ n = ResultName(k)
    BY <1>0
  <2>3. QED
    BY <1>0, <1>1, <2>1, <2>2 DEF KInv, ResultHasIntent
<1>5. ASSUME NEW q \in Proc PROVE Announced(q)'
  <2>1. inv[q].pc \in {"recheck", "post", "await", "result"} =>
          /\ inv[q].marker \in Marker /\ inv[q].intent # Absent
          /\ entry[IntentName(inv[q].marker)] = inv[q].intent
    BY AuthFacts, LedgerRecords DEF LInv, Shape, SubmitPc, KInv, Announced
  <2>2. inv[q].pc \in {"recheck", "post", "await", "result"} =>
          entry'[IntentName(inv[q].marker)] = inv[q].intent
    BY <1>0, <2>1
  <2>3. QED
    BY <2>2 DEF KInv, Announced
<1>6. QED
  BY <1>2, <1>3, <1>4, <1>5 DEF KInv

(* The older publications: an intent, a marker, an observation, or the      *)
(* result that is owed.                                                    *)
LEMMA OlderPublicationKInv ==
  ASSUME QInv, KInv, NEW p \in Proc, LedgerPublicationStep(p), auth' = auth PROVE KInv'
<1>0. /\ LInv /\ PubInv /\ Shape(p) /\ inv \in [Proc -> Locals]
  BY AuthFacts DEF LInv
<1>1. /\ inv' = inv /\ posts' = posts /\ OnlyMoves(p) /\ inv[p].pc \in PublishingPc
      /\ \/ entry' = entry
         \/ /\ pub[p].name \in LedgerName /\ entry[pub[p].name] = Absent
            /\ \A n \in Name : entry'[n] = IF n = pub[p].name THEN pub[p].bytes ELSE entry[n]
  BY <1>0, OlderPublication DEF LedgerPublicationStep
<1>2. \A q \in Proc : pub'[q].bytes = pub[q].bytes
  BY <1>1 DEF OnlyMoves
<1>3. CASE entry' = entry
  <2>1. \A q \in Proc : Announced(q)'
    BY <1>1, <1>2, <1>3 DEF KInv, Announced
  <2>2. QED
    BY <1>1, <1>3, <2>1, KInvKept DEF Owes, AuthOwes
<1>4. CASE /\ pub[p].name \in LedgerName /\ entry[pub[p].name] = Absent
           /\ \A n \in Name : entry'[n] = IF n = pub[p].name THEN pub[p].bytes ELSE entry[n]
  <2>1. PICK n \in Name : n = pub[p].name /\ n \in LedgerName
    BY <1>4
  <2>2. PICK b \in Bytes : b = pub[p].bytes
    <3>1. pub[p].step # "idle"
      <4>1. PICK ok \in BOOLEAN : PublicationStep(p, ok)
        BY DEF LedgerPublicationStep, CommitGuard
      <4>2. QED
        BY <1>0, <4>1, PublicationStepEffect
    <3>2. QED
      BY <1>0, <3>1 DEF PubInv, BusyHasRecord
  <2>3. \A k \in Marker : n # ReportName(k, Absent)
    BY <2>1, ReportNames DEF LedgerName
  <2>4. ASSUME NEW k \in Marker, n = ResultName(k)
        PROVE  posts[k] = 1 /\ b.intent = entry[IntentName(k)]
    <3>1. inv[p].pc = "result"
      <4>1. inv[p].pc = "observation" => inv[p].intent.key \in Marker /\ inv[p].id \in ReconId
        BY <1>0 DEF Shape, ReconcilePc, Intent
      <4>2. QED
        BY <1>0, <1>1, <2>1, <2>4, <4>1, DistinctNames DEF Shape, PublishingPc, SubmitPc
    <3>2. inv[p].marker = k
      BY <1>0, <2>1, <2>4, <3>1, DistinctNames DEF Shape, SubmitPc
    <3>3. QED
      BY <2>2, <3>1, <3>2 DEF KInv, Answers, Owes, Announced
  <2>5. QED
    BY <1>1, <1>2, <1>4, <2>1, <2>2, <2>3, <2>4, KInvLink
<1>5. QED
  BY <1>1, <1>3, <1>4

(* A POST: nothing was owed, reported or recorded before it.               *)
LEMMA KInvPost ==
  ASSUME QInv, KInv, NEW p \in Proc, NEW m \in Marker, posts[m] = 0, entry' = entry,
         \A k \in Marker : posts'[k] = IF k = m THEN 1 ELSE posts[k],
         \A q \in Proc, k \in Marker : /\ Owes(q, k)' => Owes(q, k) \/ (q = p /\ k = m)
                                       /\ AuthOwes(q, k)' => AuthOwes(q, k) \/ (q = p /\ k = m),
         \A k \in Marker : ~(Owes(p, k)' /\ AuthOwes(p, k)'),
         \A q \in Proc : Announced(q)'
  PROVE  KInv'
<1>1. /\ entry[ResultName(m)] = Absent /\ entry[ReportName(m, Absent)] = Absent
      /\ \A q \in Proc : ~Owes(q, m) /\ ~AuthOwes(q, m)
  BY DEF KInv, Answers
<1>2. ASSUME NEW k \in Marker
      PROVE  /\ entry[ResultName(k)] # Absent \/ entry[ReportName(k, Absent)] # Absent =>
                  posts'[k] = 1
             /\ \A q \in Proc : Owes(q, k)' =>
                  /\ posts'[k] = 1 /\ entry[ReportName(k, Absent)] = Absent
                  /\ \A r \in Proc : (Owes(r, k)' => q = r) /\ ~AuthOwes(r, k)'
             /\ \A q \in Proc : AuthOwes(q, k)' =>
                  posts'[k] = 1 /\ \A r \in Proc : AuthOwes(r, k)' => q = r
  <2>1. CASE k = m
    BY <1>1, <2>1
  <2>2. CASE k # m
    BY <2>2 DEF KInv, Answers
  <2>3. QED
    BY <2>1, <2>2
<1>3. Answers'
  BY <1>2 DEF Answers
<1>4. ReportHasIntent' /\ ResultHasIntent'
  BY <1>1 DEF KInv, ReportHasIntent, ResultHasIntent
<1>5. QED
  BY <1>3, <1>4 DEF KInv

LEMMA PostsKInv ==
  ASSUME QInv, KInv, NEW p \in Proc,
         (SubmitPost(p) /\ auth' = auth) \/ AuthSubmitPost(p)
  PROVE  KInv'
<1>0. /\ LInv /\ inv \in [Proc -> Locals] /\ posts \in [Marker -> Nat]
      /\ inv[p].pc # "idle" => auth[p].pc = "idle"
  BY AuthFacts DEF LInv, TypeOK, AuthShape
<1>1. CASE SubmitPost(p) /\ auth' = auth
  <2>1. PICK m \in Marker : m = inv[p].marker /\ inv[p].pc = "post"
    BY <1>0, <1>1 DEF SubmitPost, LInv, Shape, SubmitPc
  <2>2. posts[m] = 0
    BY <1>0, <2>1 DEF LInv, Spent, Holds
  <2>3. \A k \in Marker : posts'[k] = IF k = m THEN 1 ELSE posts[k]
    BY <1>0, <1>1, <2>1, <2>2 DEF SubmitPost
  <2>4. /\ \A q \in Proc \ {p} : inv'[q] = inv[q]
        /\ inv'[p].marker = m /\ inv'[p].pc = "await" /\ inv'[p].intent = inv[p].intent
        /\ inv'[p].receipt.intent = inv[p].intent
        /\ UNCHANGED <<entry, pub>>
    BY <1>0, <1>1, <2>1 DEF SubmitPost, Locals, pubVars
  <2>5. /\ \A q \in Proc, k \in Marker : /\ Owes(q, k)' => Owes(q, k) \/ (q = p /\ k = m)
                                         /\ AuthOwes(q, k)' => AuthOwes(q, k)
        /\ \A k \in Marker : ~AuthOwes(p, k)'
    BY <1>0, <1>1, <2>1, <2>4 DEF Owes, AuthOwes
  <2>6. \A q \in Proc : Announced(q)'
    BY <2>1, <2>4 DEF KInv, Announced
  <2>7. QED
    BY <2>2, <2>3, <2>4, <2>5, <2>6, KInvPost
<1>2. CASE AuthSubmitPost(p)
  <2>1. PICK m \in Marker :
          /\ m = Key(p) /\ auth[p].marker = m /\ posts[m] = 0
          /\ \A k \in Marker : posts'[k] = IF k = m THEN 1 ELSE posts[k]
          /\ UNCHANGED <<entry, pub, inv>> /\ inv[p].pc = "idle"
    BY <1>2, AuthPostEffect
  <2>2. /\ \A q \in Proc \ {p} : auth'[q] = auth[q]
        /\ auth'[p].marker = m
    BY <1>2, <2>1, AuthPostEffect DEF TakesUp
  <2>3. /\ \A q \in Proc, k \in Marker : /\ Owes(q, k)' => Owes(q, k)
                                         /\ AuthOwes(q, k)' => AuthOwes(q, k) \/ (q = p /\ k = m)
        /\ \A k \in Marker : ~Owes(p, k)'
    BY <2>1, <2>2 DEF Owes, AuthOwes
  <2>4. \A q \in Proc : Announced(q)'
    BY <2>1 DEF KInv, Announced
  <2>5. QED
    BY <2>1, <2>3, <2>4, KInvPost
<1>3. QED
  BY <1>1, <1>2

(* The report of a submission is added by who owes it, and its receipt by   *)
(* who has seen it.                                                        *)
LEMMA AuthPublishingKInv ==
  ASSUME QInv, KInv, NEW p \in Proc, AuthPublishing(p) PROVE KInv'
<1>0. /\ UNCHANGED <<inv, posts, auth>>
      /\ auth[p].pc \in AuthPublishingPc /\ Key(p) \in Marker /\ OnlyMoves(p)
      /\ auth[p].pc \in {"report", "compatible"} =>
           auth[p].report.receipt.id \in AuthId \cup {Absent}
      /\ pub[p].name \in Name /\ pub[p].bytes \in Bytes
      /\ \/ entry' = entry
         \/ /\ entry[pub[p].name] = Absent
            /\ \A n \in Name : entry'[n] = IF n = pub[p].name THEN pub[p].bytes ELSE entry[n]
  BY AuthPublishingEffect
<1>1. AuthShape(p) /\ Seen(p)
  BY AuthFacts
<1>2. \A q \in Proc : pub'[q].bytes = pub[q].bytes
  BY <1>0 DEF OnlyMoves
<1>3. CASE entry' = entry
  <2>1. \A q \in Proc : Announced(q)'
    BY <1>0, <1>2, <1>3 DEF KInv, Announced
  <2>2. QED
    BY <1>0, <1>3, <2>1, KInvKept DEF Owes, AuthOwes
<1>4. CASE /\ entry[pub[p].name] = Absent
           /\ \A n \in Name : entry'[n] = IF n = pub[p].name THEN pub[p].bytes ELSE entry[n]
  <2>1. PICK n \in Name, b \in Bytes : n = pub[p].name /\ b = pub[p].bytes
    BY <1>0
  <2>2. CASE auth[p].pc = "intent"
    <3>1. \A k \in Marker : n # ResultName(k) /\ n # ReportName(k, Absent)
      BY <1>0, <1>1, <2>1, <2>2, DistinctNames, ReportNames DEF AuthShape
    <3>2. QED
      BY <1>0, <1>2, <1>4, <2>1, <3>1, KInvLink
  <2>3. CASE auth[p].pc = "report"
    <3>1. PICK r \in AuthId \cup {Absent} :
            /\ n = ReportName(Key(p), r) /\ r = auth[p].id
            /\ b.receipt.intent = auth[p].intent
      BY <1>0, <1>1, <2>1, <2>3 DEF AuthShape, OwnReportName
    <3>2. \A k \in Marker : n # ResultName(k)
      BY <1>0, <3>1, ReportNames
    <3>3. ASSUME NEW k \in Marker, n = ReportName(k, Absent)
          PROVE  /\ posts[k] = 1 /\ b.receipt.intent = entry[IntentName(k)]
                 /\ \A q \in Proc : ~Owes(q, k)
      <4>1. k = Key(p) /\ auth[p].id = Absent
        BY <1>0, <3>1, <3>3, ReportNames
      <4>2. AuthOwes(p, k) /\ entry[IntentName(k)] = auth[p].intent
        BY <1>1, <2>3, <4>1 DEF AuthShape, Seen, AuthOwes
      <4>3. QED
        BY <3>1, <4>2 DEF KInv, Answers
    <3>4. QED
      BY <1>0, <1>2, <1>4, <2>1, <3>2, <3>3, KInvLink
  <2>4. CASE auth[p].pc = "compatible"
    <3>1. PICK r \in AuthId \cup {Absent} :
            /\ n = CompatibleName(Key(p), r) /\ b = auth[p].report.receipt
            /\ entry[ReportName(Key(p), r)] = auth[p].report /\ auth[p].report # Absent
      BY <1>0, <1>1, <2>1, <2>4, ReportRecords
         DEF AuthShape, Seen, OwnReportName, OwnCompatibleName
    <3>2. \A k \in Marker : n # ReportName(k, Absent)
      BY <1>0, <3>1, ReportNames
    <3>3. ASSUME NEW k \in Marker, n = ResultName(k)
          PROVE  posts[k] = 1 /\ b.intent = entry[IntentName(k)]
      <4>1. n = CompatibleName(k, Absent)
        BY <3>3 DEF CompatibleName
      <4>2. k = Key(p) /\ r = Absent
        <5>1. PICK l \in Marker : l = Key(p)
          BY <1>0
        <5>2. CompatibleName(l, r) = CompatibleName(k, Absent)
          BY <3>1, <4>1, <5>1
        <5>3. l = k /\ r = Absent
          BY <5>2, ReportNames
        <5>4. QED
          BY <5>1, <5>3
      <4>3. QED
        BY <3>1, <4>2 DEF KInv, Answers, ReportHasIntent
    <3>4. QED
      BY <1>0, <1>2, <1>4, <2>1, <3>2, <3>3, KInvLink
  <2>5. QED
    BY <1>0, <2>2, <2>3, <2>4 DEF AuthPublishingPc
<1>5. QED
  BY <1>0, <1>3, <1>4

(* With the power, reports and results are lost; intents of POSTs are not. *)
LEMMA PowerKInv ==
  ASSUME QInv, KInv, AuthPowerFails PROVE KInv'
<1>0. /\ posts' = posts
      /\ \A p \in Proc : inv'[p].pc = "idle" /\ auth'[p].pc = "idle"
      /\ \A n \in Name : entry'[n] \in {entry[n], Absent}
      /\ \A n \in durable : entry'[n] = entry[n]
  BY AuthPowerEffect
<1>1. \A q \in Proc : Announced(q)' /\ \A k \in Marker : ~Owes(q, k)' /\ ~AuthOwes(q, k)'
  BY <1>0 DEF Announced, Owes, AuthOwes
<1>2. \A k \in Marker :
        /\ ResultName(k) \in Name /\ ReportName(k, Absent) \in Name
        /\ posts[k] = 1 => entry'[IntentName(k)] = entry[IntentName(k)]
  BY <1>0, AuthFacts, DistinctNames, ReportNames DEF LInv, Spent
<1>3. Answers'
  BY <1>0, <1>1, <1>2 DEF KInv, Answers
<1>4. ReportHasIntent'
  BY <1>0, <1>2 DEF KInv, Answers, ReportHasIntent
<1>5. ResultHasIntent'
  BY <1>0, <1>2 DEF KInv, ResultHasIntent
<1>6. QED
  BY <1>1, <1>3, <1>4, <1>5 DEF KInv

LEMMA KInvNext == QInv /\ KInv /\ [AuthNext]_allVars => KInv'
<1> SUFFICES ASSUME QInv, KInv, [AuthNext]_allVars PROVE KInv'
  OBVIOUS
<1>1. CASE OlderNext
  <2>1. auth' = auth
    BY <1>1, OlderIsPowered
  <2>2. \/ \E p \in Proc : LedgerPublicationStep(p) \/ SubmitPost(p)
        \/ /\ entry' = entry /\ posts' = posts
           /\ \A q \in Proc, k \in Marker : Owes(q, k)' => Owes(q, k)
           /\ \A q \in Proc : Announced(q)'
    BY <1>1, OlderCases DEF KInv
  <2>3. ASSUME entry' = entry, posts' = posts,
               \A q \in Proc, k \in Marker : Owes(q, k)' => Owes(q, k),
               \A q \in Proc : Announced(q)'
        PROVE  KInv'
    BY <2>1, <2>3, KInvKept DEF AuthOwes
  <2>4. QED
    BY <2>1, <2>2, <2>3, OlderPublicationKInv, PostsKInv
<1>2. ASSUME NEW p \in Proc,
             \/ AuthStart(p)
             \/ AuthContinue(p) /\ ~AuthPublishing(p) /\ ~AuthSubmitPost(p)
             \/ AuthKilled(p)
      PROVE  KInv'
  <2>1. AuthMoves(p)
    BY <1>2, AuthStepsMove
  <2>2. /\ entry' = entry /\ posts' = posts /\ inv' = inv /\ inv[p].pc = "idle"
        /\ \A q \in Proc \ {p} : auth'[q] = auth[q] /\ pub'[q] = pub[q]
        /\ \A k \in Marker : AuthOwes(p, k)' => AuthOwes(p, k)
    BY <2>1 DEF AuthMoves, ledgerVars
  <2>3. \A q \in Proc, k \in Marker : /\ Owes(q, k)' => Owes(q, k)
                                      /\ AuthOwes(q, k)' => AuthOwes(q, k)
    BY <2>2 DEF Owes, AuthOwes
  <2>4. ASSUME NEW q \in Proc PROVE Announced(q)'
    BY <2>2 DEF KInv, Announced
  <2>5. QED
    BY <2>2, <2>3, <2>4, KInvKept
<1>3. CASE UNCHANGED allVars
  <2>1. entry' = entry /\ posts' = posts /\ inv' = inv /\ pub' = pub /\ auth' = auth
    BY <1>3 DEF allVars, authVars, vars, pubVars, ledgerVars
  <2>2. QED
    BY <2>1, KInvKept DEF KInv, Owes, AuthOwes, Announced
<1>4. QED
  BY <1>1, <1>2, <1>3, AuthCases, AuthPublishingKInv, PostsKInv, PowerKInv DEF AuthNext

(* The answers, for the older and the authenticated commands together.     *)
THEOREM KInvariance == AuthSpec => []KInv
<1>1. AuthInit => KInv
  <2> SUFFICES ASSUME AuthInit PROVE KInv
    OBVIOUS
  <2>1. /\ \A n \in Name : entry[n] = Absent
        /\ \A p \in Proc : inv[p].pc = "idle" /\ auth[p].pc = "idle"
    BY DEF AuthInit, Init, PubInit, IdleInv, IdleAuth
  <2>2. \A k \in Marker : entry[ResultName(k)] = Absent /\ entry[ReportName(k, Absent)] = Absent
    BY <2>1, DistinctNames, ReportNames
  <2>3. QED
    BY <2>1, <2>2 DEF KInv, Answers, Announced, ReportHasIntent, ResultHasIntent, Owes, AuthOwes
<1>2. QED
  BY <1>1, QInvariance, KInvNext, PTL DEF AuthSpec

(* A result on disk, written by either kind of submit or rebuilt from its   *)
(* report, has its POST and its exact intent.                               *)
THEOREM AuthResultsHaveIntents == AuthSpec => []ResultHasIntent
<1>1. KInv => ResultHasIntent
  BY DEF KInv
<1>2. QED
  BY <1>1, KInvariance, PTL
-----------------------------------------------------------------------------
(* The receipts in the reports' places are exact, provided that no id is    *)
(* used with both kinds of reconcile.                                      *)

(* q has asked for (k, r), and its report is to be the first.              *)
Asks(q, k, r) == auth[q].pc \in {"await", "report"} /\ Key(q) = k /\ auth[q].id = r

Unanswered ==
  \A q \in Proc, k \in Marker, r \in AuthId \cup {Absent} :
    Asks(q, k, r) /\ entry[ReportName(k, r)] = Absent => entry[CompatibleName(k, r)] = Absent

OlderId(p) == inv[p].pc \in ReconcilePc => inv[p].id \in LegacyId

UInv ==
  /\ Unanswered
  /\ \A p \in Proc : OlderId(p)
  /\ ReportIsReplayable

(* A reconcile of the older kind keeps the id it was started with.         *)
LEMMA OlderIds ==
  ASSUME QInv, OlderNext, \A p \in Proc : OlderId(p) PROVE \A p \in Proc : OlderId(p)'
<1>0. LInv /\ inv \in [Proc -> Locals]
  BY AuthFacts
<1>1. CASE Tick
  BY <1>1 DEF Tick, OlderId
<1>2. ASSUME NEW p \in Proc, OlderStart(p) \/ Continue(p) \/ ProcessKilled(p)
      PROVE  \A q \in Proc : OlderId(q)'
  <2>1. ASSUME Exit(p) PROVE \A q \in Proc : OlderId(q)'
    BY <1>0, <2>1 DEF Exit, IdleInv, OlderId, ReconcilePc
  <2>2. ASSUME NEW pc, Goto(p, pc), pc \in ReconcilePc => inv[p].pc \in ReconcilePc
        PROVE  \A q \in Proc : OlderId(q)'
    BY <1>0, <2>2 DEF Goto, Locals, OlderId
  <2>3. CASE OlderStart(p)
    <3>1. ASSUME NEW m \in Marker, ReserveStart(p, m) PROVE \A q \in Proc : OlderId(q)'
      BY <1>0, <3>1 DEF ReserveStart, IdleInv, OlderId, ReconcilePc
    <3>2. ASSUME NEW x \in Nonce, SubmitStart(p, x) PROVE \A q \in Proc : OlderId(q)'
      BY <1>0, <3>2 DEF SubmitStart, IdleInv, OlderId, ReconcilePc
    <3>3. ASSUME NEW k \in Marker, NEW r \in LegacyId, ReconcileStart(p, k, r)
          PROVE  \A q \in Proc : OlderId(q)'
      BY <1>0, <3>3 DEF ReconcileStart, IdleInv, OlderId, ReconcilePc
    <3>4. QED
      BY <2>3, <3>1, <3>2, <3>3 DEF OlderStart
  <2>4. CASE LedgerPublicationStep(p)
    BY <2>4 DEF LedgerPublicationStep, OlderId
  <2>5. CASE SubmitPost(p)
    BY <1>0, <2>5 DEF SubmitPost, Locals, OlderId, ReconcilePc
  <2>6. CASE ReconcileGet(p)
    <3>1. \A q \in Proc : inv'[q].id = inv[q].id
      BY <1>0, <2>6 DEF ReconcileGet, Locals
    <3>2. \A q \in Proc : inv'[q].pc \in ReconcilePc => inv[q].pc \in ReconcilePc
      BY <1>0, <2>6 DEF ReconcileGet, Locals, ReconcilePc
    <3>3. QED
      BY <3>1, <3>2 DEF OlderId
  <2>7. CASE \/ ReserveFinish(p) \/ SubmitReplay(p) \/ SubmitRecheckFails(p)
             \/ SubmitResultOutcome(p) \/ ReconcileGuardFails(p) \/ ReconcileOutcome(p)
             \/ ProcessKilled(p)
    BY <2>1, <2>7 DEF ReserveFinish, SubmitReplay, SubmitRecheckFails, SubmitResultOutcome,
         ReconcileGuardFails, ReconcileOutcome, ProcessKilled, PublishAndExit, Bail
  <2>8. CASE \/ SubmitReadIntent(p) \/ SubmitStageIntent(p) \/ SubmitIntentOutcome(p)
             \/ SubmitRecheck(p) \/ \E s \in Status : SubmitResponse(p, s)
    <3>1. \/ Exit(p)
          \/ \E pc \in {"checkOrphan", "replay", "intent", "recheck", "post", "result"} : Goto(p, pc)
      BY <2>8 DEF SubmitReadIntent, SubmitStageIntent, SubmitIntentOutcome, SubmitRecheck,
           SubmitResponse, PublishAndExit
    <3>2. QED
      BY <2>1, <2>2, <3>1 DEF ReconcilePc
  <2>9. CASE \/ ReconcileReadResult(p) \/ ReconcileReadObservation(p)
             \/ \E s \in Status : ReconcileResponse(p, s)
    <3>1. inv[p].pc \in ReconcilePc
      BY <2>9 DEF ReconcileReadResult, ReconcileReadObservation, ReconcileResponse, ReconcilePc
    <3>2. Exit(p) \/ \E pc \in ReconcilePc : Goto(p, pc)
      BY <2>9 DEF ReconcileReadResult, ReconcileReadObservation, ReconcileResponse,
           PublishAndExit, ReconcilePc
    <3>3. QED
      BY <2>1, <2>2, <3>1, <3>2
  <2>10. QED
    BY <1>2, <2>3, <2>4, <2>5, <2>6, <2>7, <2>8, <2>9 DEF Continue
<1>3. QED
  BY <1>1, <1>2 DEF OlderNext

(* A record is added: a report where there is no receipt yet, the receipt   *)
(* of the report that is there, or a receipt for which nobody asks.        *)
LEMMA UInvLink ==
  ASSUME UInv, auth' = auth, inv' = inv,
         NEW n \in Name, NEW b \in Bytes, entry[n] = Absent,
         \A l \in Name : entry'[l] = IF l = n THEN b ELSE entry[l],
         \A k \in Marker, r \in AuthId \cup {Absent} :
           n = ReportName(k, r) => entry[CompatibleName(k, r)] = Absent,
         \A k \in Marker, r \in AuthId \cup {Absent} : n = CompatibleName(k, r) =>
           IF entry[ReportName(k, r)] = Absent THEN \A q \in Proc : ~Asks(q, k, r)
                                               ELSE b = entry[ReportName(k, r)].receipt
  PROVE  UInv'
<1>1. ASSUME NEW k \in Marker, NEW r \in AuthId \cup {Absent}
      PROVE  /\ entry'[ReportName(k, r)] =
                  IF ReportName(k, r) = n THEN b ELSE entry[ReportName(k, r)]
             /\ entry'[CompatibleName(k, r)] =
                  IF CompatibleName(k, r) = n THEN b ELSE entry[CompatibleName(k, r)]
             /\ ReportName(k, r) # CompatibleName(k, r)
  BY ReportNames
<1>2. Unanswered'
  <2> SUFFICES ASSUME NEW q \in Proc, NEW k \in Marker, NEW r \in AuthId \cup {Absent},
                      Asks(q, k, r), entry'[ReportName(k, r)] = Absent
               PROVE  entry'[CompatibleName(k, r)] = Absent
    BY DEF Unanswered, Asks, Key
  <2>1. b # Absent
    BY AbsentAssumption
  <2>2. entry[ReportName(k, r)] = Absent
    BY <1>1, <2>1
  <2>3. CompatibleName(k, r) # n
    BY <2>2
  <2>4. QED
    BY <1>1, <2>2, <2>3 DEF UInv, Unanswered
<1>3. ReportIsReplayable'
  <2> SUFFICES ASSUME NEW k \in Marker, NEW r \in AuthId \cup {Absent},
                      entry'[ReportName(k, r)] # Absent
               PROVE  entry'[CompatibleName(k, r)] \in {Absent, entry'[ReportName(k, r)].receipt}
    BY DEF ReportIsReplayable
  <2>1. CASE n = ReportName(k, r)
    BY <1>1, <2>1
  <2>2. CASE n # ReportName(k, r) /\ n = CompatibleName(k, r)
    BY <1>1, <2>2
  <2>3. CASE n # ReportName(k, r) /\ n # CompatibleName(k, r)
    BY <1>1, <2>3 DEF UInv, ReportIsReplayable
  <2>4. QED
    BY <2>1, <2>2, <2>3
<1>4. \A p \in Proc : OlderId(p)'
  BY DEF UInv, OlderId
<1>5. QED
  BY <1>2, <1>3, <1>4 DEF UInv

(* No record: at most an answer is asked for where no receipt is.          *)
LEMMA UInvKept ==
  ASSUME UInv, entry' = entry, \A p \in Proc : OlderId(p)',
         \A q \in Proc, k \in Marker, r \in AuthId \cup {Absent} :
           Asks(q, k, r)' => Asks(q, k, r) \/ entry[CompatibleName(k, r)] = Absent
  PROVE  UInv'
<1>1. Unanswered'
  BY DEF UInv, Unanswered
<1>2. ReportIsReplayable'
  BY DEF UInv, ReportIsReplayable
<1>3. QED
  BY <1>1, <1>2 DEF UInv

(* The older records: the one who owes a result finds no report and nobody  *)
(* who asks for one, and the ids of the older observations are other ids.  *)
LEMMA OlderPublicationUInv ==
  ASSUME LegacyId \cap AuthId = {}, QInv, KInv, UInv,
         NEW p \in Proc, LedgerPublicationStep(p), auth' = auth
  PROVE  UInv'
<1>0. LInv /\ PubInv /\ Shape(p) /\ inv \in [Proc -> Locals] /\ \A q \in Proc : AuthShape(q)
  BY AuthFacts DEF LInv
<1>1. /\ inv' = inv /\ inv[p].pc \in PublishingPc
      /\ \/ entry' = entry
         \/ /\ pub[p].name \in LedgerName /\ entry[pub[p].name] = Absent
            /\ \A n \in Name : entry'[n] = IF n = pub[p].name THEN pub[p].bytes ELSE entry[n]
  BY <1>0, OlderPublication DEF LedgerPublicationStep
<1>2. CASE entry' = entry
  BY <1>1, <1>2, UInvKept DEF UInv, OlderId, Asks, Key
<1>3. CASE /\ pub[p].name \in LedgerName /\ entry[pub[p].name] = Absent
           /\ \A n \in Name : entry'[n] = IF n = pub[p].name THEN pub[p].bytes ELSE entry[n]
  <2>1. PICK n \in Name : n = pub[p].name /\ n \in LedgerName
    BY <1>3
  <2>2. PICK b \in Bytes : b = pub[p].bytes
    <3>1. PICK ok \in BOOLEAN : PublicationStep(p, ok)
      BY DEF LedgerPublicationStep, CommitGuard
    <3>2. pub[p].step # "idle"
      BY <1>0, <3>1, PublicationStepEffect
    <3>3. QED
      BY <1>0, <3>2 DEF PubInv, BusyHasRecord
  <2>3. \A k \in Marker, r \in AuthId \cup {Absent} : n # ReportName(k, r)
    BY <2>1, ReportNames DEF LedgerName
  <2>4. ASSUME NEW k \in Marker, NEW r \in AuthId \cup {Absent}, n = CompatibleName(k, r)
        PROVE  entry[ReportName(k, r)] = Absent /\ \A q \in Proc : ~Asks(q, k, r)
    <3>1. inv[p].pc = "observation" =>
            /\ inv[p].intent.key \in Marker /\ inv[p].id \in ReconId \cap LegacyId
            /\ n = ReconciliationName(inv[p].intent.key, inv[p].id)
      BY <1>0, <2>1 DEF Shape, ReconcilePc, Intent, UInv, OlderId
    <3>2. CASE r = Absent
      <4>1. n = ResultName(k)
        BY <2>4, <3>2 DEF CompatibleName
      <4>2. inv[p].pc = "result"
        BY <1>0, <1>1, <2>1, <3>1, <4>1, DistinctNames DEF Shape, PublishingPc, SubmitPc
      <4>3. Owes(p, k)
        BY <1>0, <2>1, <4>1, <4>2, DistinctNames DEF Shape, SubmitPc, Owes
      <4>4. entry[ReportName(k, Absent)] = Absent /\ \A q \in Proc : ~AuthOwes(q, k)
        BY <4>3 DEF KInv, Answers
      <4>5. \A q \in Proc : ~Asks(q, k, Absent)
        BY <1>0, <4>4 DEF AuthOwes, Asks, AuthShape
      <4>6. QED
        BY <3>2, <4>4, <4>5
    <3>3. CASE r # Absent
      <4>1. r \in AuthId /\ r \in ReconId /\ n = ReconciliationName(k, r)
        BY <2>4, <3>3 DEF CompatibleName
      <4>2. inv[p].pc = "observation"
        BY <1>0, <1>1, <2>1, <4>1, DistinctNames DEF Shape, PublishingPc, SubmitPc
      <4>3. inv[p].id = r
        BY <3>1, <4>1, <4>2 DEF ReconciliationName
      <4>4. QED
        BY <3>1, <4>1, <4>2, <4>3
    <3>4. QED
      BY <3>2, <3>3
  <2>5. QED
    BY <1>1, <1>3, <2>1, <2>2, <2>3, <2>4, UInvLink
<1>4. QED
  BY <1>1, <1>2, <1>3

(* The records of the authenticated commands: a report by one who asked for *)
(* it, and the receipt of the report that was seen.                        *)
LEMMA AuthPublishingUInv ==
  ASSUME QInv, UInv, NEW p \in Proc, AuthPublishing(p) PROVE UInv'
<1>0. /\ UNCHANGED <<inv, auth>>
      /\ auth[p].pc \in AuthPublishingPc /\ Key(p) \in Marker
      /\ auth[p].pc \in {"report", "compatible"} =>
           auth[p].report.receipt.id \in AuthId \cup {Absent}
      /\ pub[p].name \in Name /\ pub[p].bytes \in Bytes
      /\ \/ entry' = entry
         \/ /\ entry[pub[p].name] = Absent
            /\ \A n \in Name : entry'[n] = IF n = pub[p].name THEN pub[p].bytes ELSE entry[n]
  BY AuthPublishingEffect
<1>1. AuthShape(p) /\ Seen(p)
  BY AuthFacts
<1>2. CASE entry' = entry
  BY <1>0, <1>2, UInvKept DEF UInv, OlderId, Asks, Key
<1>3. CASE /\ entry[pub[p].name] = Absent
           /\ \A n \in Name : entry'[n] = IF n = pub[p].name THEN pub[p].bytes ELSE entry[n]
  <2>1. PICK n \in Name, b \in Bytes, k \in Marker :
          n = pub[p].name /\ b = pub[p].bytes /\ k = Key(p)
    BY <1>0
  <2>2. CASE auth[p].pc = "intent"
    <3>1. n = IntentName(k)
      BY <1>1, <2>1, <2>2 DEF AuthShape
    <3>2. QED
      BY <1>0, <1>3, <2>1, <3>1, ReportNames, UInvLink
  <2>3. CASE auth[p].pc = "report"
    <3>1. PICK r \in AuthId \cup {Absent} : n = ReportName(k, r) /\ r = auth[p].id
      BY <1>0, <1>1, <2>1, <2>3 DEF AuthShape, OwnReportName
    <3>2. entry[CompatibleName(k, r)] = Absent
      BY <1>3, <2>1, <2>3, <3>1 DEF UInv, Unanswered, Asks
    <3>3. ASSUME NEW l \in Marker, NEW s \in AuthId \cup {Absent}
          PROVE  /\ n # CompatibleName(l, s)
                 /\ n = ReportName(l, s) => entry[CompatibleName(l, s)] = Absent
      BY <3>1, <3>2, ReportNames
    <3>4. QED
      BY <1>0, <1>3, <2>1, <3>3, UInvLink
  <2>4. CASE auth[p].pc = "compatible"
    <3>1. PICK r \in AuthId \cup {Absent} :
            /\ n = CompatibleName(k, r) /\ b = auth[p].report.receipt
            /\ entry[ReportName(k, r)] = auth[p].report /\ auth[p].report # Absent
      BY <1>0, <1>1, <2>1, <2>4, ReportRecords
         DEF AuthShape, Seen, OwnReportName, OwnCompatibleName
    <3>2. ASSUME NEW l \in Marker, NEW s \in AuthId \cup {Absent}
          PROVE  /\ n # ReportName(l, s)
                 /\ n = CompatibleName(l, s) => l = k /\ s = r
      BY <3>1, ReportNames
    <3>3. QED
      BY <1>0, <1>3, <2>1, <3>1, <3>2, UInvLink
  <2>5. QED
    BY <1>0, <2>2, <2>3, <2>4 DEF AuthPublishingPc
<1>4. QED
  BY <1>0, <1>2, <1>3

(* With the power, records only disappear, and nobody asks any more.  A     *)
(* report may be lost before its receipt: then nothing is claimed.         *)
LEMMA PowerUInv ==
  ASSUME QInv, UInv, AuthPowerFails PROVE UInv'
<1>0. /\ \A p \in Proc : inv'[p].pc = "idle" /\ auth'[p].pc = "idle"
      /\ \A n \in Name : entry'[n] \in {entry[n], Absent}
  BY AuthPowerEffect
<1>1. Unanswered' /\ \A p \in Proc : OlderId(p)'
  BY <1>0 DEF Unanswered, Asks, OlderId, ReconcilePc
<1>2. ReportIsReplayable'
  <2> SUFFICES ASSUME NEW k \in Marker, NEW r \in AuthId \cup {Absent},
                      entry'[ReportName(k, r)] # Absent
               PROVE  entry'[CompatibleName(k, r)] \in {Absent, entry'[ReportName(k, r)].receipt}
    BY DEF ReportIsReplayable
  <2>1. /\ entry'[ReportName(k, r)] = entry[ReportName(k, r)]
        /\ entry'[CompatibleName(k, r)] \in {entry[CompatibleName(k, r)], Absent}
    BY <1>0, ReportNames
  <2>2. QED
    BY <2>1 DEF UInv, ReportIsReplayable
<1>3. QED
  BY <1>1, <1>2 DEF UInv

LEMMA UInvNext ==
  ASSUME LegacyId \cap AuthId = {}
  PROVE  QInv /\ KInv /\ UInv /\ [AuthNext]_allVars => UInv'
<1> SUFFICES ASSUME QInv, KInv, UInv, [AuthNext]_allVars PROVE UInv'
  OBVIOUS
<1>1. CASE OlderNext
  <2>1. auth' = auth /\ \A p \in Proc : OlderId(p)'
    BY <1>1, OlderIsPowered, OlderIds DEF UInv
  <2>2. entry' = entry \/ \E p \in Proc : LedgerPublicationStep(p)
    <3>1. \A p \in Proc : SubmitPost(p) => entry' = entry
      BY DEF SubmitPost, pubVars
    <3>2. QED
      BY <1>1, <3>1, OlderCases DEF KInv
  <2>3. CASE entry' = entry
    BY <2>1, <2>3, UInvKept DEF Asks, Key
  <2>4. QED
    BY <2>1, <2>2, <2>3, OlderPublicationUInv
<1>2. ASSUME NEW p \in Proc,
             \/ AuthStart(p)
             \/ AuthContinue(p) /\ ~AuthPublishing(p) /\ ~AuthSubmitPost(p)
             \/ AuthKilled(p)
      PROVE  UInv'
  <2>1. AuthMoves(p)
    BY <1>2, AuthStepsMove
  <2>2. /\ entry' = entry /\ inv' = inv /\ \A q \in Proc \ {p} : auth'[q] = auth[q]
        /\ auth'[p].pc \in {"await", "report"} =>
             \/ auth[p].pc = "await" /\ auth'[p].intent = auth[p].intent /\ auth'[p].id = auth[p].id
             \/ entry[CompatibleName(auth'[p].intent.key, auth'[p].id)] = Absent
    BY <2>1 DEF AuthMoves, ledgerVars
  <2>3. ASSUME NEW q \in Proc, NEW k \in Marker, NEW r \in AuthId \cup {Absent}, Asks(q, k, r)'
        PROVE  Asks(q, k, r) \/ entry[CompatibleName(k, r)] = Absent
    BY <2>2, <2>3 DEF Asks, Key
  <2>4. \A q \in Proc : OlderId(q)'
    BY <2>2 DEF UInv, OlderId
  <2>5. QED
    BY <2>2, <2>3, <2>4, UInvKept
<1>3. ASSUME NEW p \in Proc, AuthSubmitPost(p) PROVE UInv'
  <2>1. /\ entry' = entry /\ inv' = inv /\ \A q \in Proc \ {p} : auth'[q] = auth[q]
        /\ auth'[p].intent = auth[p].intent /\ auth'[p].id = Absent
        /\ Key(p) \in Marker /\ posts[Key(p)] = 0
    BY <1>3, AuthPostEffect DEF TakesUp
  <2>2. entry[CompatibleName(Key(p), Absent)] = Absent
    BY <2>1 DEF CompatibleName, KInv, Answers
  <2>3. ASSUME NEW q \in Proc, NEW k \in Marker, NEW r \in AuthId \cup {Absent}, Asks(q, k, r)'
        PROVE  Asks(q, k, r) \/ entry[CompatibleName(k, r)] = Absent
    BY <2>1, <2>2, <2>3 DEF Asks, Key
  <2>4. \A q \in Proc : OlderId(q)'
    BY <2>1 DEF UInv, OlderId
  <2>5. QED
    BY <2>1, <2>3, <2>4, UInvKept
<1>4. CASE UNCHANGED allVars
  <2>1. entry' = entry /\ inv' = inv /\ auth' = auth
    BY <1>4 DEF allVars, authVars, vars, pubVars, ledgerVars
  <2>2. QED
    BY <2>1, UInvKept DEF UInv, OlderId, Asks, Key
<1>5. QED
  BY <1>1, <1>2, <1>3, <1>4, AuthCases, AuthPublishingUInv, PowerUInv DEF AuthNext

(* No other receipt ever stands in a report's place, at any loss of power:  *)
(* the next invocation finds the exact receipt or rebuilds it.  The         *)
(* assumption is the operators' part: an id that the older reconcile used   *)
(* may have been recorded by it without a report.                           *)
THEOREM ReportsAreReplayable ==
  ASSUME LegacyId \cap AuthId = {}
  PROVE  AuthSpec => []ReportIsReplayable
<1>1. AuthInit => UInv
  <2> SUFFICES ASSUME AuthInit PROVE UInv
    OBVIOUS
  <2>1. /\ \A n \in Name : entry[n] = Absent
        /\ \A p \in Proc : inv[p].pc = "idle" /\ auth[p].pc = "idle"
    BY DEF AuthInit, Init, PubInit, IdleInv, IdleAuth
  <2>2. \A k \in Marker, r \in AuthId \cup {Absent} : entry[ReportName(k, r)] = Absent
    BY <2>1, ReportNames
  <2>3. QED
    BY <2>1, <2>2 DEF UInv, Unanswered, Asks, OlderId, ReconcilePc, ReportIsReplayable
<1>2. UInv => ReportIsReplayable
  BY DEF UInv
<1>3. QED
  BY <1>1, <1>2, QInvariance, KInvariance, UInvNext, PTL DEF AuthSpec
=============================================================================

--------------------------- MODULE MonotonicRelease ---------------------------
(***************************************************************************)
(* Monotonic factory-release adapter state (docs/MONOTONIC_FACTORY_RELEASE_*)
(* ADAPTER_STATE.md): the commands of crates/pcbex-cli/src/main.rs         *)
(*                                                                         *)
(*   submit     submit_monotonic_authenticated_..._release_local           *)
(*   reconcile  reconcile_monotonic_authenticated_..._release_local        *)
(*                                                                         *)
(* and the chain of state entries they keep in the signed-release ledger,  *)
(* for one idempotency key whose reservation marker is on disk.  Beside    *)
(* them run the older commands of ReleaseLedger, of which only the records *)
(* they leave under the names shared with these commands appear here.      *)
(*                                                                         *)
(* An adapter state is identified with its SHA-256 digest.  The adapter    *)
(* holds the trusted signing key but is not trusted to keep one history:   *)
(* it may sign any state in answer to any request.                         *)
(***************************************************************************)
EXTENDS NoReplacePublication, Sequences

CONSTANTS AdapterState,   \* FactoryReleaseAdapterMonotonicState values
          SequenceOf,     \* their sequence
          PreviousOf,     \* their previous_state_sha256, or Absent
          SubmissionOf,   \* their submission_id
          TerminalState,  \* the ones with status AdapterAccepted or AdapterRejected
          MaxSequence,    \* MAX_FACTORY_RELEASE_ADAPTER_STATE_SEQUENCE
          Nonce,          \* request nonces of monotonic submits
          LegacyNonce,    \* request nonces of older submits
          ReconId,
          LegacyReceipt,  \* whether an older submit may have left its receipt
          LegacyId        \* reconciliation ids also used with an older command

ASSUME StateAssumption ==
  /\ MaxSequence \in Nat
  /\ SequenceOf \in [AdapterState -> 0..MaxSequence]
  /\ PreviousOf \in [AdapterState -> AdapterState \cup {Absent}]
  /\ \A s \in AdapterState : SequenceOf[s] = 0 <=> PreviousOf[s] = Absent
  /\ TerminalState \subseteq AdapterState
  /\ LegacyId \subseteq ReconId /\ LegacyReceipt \subseteq BOOLEAN
  /\ Absent \notin AdapterState \cup ReconId \cup Nonce \cup LegacyNonce

(* The submission's own records have no reconciliation id.                 *)
ObservationId == ReconId \cup {Absent}

IntentName == [kind |-> "intent", id |-> Absent]
ObservationName(r) == [kind |-> "observation", id |-> r]
ReceiptName(r) == [kind |-> "receipt", id |-> r]
StateName(n) == [kind |-> "state", id |-> n]

MonotonicName ==
  {IntentName} \cup {ObservationName(r) : r \in ObservationId}
    \cup {ReceiptName(r) : r \in ObservationId} \cup {StateName(n) : n \in 0..MaxSequence}

(* An observation report: the head it was requested with, the state the    *)
(* authenticated response carried, if any, and whether continuity holds.   *)
Report == [id : ObservationId, requested : AdapterState \cup {Absent},
           observed : AdapterState \cup {Absent}, verified : BOOLEAN]
(* The compatible receipt retained by a report.                            *)
Receipt == [id : ObservationId, observed : AdapterState \cup {Absent}]
StateEntry == [state : AdapterState, report : Report]
MonotonicBytes == Nonce \cup LegacyNonce \cup Report \cup Receipt \cup StateEntry

ASSUME MonotonicAssumption ==
  /\ MonotonicName \subseteq Name
  /\ MonotonicBytes \subseteq Bytes

VARIABLES inv,       \* the command each process is running, and its locals
          posts,     \* POSTs of the package so far
          shown,     \* states of the verified reports published so far
          journal    \* names installed since the directory was last synchronized

vars == <<pubVars, inv, posts, shown, journal>>

IdleInv == [pc |-> "idle", nonce |-> Absent, id |-> Absent, requested |-> Absent,
            report |-> Absent, fresh |-> FALSE]

PublishingPc == {"intent", "observation", "entry", "receipt"}

(* The ledger is empty, or an older submit left its intent, with or        *)
(* without the receipt of its result.                                      *)
Init ==
  /\ \E old \in LegacyNonce \cup {Absent}, hasReceipt \in LegacyReceipt :
       entry = [n \in Name |->
                  CASE n = IntentName -> old
                    [] n = ReceiptName(Absent) /\ old # Absent /\ hasReceipt ->
                         [id |-> Absent, observed |-> Absent]
                    [] OTHER -> Absent]
  /\ durable = Visible
  /\ pub = [p \in Proc |-> IdlePub]
  /\ inv = [p \in Proc |-> IdleInv]
  /\ posts = IF entry[IntentName] = Absent THEN 0 ELSE 1
  /\ shown = {}
  /\ journal = <<>>
-----------------------------------------------------------------------------
(* validate_factory_release_adapter_state_transition.                      *)
ValidTransition(requested, s) ==
  IF requested = Absent
    THEN SequenceOf[s] = 0
    ELSE \/ s = requested
         \/ /\ SequenceOf[s] = SequenceOf[requested] + 1
            /\ PreviousOf[s] = requested
            /\ requested \notin TerminalState
            /\ SubmissionOf[s] = SubmissionOf[requested]

ReceiptOf(report) == [id |-> report.id, observed |-> report.observed]

(* Sequences the loader reads before it meets the first missing entry.     *)
Chain == {n \in 0..MaxSequence : \A i \in 0..n : entry[StateName(i)] # Absent}

StateAt(n) == IF n \in Chain THEN entry[StateName(n)].state ELSE Absent

(* load_monotonic_factory_release_state_chain: what it demands of the      *)
(* entry at n; any failure is an error of the whole load.                  *)
EntryIsBacked(n) ==
  LET e == entry[StateName(n)] IN
  /\ SequenceOf[e.state] = n
  /\ entry[ObservationName(e.report.id)] = e.report
  /\ e.report.verified
  /\ e.report.observed = e.state
  /\ e.report.requested = StateAt(n - 1)
  /\ ValidTransition(StateAt(n - 1), e.state)

ChainLoads == \A n \in Chain : EntryIsBacked(n)

HeadSequence == CHOOSE n \in Chain : n + 1 \notin Chain
ChainHead == IF Chain = {} THEN Absent ELSE entry[StateName(HeadSequence)].state
HeadReport == entry[StateName(HeadSequence)].report
-----------------------------------------------------------------------------
Goto(p, pc) == inv' = [inv EXCEPT ![p].pc = pc]
Exit(p) == inv' = [inv EXCEPT ![p] = IdleInv]
Take(p) == pub' = [pub EXCEPT ![p] = IdlePub]

(* Every publication after the intent requires the intent it started from; *)
(* the windows, the marker, the package and the policy are outside.        *)
CommitGuard(p) == inv[p].pc # "intent" => entry[IntentName] = inv[p].nonce

Publishing(p) ==
  /\ inv[p].pc \in PublishingPc
  /\ \E env \in BOOLEAN :
       Install(p, env /\ CommitGuard(p)) \/ Complete(p, env /\ CommitGuard(p))
  /\ journal' = IF durable' # durable THEN <<>>
                ELSE IF entry' # entry THEN Append(journal, pub[p].name)
                ELSE journal
  /\ UNCHANGED <<inv, posts, shown>>

(* Mutant: any record of the same name counts as ours.                     *)
RecordedAnyBytes(p) == pub[p].step \in {"CommittedDurable", "AlreadyExists"}

(* finish_signed_release_adapter_record.                                   *)
Recorded(p) ==
  \/ pub[p].step = "CommittedDurable"
  \/ pub[p].step = "AlreadyExists" /\ entry[pub[p].name] = pub[p].bytes

(* repair_monotonic_factory_release_observation: a verified report first   *)
(* stages the entry of its sequence, any other goes on to the receipt.     *)
RepairWith(p, report, fresh) ==
  /\ inv' = [inv EXCEPT ![p].pc = IF report.verified THEN "entry" ELSE "stageReceipt",
                        ![p].report = report, ![p].fresh = fresh]
  /\ IF report.verified
       THEN StageAs(p, StateName(SequenceOf[report.observed]),
                       [state |-> report.observed, report |-> report])
       ELSE Take(p)

EndWith(p) == Exit(p) /\ Take(p)
-----------------------------------------------------------------------------
SubmitStart(p, x) ==
  /\ inv[p].pc = "idle"
  /\ inv' = [inv EXCEPT ![p] = [IdleInv EXCEPT !.pc = "readIntent", !.nonce = x]]
  /\ UNCHANGED <<pubVars, posts, shown, journal>>

SubmitReadIntent(p) ==
  /\ inv[p].pc = "readIntent"
  /\ CASE entry[IntentName] = Absent -> Goto(p, "checkOrphan")
       [] entry[IntentName] = inv[p].nonce -> Goto(p, "replay")
       [] OTHER -> Exit(p)
  /\ UNCHANGED <<pubVars, posts, shown, journal>>

(* An existing observation is repaired and replayed; without one, whether  *)
(* or not an older receipt exists, the package is not sent again.          *)
SubmitReplay(p) ==
  /\ inv[p].pc = "replay"
  /\ IF entry[ObservationName(Absent)] # Absent
       THEN RepairWith(p, entry[ObservationName(Absent)], FALSE)
       ELSE EndWith(p)
  /\ UNCHANGED <<entry, durable, posts, shown, journal>>

SubmitStageIntent(p) ==
  /\ inv[p].pc = "checkOrphan"
  /\ IF entry[ObservationName(Absent)] # Absent \/ entry[ReceiptName(Absent)] # Absent
       THEN Exit(p) /\ UNCHANGED pub
       ELSE Goto(p, "intent") /\ StageAs(p, IntentName, inv[p].nonce)
  /\ UNCHANGED <<entry, durable, posts, shown, journal>>

(* Mutant: a concurrent intent is taken for one's own.                     *)
SubmitIntentOutcomeShared(p) ==
  /\ inv[p].pc = "intent"
  /\ pub[p].step \in Outcome
  /\ IF pub[p].step \in {"CommittedDurable", "AlreadyExists"} THEN Goto(p, "post") ELSE Exit(p)
  /\ Take(p)
  /\ UNCHANGED <<entry, durable, posts, shown, journal>>

(* Only CommittedDurable goes on.                                          *)
SubmitIntentOutcome(p) ==
  /\ inv[p].pc = "intent"
  /\ pub[p].step \in Outcome
  /\ IF pub[p].step = "CommittedDurable" THEN Goto(p, "post") ELSE Exit(p)
  /\ Take(p)
  /\ UNCHANGED <<entry, durable, posts, shown, journal>>

(* The one POST, with no accepted head.                                    *)
SubmitPost(p) ==
  /\ inv[p].pc = "post"
  /\ posts' = posts + 1
  /\ Goto(p, "await")
  /\ UNCHANGED <<pubVars, shown, journal>>

(* reconcile: the intent must exist and the chain must load.  A terminal   *)
(* head is repaired and replayed without the network.                      *)
ReconcileStart(p, r) ==
  /\ inv[p].pc = "idle"
  /\ entry[IntentName] # Absent
  /\ inv' = [inv EXCEPT ![p] = [IdleInv EXCEPT !.pc = "load", !.id = r,
                                               !.nonce = entry[IntentName]]]
  /\ UNCHANGED <<pubVars, posts, shown, journal>>

ReconcileLoad(p) ==
  /\ inv[p].pc = "load"
  /\ CASE ~ChainLoads -> EndWith(p)
       [] ChainLoads /\ ChainHead \in TerminalState -> RepairWith(p, HeadReport, FALSE)
       [] OTHER -> /\ inv' = [inv EXCEPT ![p].pc = "readObservation",
                                         ![p].requested = ChainHead]
                   /\ UNCHANGED pub
  /\ UNCHANGED <<entry, durable, posts, shown, journal>>

(* The observation of this id is repaired and replayed.                    *)
ReconcileReadObservation(p) ==
  /\ inv[p].pc = "readObservation"
  /\ IF entry[ObservationName(inv[p].id)] # Absent
       THEN RepairWith(p, entry[ObservationName(inv[p].id)], FALSE)
       ELSE Goto(p, "readLegacy") /\ UNCHANGED pub
  /\ UNCHANGED <<entry, durable, posts, shown, journal>>

(* An id already used with an older command is refused; otherwise the      *)
(* guard runs and the GET carries the loaded head.                         *)
ReconcileGet(p) ==
  /\ inv[p].pc = "readLegacy"
  /\ IF entry[ReceiptName(inv[p].id)] # Absent \/ entry[IntentName] # inv[p].nonce
       THEN Exit(p) ELSE Goto(p, "await")
  /\ UNCHANGED <<pubVars, posts, shown, journal>>

(* authenticate_captured_response: the answer to a POST or GET is any      *)
(* signed state, or nothing that authenticates one.                        *)
Response(p, s) ==
  /\ inv[p].pc = "await"
  /\ LET report == [id |-> inv[p].id, requested |-> inv[p].requested, observed |-> s,
                    verified |-> s # Absent /\ ValidTransition(inv[p].requested, s)] IN
       /\ inv' = [inv EXCEPT ![p].pc = "observation", ![p].report = report,
                             ![p].fresh = TRUE]
       /\ StageAs(p, ObservationName(inv[p].id), report)
  /\ UNCHANGED <<entry, durable, posts, shown, journal>>

(* Mutant: repair goes on although the observation was not recorded.       *)
ObservationOutcomeIgnored(p) ==
  /\ inv[p].pc = "observation"
  /\ pub[p].step \in Outcome
  /\ RepairWith(p, inv[p].report, TRUE)
  /\ UNCHANGED <<entry, durable, posts, shown, journal>>

(* The observation is recorded before anything is derived from it.         *)
ObservationOutcome(p) ==
  /\ inv[p].pc = "observation"
  /\ pub[p].step \in Outcome
  /\ IF Recorded(p) THEN RepairWith(p, inv[p].report, TRUE) ELSE EndWith(p)
  /\ UNCHANGED <<entry, durable, posts, shown, journal>>
-----------------------------------------------------------------------------
(* Mutants: a concurrent entry is not compared with the observed state, or *)
(* the outcome is not looked at.                                           *)
EntryOutcomeAnyState(p) ==
  /\ inv[p].pc = "entry"
  /\ pub[p].step \in Outcome
  /\ IF pub[p].step \in {"CommittedDurable", "AlreadyExists"} /\ ChainLoads
       THEN Goto(p, "stageReceipt") ELSE Exit(p)
  /\ Take(p)
  /\ UNCHANGED <<entry, durable, posts, shown, journal>>

EntryOutcomeIgnored(p) ==
  /\ inv[p].pc = "entry"
  /\ pub[p].step \in Outcome
  /\ Goto(p, "stageReceipt")
  /\ Take(p)
  /\ UNCHANGED <<entry, durable, posts, shown, journal>>

(* retain_monotonic_factory_release_state_entry: someone else's entry must *)
(* hold the same state; then the whole chain must load and reach it.       *)
EntryOutcome(p) ==
  /\ inv[p].pc = "entry"
  /\ pub[p].step \in Outcome
  /\ LET s == inv[p].report.observed IN
       IF /\ \/ pub[p].step = "CommittedDurable"
             \/ pub[p].step = "AlreadyExists" /\ entry[pub[p].name].state = s
          /\ ChainLoads /\ Chain # {}
          /\ HeadSequence >= SequenceOf[s]
          /\ HeadSequence = SequenceOf[s] => ChainHead = s
       THEN Goto(p, "stageReceipt") ELSE Exit(p)
  /\ Take(p)
  /\ UNCHANGED <<entry, durable, posts, shown, journal>>

(* The compatible receipt must be this report's, or is written.            *)
StageReceipt(p) ==
  /\ inv[p].pc = "stageReceipt"
  /\ LET n == ReceiptName(inv[p].report.id)
         receipt == ReceiptOf(inv[p].report) IN
       CASE entry[n] = Absent -> Goto(p, "receipt") /\ StageAs(p, n, receipt)
         [] entry[n] = receipt -> Goto(p, "publish") /\ UNCHANGED pub
         [] OTHER -> Exit(p) /\ UNCHANGED pub
  /\ UNCHANGED <<entry, durable, posts, shown, journal>>

ReceiptOutcome(p) ==
  /\ inv[p].pc = "receipt"
  /\ pub[p].step \in Outcome
  /\ IF Recorded(p) THEN Goto(p, "publish") ELSE Exit(p)
  /\ Take(p)
  /\ UNCHANGED <<entry, durable, posts, shown, journal>>

(* A fresh reconciliation loads the chain again before it publishes.       *)
ReachesObserved(report) ==
  /\ ChainLoads
  /\ report.verified => Chain # {} /\ HeadSequence >= SequenceOf[report.observed]

Publish(p) ==
  /\ inv[p].pc = "publish"
  /\ IF inv[p].fresh /\ inv[p].id # Absent => ReachesObserved(inv[p].report)
       THEN shown' = shown \cup (IF inv[p].report.verified THEN {inv[p].report.observed} ELSE {})
       ELSE UNCHANGED shown
  /\ Exit(p)
  /\ UNCHANGED <<pubVars, posts, journal>>
-----------------------------------------------------------------------------
(* An older reconcile records its receipt under an id.                     *)
LegacyReconcile(r) ==
  /\ entry[IntentName] # Absent
  /\ entry[ReceiptName(r)] = Absent
  /\ entry' = [entry EXCEPT ![ReceiptName(r)] = [id |-> r, observed |-> Absent]]
  /\ durable' = Visible \cup {ReceiptName(r)}
  /\ journal' = <<>>
  /\ UNCHANGED <<pub, inv, posts, shown>>

(* A failed check, credential or clock sample ends a command like a kill.  *)
ProcessKilled(p) ==
  /\ inv[p].pc # "idle"
  /\ Exit(p)
  /\ Take(p)
  /\ UNCHANGED <<entry, durable, posts, shown, journal>>

(* The directory's metadata reaches the disk in the order of the installs: *)
(* what is lost is the end of the journal.                                 *)
PowerFails ==
  /\ \E kept \in 0..Len(journal) :
       PowerLossTo(Visible \ {journal[i] : i \in kept + 1..Len(journal)})
  /\ inv' = [p \in Proc |-> IdleInv]
  /\ journal' = <<>>
  /\ UNCHANGED <<posts, shown>>

MonotonicPc == PublishingPc \cup
  {"idle", "readIntent", "replay", "checkOrphan", "post", "load", "readObservation",
   "readLegacy", "await", "stageReceipt", "publish"}

Continue(p) ==
  \/ Publishing(p)
  \/ SubmitReadIntent(p) \/ SubmitReplay(p) \/ SubmitStageIntent(p)
  \/ SubmitIntentOutcome(p) \/ SubmitPost(p)
  \/ ReconcileLoad(p) \/ ReconcileReadObservation(p) \/ ReconcileGet(p)
  \/ \E s \in AdapterState \cup {Absent} : Response(p, s)
  \/ ObservationOutcome(p)
  \/ EntryOutcome(p) \/ StageReceipt(p) \/ ReceiptOutcome(p)
  \/ Publish(p)

PoweredNext ==
  \/ \E p \in Proc :
       \/ \E x \in Nonce : SubmitStart(p, x)
       \/ \E r \in ReconId : ReconcileStart(p, r)
       \/ Continue(p)
       \/ ProcessKilled(p)
  \/ \E r \in LegacyId : LegacyReconcile(r)

Next == PoweredNext \/ PowerFails

Spec == Init /\ [][Next]_vars

(* The same system while the power stays on.                               *)
PoweredSpec == Init /\ [][PoweredNext]_vars
-----------------------------------------------------------------------------
(* Type invariant.                                                         *)
TypeOK ==
  /\ PubTypeOK
  /\ inv \in [Proc -> [pc        : MonotonicPc,
                       nonce     : Nonce \cup LegacyNonce \cup {Absent},
                       id        : ObservationId,
                       requested : AdapterState \cup {Absent},
                       report    : Report \cup {Absent},
                       fresh     : BOOLEAN]]
  /\ posts \in Nat
  /\ shown \subseteq AdapterState
  /\ journal \in Seq(Name)

(* The package of the key is POSTed at most once, also when several         *)
(* monotonic submits meet at the intent or find the one of an older submit. *)
PostedOnce == posts <= 1 /\ (posts = 1 => IntentName \in durable)

(* Whatever the adapter signs and however concurrent repairs, kills and     *)
(* power losses interleave, the retained chain always loads: every entry is *)
(* backed by its observation, links to its predecessor, follows no terminal *)
(* state, and no entry stands behind a gap.  A power loss is that of a file *)
(* system with an ordered journal: it takes the last installs, not any.     *)
ChainAlwaysLoads ==
  /\ ChainLoads
  /\ \A n \in 0..MaxSequence : entry[StateName(n)] # Absent => n \in Chain

(* Two verified reports handed to callers never show different states of    *)
(* the same sequence, although the adapter may sign both: a different state *)
(* at the same sequence is rejected as equivocation.                        *)
NoPublishedEquivocation ==
  \A s, t \in shown : SequenceOf[s] = SequenceOf[t] => s = t

(* A verified report is published only when its state is on the retained    *)
(* chain.                                                                   *)
PublishedIsRetained ==
  [][\A s \in shown' \ shown : StateAt(SequenceOf[s]) = s]_vars

(* "Once the chain reaches a terminal state, every later reconciliation     *)
(* also returns locally": the compatible receipt of a terminal head never   *)
(* contradicts it, or repair would fail for good.                           *)
TerminalIsReplayable ==
  ChainHead \in TerminalState =>
    entry[ReceiptName(HeadReport.id)] \in {Absent, ReceiptOf(HeadReport)}
=============================================================================
